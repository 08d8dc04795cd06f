------------------------- MODULE P2PSession_proofs -------------------------
(***************************************************************************)
(* Proofs about P2PSession, for any number of moves, tokens and requests   *)
(* in flight: no move is played but on the game its player saw; as long as *)
(* storage works the two pages share one game, restarts of the host's page *)
(* included; the host's tables agree, and the guest sees the game, without *)
(* gaps, from any connection.                                              *)
(***************************************************************************)
EXTENDS P2PSession, FiniteSetTheorems, SequenceTheorems, TLAPS

-----------------------------------------------------------------------------
(* Sequences over their own range.                                         *)

LEMMA AppendRange ==
  ASSUME NEW s, NEW x, s \in Seq(Range(s))
  PROVE  /\ Append(s, x) \in Seq(Range(Append(s, x)))
         /\ Range(Append(s, x)) = Range(s) \cup {x}
         /\ Len(Append(s, x)) = Len(s) + 1
         /\ Append(s, x)[Len(s) + 1] = x
         /\ DOMAIN Append(s, x) = DOMAIN s \cup {Len(s) + 1}
         /\ \A i \in DOMAIN s : Append(s, x)[i] = s[i]
<1>. DEFINE t == Append(s, x)
            S == Range(s) \cup {x}
<1>1. s \in Seq(S) /\ x \in S
  BY SeqMonotonic
<1>2. /\ t \in Seq(S) /\ Len(t) = Len(s) + 1
      /\ \A i \in 1..Len(s) : t[i] = s[i]
      /\ t[Len(s) + 1] = x
  BY <1>1, AppendProperties
<1>3. DOMAIN s = 1..Len(s) /\ DOMAIN t = 1..Len(t) /\ Len(s) \in Nat
  BY <1>1, <1>2, LenProperties
<1>4. DOMAIN t = DOMAIN s \cup {Len(s) + 1}
  BY <1>2, <1>3
<1>5. Range(t) = S
  BY <1>2, <1>3, <1>4 DEF Range
<1>6. QED
  BY <1>2, <1>3, <1>4, <1>5

LEMMA FunctionIsSeq ==
  ASSUME NEW S, NEW n \in Nat, NEW f \in [1..n -> S]
  PROVE  f \in Seq(S)
<1>1. f \in UNION {[1..k -> S] : k \in Nat}
  OBVIOUS
<1>2. QED
  BY <1>1, SeqDef, Zenon

LEMMA TailRange ==
  ASSUME NEW s, s \in Seq(Range(s)), s # <<>>
  PROVE  /\ Tail(s) \in Seq(Range(Tail(s)))
         /\ Range(Tail(s)) \subseteq Range(s)
         /\ Head(s) \in Range(s)
<1>1. /\ Head(s) \in Range(s) /\ Tail(s) \in Seq(Range(s))
  BY HeadTailProperties
<1>2. Tail(s) \in [1..Len(Tail(s)) -> Range(s)] /\ Len(Tail(s)) \in Nat
  BY <1>1, LenProperties
<1>3. /\ Range(Tail(s)) \subseteq Range(s)
      /\ Tail(s) \in [1..Len(Tail(s)) -> Range(Tail(s))]
  BY <1>2 DEF Range
<1>4. QED
  BY <1>1, <1>2, <1>3, FunctionIsSeq

LEMMA EmptyRange == <<>> \in Seq(Range(<<>>)) /\ Range(<<>>) = {}
BY EmptySeq DEF Range

-----------------------------------------------------------------------------
(* Lines of the game.                                                      *)

\* A line stays informed when more moves are made.
LEMMA LineKept ==
  ASSUME NEW ms, NEW g, NEW r, ms \in Seq(Range(ms)), Line(ms, g)
  PROVE  Line(Append(ms, r), g)
<1>1. /\ DOMAIN Append(ms, r) = DOMAIN ms \cup {Len(ms) + 1}
      /\ \A i \in DOMAIN ms : Append(ms, r)[i] = ms[i]
  BY AppendRange
<1>2. Informed(Append(ms, r), g)
  BY <1>1 DEF Line, Informed
<1>3. QED
  BY <1>2 DEF Line

\* A line grows by a move that was made looking at it.
LEMMA LineGrows ==
  ASSUME NEW ms, NEW g, NEW m \in Moves, Line(ms, g), g # <<>>,
         m \in DOMAIN ms, ms[m].saw = g
  PROVE  Line(ms, Append(g, m))
<1>. DEFINE h == Append(g, m)
            S == Moves \cup {0}
<1>1. g \in Seq(S) /\ m \in S
  BY DEF Line, Histories
<1>2. /\ h \in Seq(S) /\ Len(h) = Len(g) + 1 /\ Len(g) \in Nat \ {0}
      /\ \A i \in 1..Len(g) : h[i] = g[i]
      /\ h[Len(g) + 1] = m
  BY <1>1, AppendProperties, EmptySeq
<1>3. h # <<>> /\ h[1] = 0
  BY <1>2, EmptySeq DEF Line
<1>4. ASSUME NEW i \in 2..Len(h)
      PROVE  h[i] \in DOMAIN ms /\ ms[h[i]].saw = SubSeq(h, 1, i - 1)
  <2>1. SubSeq(h, 1, i - 1) = SubSeq(g, 1, i - 1)
    <3>1. i - 1 \in 1..Len(g) /\ i - 1 \in Int /\ 1 \in Int
      BY <1>2
    <3>2. /\ \A j \in 1..i - 1 : g[j] \in S /\ h[j] = g[j]
      BY <1>1, <1>2, <3>1, ElementOfSeq
    <3>3. /\ SubSeq(g, 1, i - 1) \in Seq(S) /\ Len(SubSeq(g, 1, i - 1)) = i - 1
          /\ \A j \in 1..i - 1 : SubSeq(g, 1, i - 1)[j] = g[j]
      BY <3>1, <3>2, SubSeqProperties
    <3>4. /\ SubSeq(h, 1, i - 1) \in Seq(S) /\ Len(SubSeq(h, 1, i - 1)) = i - 1
          /\ \A j \in 1..i - 1 : SubSeq(h, 1, i - 1)[j] = h[j]
      BY <3>1, <3>2, SubSeqProperties
    <3>5. QED
      BY <3>2, <3>3, <3>4, SeqEqual
  <2>2. CASE i <= Len(g)
    BY <1>2, <2>1, <2>2 DEF Line, Informed
  <2>3. CASE i = Len(g) + 1
    <3>1. h[i] = m /\ SubSeq(g, 1, i - 1) = g
      BY <1>1, <1>2, <2>3, SubSeqFull
    <3>2. QED
      BY <2>1, <3>1
  <2>4. QED
    BY <1>2, <2>2, <2>3
<1>5. QED
  BY <1>2, <1>3, <1>4 DEF Line, Informed, Histories

\* A move that was made looking at a line is not in it yet.
LEMMA NotYetPlayed ==
  ASSUME NEW ms, NEW g, NEW m \in Moves, Line(ms, g), ms[m].saw = g
  PROVE  m \notin Range(g)
<1>. DEFINE S == Moves \cup {0}
<1>1. g \in Seq(S) /\ Len(g) \in Nat /\ DOMAIN g = 1..Len(g)
  BY LenProperties DEF Line, Histories
<1>2. ASSUME NEW i \in 1..Len(g), g[i] = m
      PROVE  FALSE
  <2>1. i \in 2..Len(g) /\ g # <<>>
    BY <1>1, <1>2, EmptySeq DEF Line, Moves
  <2>2. SubSeq(g, 1, i - 1) = g
    BY <1>2, <2>1 DEF Line, Informed
  <2>3. \A j \in 1..i - 1 : g[j] \in S
    BY <1>1, <2>1, ElementOfSeq
  <2>4. Len(SubSeq(g, 1, i - 1)) = i - 1
    BY <1>1, <2>1, <2>3, SubSeqProperties
  <2>5. QED
    BY <1>1, <2>1, <2>2, <2>4
<1>3. QED
  BY <1>1, <1>2 DEF Range

-----------------------------------------------------------------------------
(* The steps.                                                              *)

\* Requests in flight, whose intents are of moves that have been made
Requests(ms, q) ==
  /\ q \in Seq(Range(q))
  /\ \A m \in Range(q) : m.type = "intent" => m.move \in DOMAIN ms

\* The snapshot is saved, or refused by a storage that may refuse.
SavesGame ==
  /\ stored'.game \in {stored.game, game'}
  /\ ~SavesFail => stored'.game = game'

Grows == game' = game \/ Shared!GameNext

LEMMA EmitSaves ==
  ASSUME EmitSnapshotChanged
  PROVE  SavesGame
BY DEF EmitSnapshotChanged, Saved, Snapshot, SavesGame

\* What a step has to keep: the record, the two lines and the requests.
LEMMA Keeps ==
  ASSUME InformedInv, made' \in Seq(Range(made')), Len(made') <= MaxMoves,
         Line(made', game'), Line(made', stored.game), SavesGame,
         Requests(made', toHost')
  PROVE  InformedInv'
BY DEF InformedInv, SavesGame, Requests

LEMMA RequestsNow ==
  ASSUME InformedInv
  PROVE  Requests(made, toHost)
BY DEF InformedInv, Requests

LEMMA RequestsGrow ==
  ASSUME NEW ms, NEW q, NEW m, Requests(ms, q),
         m.type = "intent" => m.move \in DOMAIN ms
  PROVE  Requests(ms, Append(q, m))
BY AppendRange DEF Requests

LEMMA RequestsShrink ==
  ASSUME NEW ms, NEW q, Requests(ms, q), q # <<>>
  PROVE  Requests(ms, Tail(q)) /\ Head(q) \in Range(q)
BY TailRange DEF Requests

LEMMA NoRequests ==
  ASSUME NEW ms
  PROVE  Requests(ms, <<>>)
BY EmptyRange DEF Requests

\* A step that leaves the game and the record of moves alone
LEMMA QuietStep ==
  ASSUME InformedInv, UNCHANGED <<game, made>>,
         UNCHANGED stored \/ EmitSnapshotChanged,
         Requests(made, toHost')
  PROVE  InformedInv' /\ Grows
<1>1. SavesGame
  <2>1. CASE UNCHANGED stored
    BY <2>1 DEF InformedInv, SavesGame
  <2>2. QED
    BY <2>1, EmitSaves
<1>2. QED
  BY <1>1, Keeps DEF InformedInv, Grows

LEMMA HostRestartStep ==
  ASSUME InformedInv, NEW remembered \in BOOLEAN, HostRestart(remembered)
  PROVE  InformedInv' /\ (~SavesFail => Grows)
<1>1. game' = stored.game /\ toHost' = <<>> /\ made' = made
  BY DEF HostRestart, OpenHost
<1>2. PICK h : stored' \in Saved(stored, Snapshot(h, stored.game)) \cup {stored}
  BY DEF HostRestart, OpenHost
<1>3. stored'.game = stored.game
  BY <1>2 DEF Saved, Snapshot
<1>4. SavesGame
  BY <1>1, <1>3 DEF SavesGame
<1>5. InformedInv'
  BY <1>1, <1>4, NoRequests, Keeps DEF InformedInv
<1>6. QED
  BY <1>1, <1>5 DEF InformedInv, Grows

LEMMA ConnectionStep ==
  ASSUME InformedInv,
         \/ \E remembered \in BOOLEAN : Dial(remembered)
         \/ ChannelDies \/ HostSeesGuest \/ HostMissesGuest
  PROVE  InformedInv' /\ Grows
<1>1. ASSUME NEW remembered \in BOOLEAN, Dial(remembered)
      PROVE  InformedInv' /\ Grows
  <2>1. PICK id : toHost' = <<[type |-> "join", id |-> id]>>
    BY <1>1 DEF Dial
  <2>2. Requests(made, Append(<<>>, [type |-> "join", id |-> id]))
    BY NoRequests, RequestsGrow
  <2>3. Requests(made, toHost')
    BY <2>1, <2>2
  <2>4. UNCHANGED <<game, made, stored>>
    BY <1>1 DEF Dial, hostVars
  <2>5. QED
    BY <2>3, <2>4, QuietStep
<1>2. CASE ChannelDies
  BY <1>2, NoRequests, QuietStep DEF ChannelDies, hostVars
<1>3. CASE HostSeesGuest \/ HostMissesGuest
  <2>1. Presence(TRUE) \/ Presence(FALSE)
    BY <1>3 DEF HostSeesGuest, HostMissesGuest
  <2>2. UNCHANGED <<game, made, toHost>>
    BY <2>1 DEF Presence, hostVars
  <2>3. UNCHANGED stored \/ EmitSnapshotChanged
    BY <2>1 DEF Presence, hostVars
  <2>4. QED
    BY <2>2, <2>3, RequestsNow, QuietStep
<1>4. QED
  BY <1>1, <1>2, <1>3

\* The move taken was made looking at the game it is added to.
LEMMA AcceptMoveStep ==
  ASSUME InformedInv, NEW move \in DOMAIN made', game # <<>>, AcceptMove(move),
         made' \in Seq(Range(made')), Len(made') <= MaxMoves,
         made'[move].saw = game, Line(made', game), Line(made', stored.game),
         Requests(made', toHost')
  PROVE  InformedInv' /\ Grows
<1>1. game' = Append(game, move) /\ EmitSnapshotChanged
  BY DEF AcceptMove
<1>2. move \in Moves
  BY LenProperties, P2PAssumption DEF Moves
<1>3. Line(made', game')
  BY <1>1, <1>2, LineGrows
<1>4. move \notin Range(game)
  BY <1>2, NotYetPlayed
<1>5. Shared!GameNext
  BY <1>1, <1>2, <1>4 DEF Shared!GameNext, Shared!Play, Shared!Range, Range
<1>6. QED
  BY <1>1, <1>3, <1>5, EmitSaves, Keeps DEF Grows

LEMMA HostReceiveStep ==
  ASSUME InformedInv, HostReceive
  PROVE  InformedInv' /\ Grows
<1>. DEFINE m == Head(toHost)
<1>1. /\ toHost # <<>> /\ toHost' = Tail(toHost)
      /\ made' = made
      /\ \/ m.type = "join" /\ HandleJoinRequest(m)
         \/ LobbyReady("guest", m.seat, m.type = "ready")
         \/ m.type = "intent" /\ HandleActionIntent(m.move)
         \/ HandleSyncRequest(m.seat)
  BY DEF HostReceive
<1>2. /\ Requests(made, toHost')
      /\ m.type = "intent" => m.move \in DOMAIN made
  BY <1>1, RequestsNow, RequestsShrink DEF Requests
<1>3. CASE HandleJoinRequest(m)
  <2>1. UNCHANGED game /\ (UNCHANGED stored \/ EmitSnapshotChanged)
    BY <1>3 DEF HandleJoinRequest
  <2>2. QED
    BY <1>1, <1>2, <2>1, QuietStep
<1>4. CASE LobbyReady("guest", m.seat, m.type = "ready")
  <2>1. UNCHANGED game /\ (UNCHANGED stored \/ EmitSnapshotChanged)
    BY <1>4 DEF LobbyReady
  <2>2. QED
    BY <1>1, <1>2, <2>1, QuietStep
<1>5. CASE m.type = "intent" /\ HandleActionIntent(m.move)
  <2>1. CASE UNCHANGED <<game, stored>>
    BY <1>1, <1>2, <2>1, QuietStep
  <2>2. CASE ~UNCHANGED <<game, stored>>
    <3>1. game # <<>> /\ IsFresh(m.move) /\ AcceptMove(m.move)
      BY <1>5, <2>2 DEF HandleActionIntent, hostVars
    <3>2. m.move \in DOMAIN made' /\ made'[m.move].saw = game
      BY <1>1, <1>2, <1>5, <3>1 DEF IsFresh
    <3>3. QED
      BY <1>1, <1>2, <3>1, <3>2, AcceptMoveStep DEF InformedInv
  <2>3. QED
    BY <2>1, <2>2
<1>6. CASE HandleSyncRequest(m.seat)
  <2>1. UNCHANGED <<game, stored>>
    BY <1>6 DEF HandleSyncRequest, hostVars
  <2>2. QED
    BY <1>1, <1>2, <2>1, QuietStep
<1>7. QED
  BY <1>1, <1>3, <1>4, <1>5, <1>6

\* Making a move keeps the record and the lines.
LEMMA MadeGrows ==
  ASSUME InformedInv, NEW r, Len(made) < MaxMoves, made' = Append(made, r)
  PROVE  /\ made' \in Seq(Range(made')) /\ Len(made') <= MaxMoves
         /\ Len(made') \in DOMAIN made' /\ made'[Len(made')] = r
         /\ Line(made', game) /\ Line(made', stored.game)
         /\ Requests(made', toHost)
<1>1. made \in Seq(Range(made)) /\ Len(made) \in Nat
  BY LenProperties DEF InformedInv
<1>2. /\ made' \in Seq(Range(made')) /\ Len(made') = Len(made) + 1
      /\ DOMAIN made' = DOMAIN made \cup {Len(made')}
      /\ made'[Len(made')] = r
  BY <1>1, AppendRange
<1>3. Line(made', game) /\ Line(made', stored.game)
  BY <1>1, LineKept DEF InformedInv
<1>4. Requests(made', toHost)
  BY <1>2 DEF InformedInv, Requests
<1>5. QED
  BY <1>1, <1>2, <1>3, <1>4, P2PAssumption

LEMMA HostPlayerStep ==
  ASSUME InformedInv,
         (\E isReady \in BOOLEAN : HostReady(isReady)) \/ StartGame \/ HostPlays
  PROVE  InformedInv' /\ Grows
<1>1. ASSUME NEW isReady \in BOOLEAN, HostReady(isReady)
      PROVE  InformedInv' /\ Grows
  <2>1. /\ UNCHANGED <<game, made, toHost>>
        /\ UNCHANGED stored \/ EmitSnapshotChanged
    BY <1>1 DEF HostReady, LobbyReady
  <2>2. QED
    BY <2>1, RequestsNow, QuietStep
<1>2. CASE StartGame
  <2>1. /\ game = <<>> /\ game' = <<0>> /\ EmitSnapshotChanged
        /\ UNCHANGED <<toHost, made>>
    BY <1>2 DEF StartGame
  <2>2. Line(made, <<0>>)
    <3>1. <<0>> \in Histories /\ Len(<<0>>) = 1
      BY DEF Histories
    <3>2. QED
      BY <3>1 DEF Line, Informed
  <2>3. Grows
    BY <2>1 DEF Grows, Shared!GameNext, Shared!Start
  <2>4. QED
    BY <2>1, <2>2, <2>3, RequestsNow, EmitSaves, Keeps DEF InformedInv
<1>3. CASE HostPlays
  <2>. DEFINE r == [by |-> local.now.seat, saw |-> game]
  <2>1. /\ game # <<>> /\ Len(made) < MaxMoves
        /\ made' = Append(made, r) /\ AcceptMove(Len(made'))
        /\ toHost' = toHost
    BY <1>3 DEF HostPlays
  <2>2. /\ made' \in Seq(Range(made')) /\ Len(made') <= MaxMoves
        /\ Len(made') \in DOMAIN made' /\ made'[Len(made')] = r
        /\ Line(made', game) /\ Line(made', stored.game)
        /\ Requests(made', toHost)
    BY <2>1, MadeGrows
  <2>3. QED
    BY <2>1, <2>2, AcceptMoveStep
<1>4. QED
  BY <1>1, <1>2, <1>3

LEMMA GuestStep ==
  ASSUME InformedInv,
         \/ \E isReady \in BOOLEAN : GuestReady(isReady)
         \/ GuestAsks \/ GuestPlays \/ GuestReceive
  PROVE  InformedInv' /\ Grows
<1>1. CASE (\E isReady \in BOOLEAN : GuestReady(isReady)) \/ GuestAsks \/ GuestReceive
  <2>1. UNCHANGED <<game, made, stored>>
    BY <1>1 DEF GuestReady, GuestAsks, GuestReceive, GuestVars, hostVars
  <2>2. toHost' = toHost \/ \E m : m.type # "intent" /\ toHost' = Append(toHost, m)
    <3>1. CASE \E isReady \in BOOLEAN : GuestReady(isReady)
      BY <3>1 DEF GuestReady, GuestSends
    <3>2. CASE GuestAsks
      BY <3>2 DEF GuestAsks, GuestSends
    <3>3. CASE GuestReceive
      BY <3>3 DEF GuestReceive, RequestSync, GuestSends
    <3>4. QED
      BY <1>1, <3>1, <3>2, <3>3
  <2>3. Requests(made, toHost')
    BY <2>2, RequestsNow, RequestsGrow
  <2>4. QED
    BY <2>1, <2>3, QuietStep
<1>2. CASE GuestPlays
  <2>. DEFINE r == [by |-> guest.id.seat, saw |-> guest.view]
              m == [type |-> "intent", move |-> Len(made')]
  <2>1. /\ Len(made) < MaxMoves /\ made' = Append(made, r)
        /\ toHost' = Append(toHost, m)
        /\ UNCHANGED <<game, stored>>
    BY <1>2 DEF GuestPlays, GuestSends, GuestVars, hostVars
  <2>2. /\ made' \in Seq(Range(made')) /\ Len(made') <= MaxMoves
        /\ Len(made') \in DOMAIN made'
        /\ Line(made', game) /\ Line(made', stored.game)
        /\ Requests(made', toHost)
    BY <2>1, MadeGrows
  <2>3. Requests(made', toHost')
    BY <2>1, <2>2, RequestsGrow
  <2>4. SavesGame
    BY <2>1 DEF InformedInv, SavesGame
  <2>5. QED
    BY <2>1, <2>2, <2>3, <2>4, Keeps DEF Grows
<1>3. QED
  BY <1>1, <1>2

LEMMA InformedStep ==
  ASSUME InformedInv, [Next]_vars
  PROVE  InformedInv' /\ (~SavesFail => Grows)
<1>1. CASE \E remembered \in BOOLEAN : HostRestart(remembered)
  BY <1>1, HostRestartStep
<1>2. CASE \/ \E remembered \in BOOLEAN : Dial(remembered)
           \/ ChannelDies \/ HostSeesGuest \/ HostMissesGuest
  BY <1>2, ConnectionStep
<1>3. CASE HostReceive
  BY <1>3, HostReceiveStep
<1>4. CASE (\E isReady \in BOOLEAN : HostReady(isReady)) \/ StartGame \/ HostPlays
  BY <1>4, HostPlayerStep
<1>5. CASE \/ \E isReady \in BOOLEAN : GuestReady(isReady)
           \/ GuestAsks \/ GuestPlays \/ GuestReceive
  BY <1>5, GuestStep
<1>6. CASE UNCHANGED vars
  <2>1. UNCHANGED <<game, made, stored, toHost>>
    BY <1>6 DEF vars
  <2>2. QED
    BY <2>1, RequestsNow, QuietStep
<1>7. QED
  BY <1>1, <1>2, <1>3, <1>4, <1>5, <1>6 DEF Next

LEMMA InformedInit == Init => InformedInv
<1>. SUFFICES ASSUME Init PROVE InformedInv
  OBVIOUS
<1>1. /\ game = <<>> /\ made = <<>> /\ toHost = <<>> /\ stored.game = <<>>
  BY DEF Init, Snapshot
<1>2. Line(<<>>, <<>>)
  <2>1. <<>> \in Histories /\ Len(<<>>) = 0
    BY EmptySeq DEF Histories
  <2>2. QED
    BY <2>1 DEF Line, Informed
<1>3. Requests(<<>>, <<>>)
  BY NoRequests
<1>4. <<>> \in Seq(Range(<<>>)) /\ Len(<<>>) = 0
  BY EmptyRange, EmptySeq
<1>5. QED
  BY <1>1, <1>2, <1>3, <1>4, P2PAssumption DEF InformedInv, Requests

-----------------------------------------------------------------------------
\* The inductive invariant holds in every reachable state.
THEOREM InformedInvHolds == Spec => []InformedInv
<1>1. InformedInv /\ [Next]_vars => InformedInv'
  BY InformedStep
<1>2. QED
  BY <1>1, InformedInit, PTL DEF Spec

(* handleActionIntent plays no move but on the very game its player was    *)
(* looking at, whatever the channel, the pages and the storage do.         *)
THEOREM InformedMovesHold == Spec => []InformedMoves
<1>1. InformedInv => InformedMoves
  BY DEF InformedInv, InformedMoves, Line
<1>2. QED
  BY <1>1, InformedInvHolds, PTL

(* With a storage that works the offline room is one shared game: it       *)
(* starts once, never loses a move and takes none twice, restorations from *)
(* the snapshot included.                                                  *)
THEOREM OneGame ==
  ASSUME ~SavesFail
  PROVE  Spec => ImplementsSharedGame
<1>1. Init => Shared!GameInit
  BY DEF Init, Shared!GameInit
<1>2. InformedInv /\ [Next]_vars => [Shared!GameNext]_game
  BY InformedStep DEF Grows
<1>3. QED
  BY <1>1, <1>2, InformedInvHolds, PTL DEF Spec, ImplementsSharedGame, Shared!GameSpec

-----------------------------------------------------------------------------
(* Messages to the guest.                                                  *)

Queue(q) == q \in Seq(Range(q)) /\ \A i \in DOMAIN q : GuestMessage(q[i])

LEMMA QueueDomain ==
  ASSUME NEW q, q \in Seq(Range(q))
  PROVE  Len(q) \in Nat /\ DOMAIN q = 1..Len(q) /\ (q = <<>> <=> Len(q) = 0)
BY LenProperties, EmptySeq

LEMMA AppendQueue ==
  ASSUME NEW q, NEW m, Queue(q), GuestMessage(m)
  PROVE  Queue(Append(q, m))
<1>1. /\ Append(q, m) \in Seq(Range(Append(q, m)))
      /\ Append(q, m)[Len(q) + 1] = m
      /\ DOMAIN Append(q, m) = DOMAIN q \cup {Len(q) + 1}
      /\ \A i \in DOMAIN q : Append(q, m)[i] = q[i]
  BY AppendRange DEF Queue
<1>2. QED
  BY <1>1 DEF Queue

LEMMA ConcatMessages ==
  ASSUME NEW q, q \in Seq(Range(q)), NEW a, NEW b
  PROVE  /\ q \o <<>> = q
         /\ q \o <<a>> = Append(q, a)
         /\ q \o <<a, b>> = Append(Append(q, a), b)
<1>. DEFINE S == Range(q) \cup {a, b}
<1>1. q \in Seq(S) /\ a \in S /\ b \in S
  BY SeqMonotonic
<1>2. q \o <<>> = q
  BY <1>1, ConcatEmptySeq
<1>3. q \o <<a>> = Append(q, a)
  BY <1>1, AppendIsConcat
<1>4. /\ Append(q, a) \in Seq(S)
      /\ Append(Append(q, a), b) = Append(q, a) \o <<b>>
      /\ Append(<<a>>, b) = <<a>> \o <<b>>
      /\ <<a>> \in Seq(S) /\ <<b>> \in Seq(S)
  BY <1>1, AppendIsConcat, AppendProperties
<1>5. (q \o <<a>>) \o <<b>> = q \o (<<a>> \o <<b>>)
  BY <1>1, <1>4, ConcatAssociative
<1>6. <<a>> \o <<b>> = <<a, b>>
  <2>1. <<a>> \in Seq(S) /\ <<b>> \in Seq(S) /\ <<a, b>> \in Seq(S)
        /\ Len(<<a>>) = 1 /\ Len(<<b>>) = 1 /\ Len(<<a, b>>) = 2
    BY <1>4
  <2>2. /\ <<a>> \o <<b>> \in Seq(S) /\ Len(<<a>> \o <<b>>) = 2
        /\ (<<a>> \o <<b>>)[1] = a /\ (<<a>> \o <<b>>)[2] = b
    BY <2>1, ConcatProperties
  <2>3. \A i \in 1..2 : i = 1 \/ i = 2
    OBVIOUS
  <2>4. \A i \in 1..2 : (<<a>> \o <<b>>)[i] = <<a, b>>[i]
    BY <2>2, <2>3
  <2>5. QED
    BY <2>1, <2>2, <2>4, SeqEqual
<1>7. QED
  BY <1>2, <1>3, <1>4, <1>5, <1>6

LEMMA TailPlaces ==
  ASSUME NEW q, q \in Seq(Range(q)), q # <<>>
  PROVE  /\ Tail(q) \in Seq(Range(Tail(q))) /\ Len(Tail(q)) = Len(q) - 1
         /\ Head(q) = q[1]
         /\ \A i \in 1..Len(q) - 1 : Tail(q)[i] = q[i + 1]
<1>1. /\ Head(q) \in Range(q) /\ Tail(q) \in Seq(Range(q))
      /\ Len(Tail(q)) = Len(q) - 1
      /\ \A i \in 1..Len(Tail(q)) : Tail(q)[i] = q[i + 1]
  BY HeadTailProperties
<1>2. Head(q) = q[1]
  BY DEF Head
<1>3. QED
  BY <1>1, <1>2, TailRange

LEMMA TailQueue ==
  ASSUME NEW q, Queue(q), q # <<>>
  PROVE  Queue(Tail(q)) /\ GuestMessage(Head(q))
<1>1. /\ Tail(q) \in Seq(Range(Tail(q))) /\ Len(Tail(q)) = Len(q) - 1
      /\ Head(q) = q[1]
      /\ \A i \in 1..Len(q) - 1 : Tail(q)[i] = q[i + 1]
  BY TailPlaces DEF Queue
<1>2. Len(q) \in Nat \ {0} /\ DOMAIN q = 1..Len(q) /\ DOMAIN Tail(q) = 1..Len(Tail(q))
  BY <1>1, QueueDomain DEF Queue
<1>3. ASSUME NEW i \in DOMAIN Tail(q)
      PROVE  GuestMessage(Tail(q)[i])
  <2>1. Tail(q)[i] = q[i + 1] /\ i + 1 \in DOMAIN q
    BY <1>1, <1>2, <1>3
  <2>2. QED
    BY <2>1 DEF Queue
<1>4. QED
  BY <1>1, <1>2, <1>3 DEF Queue

-----------------------------------------------------------------------------
(* What a queue makes of a view.                                           *)

LEMMA ShowsBeforeKept ==
  ASSUME NEW q, NEW m, q \in Seq(Range(q)), NEW v, NEW i \in 1..Len(q) + 1, NEW x,
         ShowsBefore(q, v, i, x)
  PROVE  ShowsBefore(Append(q, m), v, i, x)
<1>1. Len(q) \in Nat /\ DOMAIN q = 1..Len(q)
  BY QueueDomain
<1>2. \A j \in 1..i-1 : Append(q, m)[j] = q[j]
  BY <1>1, AppendRange
<1>3. QED
  BY <1>2 DEF ShowsBefore

LEMMA ShowsBeforeEnd ==
  ASSUME NEW q, NEW m, q \in Seq(Range(q)), NEW v, NEW x,
         \/ Shows(m) /\ m.view = x
         \/ ~Shows(m) /\ ShowsBefore(q, v, Len(q) + 1, x)
  PROVE  ShowsBefore(Append(q, m), v, Len(Append(q, m)) + 1, x)
<1>. DEFINE t == Append(q, m)
<1>1. Len(q) \in Nat /\ DOMAIN q = 1..Len(q)
  BY QueueDomain
<1>2. /\ \A j \in 1..Len(q) : t[j] = q[j]
      /\ t[Len(q) + 1] = m /\ Len(t) = Len(q) + 1
  BY <1>1, AppendRange
<1>3. CASE Shows(m) /\ m.view = x
  <2>1. Len(q) + 1 \in 1..Len(t) + 1 - 1
    BY <1>1, <1>2
  <2>2. \A k \in 1..Len(t) + 1 - 1 : ~(k > Len(q) + 1)
    BY <1>1, <1>2
  <2>3. QED
    BY <1>2, <1>3, <2>1, <2>2 DEF ShowsBefore
<1>4. CASE ~Shows(m) /\ ShowsBefore(q, v, Len(q) + 1, x)
  <2>1. \A k \in 1..Len(t) + 1 - 1 : k \in 1..Len(q) + 1 - 1 \/ k = Len(q) + 1
    BY <1>1, <1>2
  <2>2. \A k \in 1..Len(q) + 1 - 1 : k \in 1..Len(t) + 1 - 1 /\ t[k] = q[k]
    BY <1>1, <1>2
  <2>3. QED
    BY <1>2, <1>4, <2>1, <2>2 DEF ShowsBefore
<1>5. QED
  BY <1>3, <1>4

LEMMA ShowsBeforeTail ==
  ASSUME NEW q, q \in Seq(Range(q)), q # <<>>, NEW v, NEW i \in 1..Len(q), NEW x,
         ShowsBefore(q, v, i + 1, x)
  PROVE  ShowsBefore(Tail(q), IF Shows(q[1]) THEN q[1].view ELSE v, i, x)
<1>. DEFINE t == Tail(q)
<1>1. Len(q) \in Nat \ {0} /\ i \in Nat \ {0} /\ i <= Len(q) /\ (i + 1) - 1 = i
  BY QueueDomain
<1>2. \A j \in 1..i-1 : t[j] = q[j + 1] /\ j + 1 \in 1..i
  BY <1>1, TailPlaces
<1>3. \A k \in 1..i : k = 1 \/ (k - 1 \in 1..i-1 /\ t[k - 1] = q[k])
  BY <1>1, <1>2
<1>4. CASE x = v /\ \A j \in 1..i : ~Shows(q[j])
  <2>1. 1 \in 1..i
    BY <1>1
  <2>2. QED
    BY <1>2, <1>4, <2>1 DEF ShowsBefore
<1>5. ASSUME NEW j \in 1..i, Shows(q[j]), q[j].view = x,
             \A k \in 1..i : k > j => ~Shows(q[k])
      PROVE  ShowsBefore(t, IF Shows(q[1]) THEN q[1].view ELSE v, i, x)
  <2>1. \A k \in 1..i-1 : k + 1 > j => ~Shows(t[k])
    BY <1>2, <1>5
  <2>2. CASE j = 1
    <3>1. \A k \in 1..i-1 : k + 1 > j
      BY <2>2
    <3>2. QED
      BY <1>5, <2>1, <2>2, <3>1 DEF ShowsBefore
  <2>3. CASE j # 1
    <3>1. j - 1 \in 1..i-1 /\ t[j - 1] = q[j]
      BY <1>3, <2>3
    <3>2. \A k \in 1..i-1 : k > j - 1 => k + 1 > j
      BY <1>1
    <3>3. QED
      BY <1>5, <2>1, <3>1, <3>2 DEF ShowsBefore
  <2>4. QED
    BY <2>2, <2>3
<1>6. QED
  BY <1>1, <1>4, <1>5 DEF ShowsBefore

-----------------------------------------------------------------------------
(* Beginnings of the game.                                                 *)

LEMMA BeginningSelf ==
  ASSUME NEW g \in Histories
  PROVE  Beginning(g, g)
<1>1. Len(g) \in Nat /\ SubSeq(g, 1, Len(g)) = g
  BY LenProperties, SubSeqFull DEF Histories
<1>2. QED
  BY <1>1 DEF Beginning

LEMMA BeginningGrows ==
  ASSUME NEW g \in Histories, NEW v \in Histories, NEW m \in Moves \cup {0},
         Beginning(v, g)
  PROVE  Beginning(v, Append(g, m))
<1>. DEFINE S == Moves \cup {0}
            h == Append(g, m)
            n == Len(v)
<1>1. /\ n \in Nat /\ Len(g) \in Nat /\ n <= Len(g)
      /\ v = SubSeq(g, 1, n)
  BY LenProperties DEF Beginning, Histories
<1>2. /\ h \in Seq(S) /\ Len(h) = Len(g) + 1
      /\ \A i \in 1..Len(g) : h[i] = g[i]
  BY AppendProperties DEF Histories
<1>3. \A j \in 1..n : g[j] \in S /\ h[j] = g[j]
  BY <1>1, <1>2, ElementOfSeq DEF Histories
<1>4. /\ SubSeq(g, 1, n) \in Seq(S) /\ Len(SubSeq(g, 1, n)) = n
      /\ \A j \in 1..n : SubSeq(g, 1, n)[j] = g[j]
  BY <1>1, <1>3, SubSeqProperties
<1>5. /\ SubSeq(h, 1, n) \in Seq(S) /\ Len(SubSeq(h, 1, n)) = n
      /\ \A j \in 1..n : SubSeq(h, 1, n)[j] = h[j]
  BY <1>1, <1>3, SubSeqProperties
<1>6. SubSeq(h, 1, n) = SubSeq(g, 1, n)
  BY <1>3, <1>4, <1>5, SeqEqual
<1>7. QED
  BY <1>1, <1>2, <1>6 DEF Beginning

-----------------------------------------------------------------------------
(* A queue goes on following the game as it grows and as messages are sent *)
(* and taken in.                                                           *)

Client(c) == c \in [id : Identity, resume : Identity, view : Histories, playing : BOOLEAN]

LEMMA MessageViews ==
  ASSUME NEW m, GuestMessage(m)
  PROVE  /\ Shows(m) => m.view \in Histories
         /\ Names(m) => m.id \in Identity
         /\ m.type = "view" => Shows(m) /\ ~Names(m)
         /\ m.type = "rejected" => ~Shows(m) /\ ~Names(m)
         /\ m.type = "synced" => Shows(m) /\ ~Names(m)
         /\ m.type = "accept" => Names(m) /\ ~Shows(m)
         /\ m.type = "start" => Names(m) /\ Shows(m)
BY DEF GuestMessage, Shows, Names

\* Another message m, which shows the game if it was not yet shown.
LEMMA FollowsTold ==
  ASSUME NEW q, NEW c, NEW g, NEW id, NEW present \in BOOLEAN, NEW later \in BOOLEAN,
         Queue(q), Follows(q, c, g, id, present),
         NEW m, GuestMessage(m),
         Names(m) => m.id = id,
         Shows(m) => Beginning(m.view, g),
         m.type = "view" /\ m.prev # <<>> => ShowsBefore(q, c.view, Len(q) + 1, m.prev),
         m.type = "rejected" => c.playing,
         q = <<>> => Names(m) \/ c.id = id,
         later /\ g # <<>> => (Shows(m) /\ m.view = g) \/ (~Shows(m) /\ present)
  PROVE  Follows(Append(q, m), c, g, id, later)
<1>. DEFINE t == Append(q, m)
<1>1. /\ q \in Seq(Range(q)) /\ Len(q) \in Nat /\ DOMAIN q = 1..Len(q)
      /\ t[Len(q) + 1] = m /\ DOMAIN t = DOMAIN q \cup {Len(q) + 1}
      /\ \A i \in DOMAIN q : t[i] = q[i]
  BY QueueDomain, AppendRange DEF Queue
<1>2. t # <<>> /\ t \in Seq(Range(t)) /\ Len(t) = Len(q) + 1
  BY <1>1, AppendRange, QueueDomain
<1>3. c.id = id \/ (t # <<>> /\ Names(t[1]))
  <2>1. CASE q = <<>>
    BY <1>1, <1>2, <2>1, QueueDomain
  <2>2. CASE q # <<>>
    <3>1. t[1] = q[1]
      BY <1>1, <2>2, QueueDomain
    <3>2. QED
      BY <1>2, <2>2, <3>1 DEF Follows
  <2>3. QED
    BY <2>1, <2>2
<1>4. ASSUME NEW i \in DOMAIN t
      PROVE  /\ Names(t[i]) => t[i].id = id
             /\ Shows(t[i]) => Beginning(t[i].view, g)
             /\ t[i].type = "view" /\ t[i].prev # <<>> =>
                  ShowsBefore(t, c.view, i, t[i].prev)
             /\ t[i].type = "rejected" => c.playing
  <2>1. CASE i = Len(q) + 1
    <3>1. t[i] = m /\ i \in 1..Len(q) + 1
      BY <1>1, <2>1
    <3>2. QED
      BY <1>1, <2>1, <3>1, ShowsBeforeKept
  <2>2. CASE i \in DOMAIN q
    <3>1. t[i] = q[i] /\ i \in 1..Len(q) + 1
      BY <1>1, <2>2
    <3>2. QED
      BY <1>1, <2>2, <3>1, ShowsBeforeKept DEF Follows
  <2>3. QED
    BY <1>1, <1>4, <2>1, <2>2
<1>5. ASSUME later, g # <<>>
      PROVE  /\ ShowsBefore(t, c.view, Len(t) + 1, g)
             /\ c.playing \/ \E i \in DOMAIN t : Shows(t[i])
  <2>1. CASE Shows(m) /\ m.view = g
    BY <1>1, <2>1, ShowsBeforeEnd
  <2>2. CASE ~Shows(m) /\ present
    <3>1. /\ ShowsBefore(q, c.view, Len(q) + 1, g)
          /\ c.playing \/ \E i \in DOMAIN q : Shows(q[i])
      BY <1>5, <2>2 DEF Follows
    <3>2. QED
      BY <1>1, <2>2, <3>1, ShowsBeforeEnd
  <2>3. QED
    BY <1>5, <2>1, <2>2
<1>6. QED
  BY <1>3, <1>4, <1>5 DEF Follows

\* The game goes on unseen.
LEMMA FollowsUnseen ==
  ASSUME NEW q, NEW c, NEW g \in Histories, NEW id, NEW present,
         NEW m \in Moves \cup {0},
         Queue(q), Client(c), Follows(q, c, g, id, present)
  PROVE  Follows(q, c, Append(g, m), id, FALSE)
<1>1. \A i \in DOMAIN q : Shows(q[i]) => q[i].view \in Histories
  BY MessageViews DEF Queue
<1>2. c.view \in Histories
  BY DEF Client
<1>3. QED
  BY <1>1, <1>2, BeginningGrows DEF Follows

\* The next message is taken in.
LEMMA FollowsRead ==
  ASSUME NEW q, NEW c, NEW d, NEW g \in Histories, NEW id, NEW present,
         Queue(q), q # <<>>, Client(c), Follows(q, c, g, id, present),
         d.id = IF Names(q[1]) THEN q[1].id ELSE c.id,
         d.view = IF Shows(q[1]) THEN q[1].view ELSE c.view,
         d.playing <=> (c.playing \/ Shows(q[1]))
  PROVE  Follows(Tail(q), d, g, id, present)
<1>. DEFINE t == Tail(q)
<1>1. /\ q \in Seq(Range(q)) /\ Len(q) \in Nat \ {0} /\ DOMAIN q = 1..Len(q)
      /\ t \in Seq(Range(t)) /\ Len(t) = Len(q) - 1 /\ DOMAIN t = 1..Len(t)
      /\ \A i \in 1..Len(q) - 1 : t[i] = q[i + 1]
  BY QueueDomain, TailPlaces DEF Queue
<1>2. 1 \in DOMAIN q
  BY <1>1
<1>3. d.id = id
  BY <1>2 DEF Follows
<1>4. d.playing => Beginning(d.view, g)
  BY <1>2 DEF Follows
<1>5. ASSUME NEW i \in DOMAIN t
      PROVE  /\ Names(t[i]) => t[i].id = id
             /\ Shows(t[i]) => Beginning(t[i].view, g)
             /\ t[i].type = "view" /\ t[i].prev # <<>> =>
                  ShowsBefore(t, d.view, i, t[i].prev)
             /\ t[i].type = "rejected" => d.playing
  <2>1. t[i] = q[i + 1] /\ i + 1 \in DOMAIN q /\ i \in 1..Len(q)
    BY <1>1, <1>5
  <2>2. QED
    BY <1>1, <2>1, ShowsBeforeTail DEF Follows
<1>6. ASSUME present, g # <<>>
      PROVE  /\ ShowsBefore(t, d.view, Len(t) + 1, g)
             /\ d.playing \/ \E i \in DOMAIN t : Shows(t[i])
  <2>1. ShowsBefore(q, c.view, Len(q) + 1, g)
    BY <1>6 DEF Follows
  <2>2. ShowsBefore(t, d.view, Len(q), g)
    BY <1>1, <2>1, ShowsBeforeTail
  <2>3. Len(t) + 1 = Len(q)
    BY <1>1
  <2>4. ASSUME ~d.playing
        PROVE  \E i \in DOMAIN t : Shows(t[i])
    <3>1. PICK i \in DOMAIN q : Shows(q[i])
      BY <1>6, <2>4 DEF Follows
    <3>2. i # 1
      BY <2>4, <3>1
    <3>3. i - 1 \in DOMAIN t /\ i = (i - 1) + 1
      BY <1>1, <3>1, <3>2
    <3>4. t[i - 1] = q[i]
      BY <1>1, <3>3
    <3>5. QED
      BY <3>1, <3>3, <3>4
  <2>5. QED
    BY <2>2, <2>3, <2>4
<1>7. QED
  BY <1>3, <1>4, <1>5, <1>6 DEF Follows

\* A view that is read continues the one before it.
LEMMA NextFits ==
  ASSUME NEW q, NEW c, NEW g, NEW id, NEW present, Queue(q), q # <<>>,
         Follows(q, c, g, id, present), q[1].type = "view", q[1].prev # <<>>
  PROVE  q[1].prev = c.view
<1>1. 1 \in DOMAIN q
  BY QueueDomain DEF Queue
<1>2. ShowsBefore(q, c.view, 1, q[1].prev)
  BY <1>1 DEF Follows
<1>3. QED
  BY <1>2 DEF ShowsBefore

-----------------------------------------------------------------------------
(* The host's tables.                                                      *)

\* The tokens that NewToken avoids are few.
LEMMA AtMostNine ==
  ASSUME NEW a, NEW b, NEW c, NEW d, NEW e, NEW f, NEW g, NEW h, NEW i
  PROVE  /\ IsFiniteSet({a, b, c, d, e, f, g, h, i})
         /\ Cardinality({a, b, c, d, e, f, g, h, i}) <= 9
<1>. DEFINE F == <<a, b, c, d, e, f, g, h, i>>
            S == {a, b, c, d, e, f, g, h, i}
<1>1. F \in [1..9 -> S] /\ \A x \in S : \E k \in 1..9 : F[k] = x
  OBVIOUS
<1>2. F \in Surjection(1..9, S)
  BY <1>1 DEF Surjection
<1>3. QED
  BY <1>2, FS_NatSurjection, FS_SurjCardinalityBound DEF ExistsSurjection

LEMMA TokenLeft ==
  ASSUME TypeOK
  PROVE  NewToken \in Tokens
<1>. DEFINE held == {slot["p1"].token, slot["p2"].token, stored.token["p1"], stored.token["p2"],
                     local.now.token, local.kept.token, guest.id.token, guest.resume.token,
                     session.id.token}
<1>1. IsFiniteSet(held) /\ Cardinality(held) <= 9
  BY AtMostNine
<1>2. PICK t \in Tokens : t \notin held
  <2>1. SUFFICES ASSUME Tokens \subseteq held
                 PROVE  FALSE
    OBVIOUS
  <2>2. IsFiniteSet(Tokens) /\ Cardinality(Tokens) <= Cardinality(held)
    BY <1>1, <2>1, FS_Subset
  <2>3. Cardinality(Tokens) \in Nat /\ Cardinality(held) \in Nat
    BY <1>1, <2>2, FS_CardinalityType
  <2>4. QED
    BY <1>1, <2>2, <2>3, TokensAssumption
<1>3. /\ \A p \in DOMAIN slot : slot[p].token # t
      /\ \A p \in DOMAIN stored.token : stored.token[p] # t
  <2>1. DOMAIN slot \subseteq {"p1", "p2"} /\ DOMAIN stored.token \subseteq {"p1", "p2"}
    BY DEF TypeOK, PartialOn, Players
  <2>2. QED
    BY <1>2, <2>1
<1>4. t \notin {local.now.token, local.kept.token, guest.id.token,
                guest.resume.token, session.id.token}
  BY <1>2
<1>5. QED
  BY <1>3, <1>4 DEF NewToken

Slots == [peer : {"", "local", "guest"}, token : Tokens, connected : BOOLEAN]

Agree(s, ps) ==
  /\ \A q \in DOMAIN ps : ps[q] \in DOMAIN s /\ s[ps[q]].peer = q
  /\ \A p \in DOMAIN s : s[p].peer # "" =>
       s[p].peer \in DOMAIN ps /\ ps[s[p].peer] = p

Tables(s, ps) ==
  /\ PartialOn(s, Players, Slots)
  /\ PartialOn(ps, {"local", "guest"}, Players)
  /\ Agree(s, ps)

Host(s, ps, r) == [slot |-> s, peers |-> ps, ready |-> r]

\* h, after peer q has taken a seat of the host with tables s and ps
Seats(h, q, s, ps) ==
  /\ h = Host(h.slot, h.peers, h.ready)
  /\ Tables(h.slot, h.peers) /\ h.ready \subseteq Players
  /\ DOMAIN s \subseteq DOMAIN h.slot
  /\ \A p \in DOMAIN s : h.slot[p].token = s[p].token
  /\ q \notin DOMAIN ps /\ q \in DOMAIN h.peers
  /\ h.slot[h.peers[q]].connected
  /\ \A x \in {"local", "guest"} : x # q /\ x \notin DOMAIN ps => x \notin DOMAIN h.peers

LEMMA BindPeerSeats ==
  ASSUME NEW s, NEW ps, NEW r, r \subseteq Players, Tables(s, ps),
         NEW q \in {"local", "guest"}, q \notin DOMAIN ps, NEW p \in DOMAIN s
  PROVE  /\ Seats(BindPeer(Host(s, ps, r), p, q), q, s, ps)
         /\ DOMAIN BindPeer(Host(s, ps, r), p, q).slot = DOMAIN s
<1>. DEFINE s2 == [s EXCEPT ![p] = [peer |-> q, token |-> @.token, connected |-> TRUE]]
            rest == Restrict(ps, DOMAIN ps \ {s[p].peer})
            ps2 == Put(rest, q, p)
            h == BindPeer(Host(s, ps, r), p, q)
<1>1. h = Host(s2, ps2, r) /\ h.slot = s2 /\ h.peers = ps2 /\ h.ready = r
  BY DEF BindPeer, Host
<1>2. /\ DOMAIN s2 = DOMAIN s /\ p \in Players /\ DOMAIN s \subseteq Players
      /\ \A x \in DOMAIN s : s[x] \in Slots
  BY DEF Tables, PartialOn
<1>3. /\ \A x \in DOMAIN s : x # p => s2[x] = s[x]
      /\ s2[p] \in Slots /\ s2[p].peer = q /\ s2[p].connected = TRUE
      /\ s2[p].token = s[p].token
  BY <1>2 DEF Slots
<1>4. /\ DOMAIN ps2 = (DOMAIN ps \ {s[p].peer}) \cup {q}
      /\ ps2[q] = p
      /\ \A x \in DOMAIN ps \ {s[p].peer} : x # q => ps2[x] = ps[x]
  BY DEF Put, Restrict
<1>5. Agree(s, ps) /\ DOMAIN ps \subseteq {"local", "guest"} /\ \A x \in DOMAIN ps : ps[x] \in Players
  BY DEF Tables, PartialOn
<1>. HIDE DEF s2, ps2, h
<1>6. PartialOn(s2, Players, Slots)
  BY <1>2, <1>3 DEF PartialOn
<1>7. PartialOn(ps2, {"local", "guest"}, Players)
  BY <1>2, <1>4, <1>5 DEF PartialOn
<1>8. Agree(s2, ps2)
  <2>1. ASSUME NEW x \in DOMAIN ps2
        PROVE  ps2[x] \in DOMAIN s2 /\ s2[ps2[x]].peer = x
    <3>1. CASE x = q
      BY <1>2, <1>3, <1>4, <3>1
    <3>2. CASE x # q
      <4>1. x \in DOMAIN ps /\ ps2[x] = ps[x] /\ ps[x] \in DOMAIN s /\ s[ps[x]].peer = x
        BY <1>4, <1>5, <2>1, <3>2 DEF Agree
      <4>2. ps[x] # p
        BY <1>4, <2>1, <3>2, <4>1
      <4>3. QED
        BY <1>2, <1>3, <4>1, <4>2
    <3>3. QED
      BY <3>1, <3>2
  <2>2. ASSUME NEW x \in DOMAIN s2, s2[x].peer # ""
        PROVE  s2[x].peer \in DOMAIN ps2 /\ ps2[s2[x].peer] = x
    <3>1. CASE x = p
      BY <1>3, <1>4, <3>1
    <3>2. CASE x # p
      <4>1. s[x].peer \in DOMAIN ps /\ ps[s[x].peer] = x /\ s2[x] = s[x]
        BY <1>2, <1>3, <1>5, <2>2, <3>2 DEF Agree
      <4>2. s[x].peer # s[p].peer
        BY <1>5, <3>2, <4>1, <2>2 DEF Agree
      <4>3. QED
        BY <1>4, <4>1, <4>2
    <3>3. QED
      BY <3>1, <3>2
  <2>3. QED
    BY <2>1, <2>2 DEF Agree
<1>9. Seats(h, q, s, ps)
  BY <1>1, <1>2, <1>3, <1>4, <1>6, <1>7, <1>8 DEF Seats, Tables
<1>10. QED
  BY <1>1, <1>2, <1>9 DEF h

\* Who asks to join is seated or leaves the host as it is.
LEMMA JoinedSeats ==
  ASSUME TypeOK, NEW s, NEW ps, NEW r, r \subseteq Players, Tables(s, ps),
         NEW q \in {"local", "guest"}, NEW id, NEW g
  PROVE  \/ Joined(Host(s, ps, r), q, id, g) = Host(s, ps, r)
         \/ Seats(Joined(Host(s, ps, r), q, id, g), q, s, ps)
<1>. DEFINE h == Host(s, ps, r)
            j == Joined(h, q, id, g)
            p == AllocatePlayerId(h, id.seat)
            free == [peer |-> "", token |-> NewToken, connected |-> FALSE]
            s1 == Put(s, p, free)
            h1 == Host(s1, ps, r \ {p})
<1>1. h.slot = s /\ h.peers = ps /\ h.ready = r
  BY DEF Host
<1>2. CASE q \in DOMAIN ps
  BY <1>1, <1>2 DEF Joined
<1>3. CASE q \notin DOMAIN ps /\ Resumes(h, id)
  <2>1. j = BindPeer(h, id.seat, q) /\ id.seat \in DOMAIN s
    BY <1>1, <1>3 DEF Joined, Resumes
  <2>2. QED
    BY <1>3, <2>1, BindPeerSeats
<1>4. CASE q \notin DOMAIN ps /\ ~Resumes(h, id) /\ (g # <<>> \/ FreeSeats(h) = {})
  BY <1>1, <1>4 DEF Joined
<1>5. CASE q \notin DOMAIN ps /\ ~Resumes(h, id) /\ ~(g # <<>> \/ FreeSeats(h) = {})
  <2>1. j = BindPeer(h1, p, q)
    BY <1>1, <1>5 DEF Joined, Host
  <2>3. p \in Players /\ p \notin DOMAIN s
    BY <1>1, <1>5 DEF AllocatePlayerId, FreeSeats, Players
  <2>4. /\ DOMAIN s1 = DOMAIN s \cup {p} /\ s1[p] = free
        /\ \A x \in DOMAIN s : s1[x] = s[x]
    BY <2>3 DEF Put
  <2>5. free \in Slots /\ free.peer = ""
    BY TokenLeft DEF Slots
  <2>. HIDE DEF s1, p, free, j, h1
  <2>6. Tables(s1, ps)
    <3>1. PartialOn(s1, Players, Slots)
      BY <2>3, <2>4, <2>5 DEF Tables, PartialOn
    <3>2. Agree(s1, ps)
      <4>1. \A q0 \in DOMAIN ps : ps[q0] \in DOMAIN s1 /\ s1[ps[q0]].peer = q0
        BY <2>4 DEF Tables, Agree
      <4>2. \A x \in DOMAIN s1 : s1[x].peer # "" => s1[x].peer \in DOMAIN ps /\ ps[s1[x].peer] = x
        BY <2>4, <2>5 DEF Tables, Agree
      <4>3. QED
        BY <4>1, <4>2 DEF Agree
    <3>3. QED
      BY <3>1, <3>2 DEF Tables
  <2>7. Seats(j, q, s1, ps)
    <3>1. p \in DOMAIN s1 /\ r \ {p} \subseteq Players
      BY <2>4
    <3>2. QED
      BY <1>5, <2>1, <2>6, <3>1, BindPeerSeats DEF h1
  <2>8. Seats(j, q, s, ps)
    BY <2>4, <2>7 DEF Seats
  <2>9. QED
    BY <2>8 DEF j
<1>6. QED
  BY <1>2, <1>3, <1>4, <1>5

-----------------------------------------------------------------------------
(* The parts of SessionInv.                                                *)

SnapshotOK(c) ==
  PartialOn(c.token, Players, Tokens) /\ c.ready \subseteq Players /\ c.game \in Histories

HostOK ==
  /\ Tables(slot, peers) /\ ready \subseteq Players /\ game \in Histories
  /\ SnapshotOK(stored)

PagesOK ==
  /\ local \in [now : Identity, kept : Identity]
  /\ Client(guest)
  /\ session \in [id : Identity, view : Histories]

Requested(q, c, ms) ==
  /\ q \in Seq(Range(q))
  /\ \A i \in DOMAIN q :
       /\ \/ q[i].type = "join" /\ q[i].id \in Identity
          \/ q[i].type \in {"ready", "unready", "sync"} /\ q[i].seat \in Players
          \/ q[i].type = "intent" /\ q[i].move \in DOMAIN ms
       /\ q[i].type = "intent" => c.playing

WiresOK ==
  /\ chan \in {"closed", "open", "dead"} /\ hostOnline \in BOOLEAN
  /\ Requested(toHost, guest, made) /\ Queue(toGuest)
  /\ chan # "open" => toHost = <<>> /\ toGuest = <<>>
  /\ chan = "closed" => "guest" \notin DOMAIN peers
  /\ made \in Seq([by : Players, saw : Histories])

AllOK == HostOK /\ PagesOK /\ WiresOK

LEMMA Parts == SessionInv <=> AllOK /\ GuestFollows /\ Remembered
<1>1. PeersAgree <=> Agree(slot, peers)
  BY DEF PeersAgree, Agree
<1>2. ASSUME Channels
      PROVE  /\ (\A i \in DOMAIN toHost : HostMessage(toHost[i])) <=> Requested(toHost, guest, made)
             /\ (\A i \in DOMAIN toGuest : GuestMessage(toGuest[i])) <=> Queue(toGuest)
  BY <1>2 DEF Channels, Requested, Queue, HostMessage
<1>3. ASSUME SessionInv
      PROVE  AllOK
  <2>1. HostOK
    BY <1>1, <1>3 DEF SessionInv, TypeOK, HostOK, SnapshotOK, Tables, Slots
  <2>2. PagesOK
    BY <1>3 DEF SessionInv, TypeOK, PagesOK, Client
  <2>3. WiresOK
    BY <1>2, <1>3 DEF SessionInv, TypeOK, WiresOK, Channels
  <2>4. QED
    BY <2>1, <2>2, <2>3 DEF AllOK
<1>4. ASSUME AllOK
      PROVE  TypeOK /\ PeersAgree /\ Channels
  <2>1. Channels
    BY <1>4 DEF AllOK, WiresOK, Channels, Requested, Queue
  <2>2. PeersAgree
    BY <1>1, <1>4 DEF AllOK, HostOK, Tables
  <2>3. TypeOK
    BY <1>2, <1>4, <2>1 DEF AllOK, HostOK, SnapshotOK, Tables, Slots, PagesOK, Client, WiresOK, TypeOK
  <2>4. QED
    BY <2>1, <2>2, <2>3
<1>5. QED
  BY <1>3, <1>4 DEF SessionInv

LEMMA PartsNext == (AllOK /\ GuestFollows /\ Remembered)' => SessionInv'
BY Parts, PTL

-----------------------------------------------------------------------------
(* The host's part of a step.                                              *)

LEMMA SnapshotFields ==
  ASSUME NEW s, NEW ps, NEW r, NEW g
  PROVE  /\ Snapshot(Host(s, ps, r), g) = Snapshot([slot |-> s, ready |-> r], g)
         /\ Snapshot([slot |-> s, ready |-> r], g).token = [p \in DOMAIN s |-> s[p].token]
         /\ Snapshot([slot |-> s, ready |-> r], g).ready = r
         /\ Snapshot([slot |-> s, ready |-> r], g).game = g
BY DEF Snapshot, Host

LEMMA SnapshotTaken ==
  ASSUME NEW s, NEW ps, NEW r, NEW g \in Histories, Tables(s, ps), r \subseteq Players
  PROVE  SnapshotOK(Snapshot([slot |-> s, ready |-> r], g))
<1>1. PartialOn([p \in DOMAIN s |-> s[p].token], Players, Tokens)
  BY DEF Tables, PartialOn, Slots
<1>2. QED
  BY <1>1, SnapshotFields DEF SnapshotOK

\* The seats that were taken are still taken with the same tokens.
KeepsSeats ==
  /\ DOMAIN slot \subseteq DOMAIN slot'
  /\ \A p \in DOMAIN slot : slot'[p].token = slot[p].token

LEMMA KnownKept ==
  ASSUME KeepsSeats, NEW id, Known(id)
  PROVE  id = Stranger \/ (id.seat \in DOMAIN slot' /\ slot'[id.seat].token = id.token)
BY DEF KeepsSeats, Known

\* What is saved is what there is.
SavesHost ==
  ~SavesFail => stored' = Snapshot([slot |-> slot', ready |-> ready'], game')

LEMMA HostStep ==
  ASSUME HostOK, Tables(slot', peers'), ready' \subseteq Players, game' \in Histories,
         EmitSnapshotChanged
  PROVE  HostOK' /\ SavesHost
<1>1. \/ stored' = stored
      \/ stored' = Snapshot([slot |-> slot', ready |-> ready'], game')
  BY DEF EmitSnapshotChanged, Saved
<1>2. SnapshotOK(stored')
  BY <1>1, SnapshotTaken DEF HostOK
<1>3. SavesHost
  BY DEF SavesHost, EmitSnapshotChanged, Saved
<1>4. QED
  BY <1>2, <1>3 DEF HostOK

LEMMA HostRests ==
  ASSUME HostOK, Remembered, UNCHANGED hostVars
  PROVE  HostOK' /\ SavesHost /\ KeepsSeats
<1>1. UNCHANGED <<slot, peers, ready, game, stored>>
  BY DEF hostVars
<1>2. HostOK'
  BY <1>1 DEF HostOK
<1>3. SavesHost
  BY <1>1 DEF SavesHost, Remembered
<1>4. QED
  BY <1>1, <1>2, <1>3 DEF KeepsSeats

LEMMA RememberedStep ==
  ASSUME Remembered, SavesHost,
         ~SavesFail => /\ KeepsSeats
                       /\ Known(local.kept)' \/ local'.kept = local.kept
                       /\ Known(session.id)' \/ session'.id \in {session.id, guest.id}
                       /\ Known(guest.id)' \/ guest'.id \in {session.id, guest.id}
  PROVE  Remembered'
<1>1. ASSUME ~SavesFail, NEW id, Known(id)
      PROVE  id = Stranger \/ (id.seat \in DOMAIN slot' /\ slot'[id.seat].token = id.token)
  BY <1>1, KnownKept
<1>2. ASSUME ~SavesFail
      PROVE  Known(local.kept) /\ Known(session.id) /\ Known(guest.id)
  BY <1>2 DEF Remembered
<1>3. ASSUME ~SavesFail
      PROVE  Known(local.kept)' /\ Known(session.id)' /\ Known(guest.id)'
  BY <1>1, <1>2, <1>3 DEF Known
<1>4. QED
  BY <1>3 DEF Remembered, SavesHost

LEMMA LobbyReadyHost ==
  ASSUME HostOK, Remembered, NEW q, NEW seat \in Players, NEW isReady, LobbyReady(q, seat, isReady)
  PROVE  HostOK' /\ SavesHost /\ KeepsSeats
<1>1. UNCHANGED <<slot, peers, game>>
  BY DEF LobbyReady
<1>2. CASE UNCHANGED <<ready, stored>>
  BY <1>1, <1>2, HostRests DEF hostVars
<1>3. CASE ~UNCHANGED <<ready, stored>>
  <2>1. EmitSnapshotChanged /\ ready' \subseteq ready \cup {seat}
    BY <1>3 DEF LobbyReady
  <2>2. HostOK' /\ SavesHost
    BY <1>1, <2>1, HostStep DEF HostOK
  <2>3. QED
    BY <1>1, <2>2 DEF KeepsSeats
<1>4. QED
  BY <1>2, <1>3

LEMMA PresenceHost ==
  ASSUME HostOK, Remembered, NEW online \in BOOLEAN, Presence(online)
  PROVE  /\ HostOK' /\ SavesHost /\ KeepsSeats
         /\ UNCHANGED <<peers, game>>
         /\ "guest" \in DOMAIN peers =>
              /\ slot'[peers["guest"]].connected = online
              /\ slot'[peers["guest"]].token = slot[peers["guest"]].token
<1>1. CASE "guest" \notin DOMAIN peers
  <2>1. UNCHANGED hostVars
    BY <1>1 DEF Presence
  <2>2. QED
    BY <1>1, <2>1, HostRests DEF hostVars
<1>2. CASE "guest" \in DOMAIN peers
  <2>. DEFINE p == peers["guest"]
  <2>1. /\ slot' = [slot EXCEPT ![p].connected = online]
        /\ UNCHANGED <<peers, ready, game>> /\ EmitSnapshotChanged
    BY <1>2 DEF Presence
  <2>2. /\ Agree(slot, peers) /\ p \in DOMAIN slot
        /\ DOMAIN slot \subseteq Players /\ \A x \in DOMAIN slot : slot[x] \in Slots
    BY <1>2 DEF HostOK, Tables, Agree, PartialOn
  <2>3. /\ DOMAIN slot' = DOMAIN slot
        /\ \A x \in DOMAIN slot : x # p => slot'[x] = slot[x]
        /\ slot'[p] \in Slots /\ slot'[p].peer = slot[p].peer
        /\ slot'[p].token = slot[p].token /\ slot'[p].connected = online
    BY <2>1, <2>2 DEF Slots
  <2>. HIDE DEF p
  <2>4. \A x \in DOMAIN slot : /\ slot'[x] \in Slots /\ slot'[x].peer = slot[x].peer
                               /\ slot'[x].token = slot[x].token
    BY <2>2, <2>3
  <2>5. Tables(slot', peers')
    <3>1. PartialOn(slot', Players, Slots)
      BY <2>2, <2>3, <2>4 DEF PartialOn
    <3>2. Agree(slot', peers)
      BY <2>2, <2>3, <2>4 DEF Agree
    <3>3. QED
      BY <2>1, <3>1, <3>2 DEF HostOK, Tables
  <2>6. HostOK' /\ SavesHost
    BY <2>1, <2>5, HostStep DEF HostOK
  <2>7. QED
    BY <2>1, <2>3, <2>4, <2>6 DEF KeepsSeats, p
<1>3. QED
  BY <1>1, <1>2

LEMMA GrowHost ==
  ASSUME HostOK, NEW move \in Moves \cup {0}, game' = Append(game, move),
         UNCHANGED <<slot, peers, ready>>, EmitSnapshotChanged
  PROVE  HostOK' /\ SavesHost /\ KeepsSeats
<1>1. game' \in Histories
  BY AppendProperties DEF HostOK, Histories
<1>2. HostOK' /\ SavesHost
  BY <1>1, HostStep DEF HostOK
<1>3. QED
  BY <1>2 DEF KeepsSeats

LEMMA JoinRequestHost ==
  ASSUME TypeOK, HostOK, Remembered, NEW m, HandleJoinRequest(m)
  PROVE  /\ HostOK' /\ SavesHost /\ KeepsSeats /\ game' = game
         /\ \/ UNCHANGED hostVars
            \/ /\ "guest" \notin DOMAIN peers /\ "guest" \in DOMAIN peers'
               /\ peers'["guest"] \in DOMAIN slot'
<1>. DEFINE h == Joined([slot |-> slot, peers |-> peers, ready |-> ready], "guest", m.id, game)
<1>1. /\ slot' = h.slot /\ peers' = h.peers /\ ready' = h.ready /\ game' = game
      /\ IF peers' = peers THEN UNCHANGED stored ELSE EmitSnapshotChanged
  BY DEF HandleJoinRequest
<1>2. h = Host(slot, peers, ready) \/ Seats(h, "guest", slot, peers)
  BY JoinedSeats DEF HostOK, Host
<1>. HIDE DEF h
<1>3. CASE h = Host(slot, peers, ready)
  <2>1. UNCHANGED hostVars
    BY <1>1, <1>3 DEF Host, hostVars
  <2>2. QED
    BY <1>1, <2>1, HostRests
<1>4. CASE Seats(h, "guest", slot, peers)
  <2>1. /\ Tables(slot', peers') /\ ready' \subseteq Players /\ KeepsSeats
        /\ "guest" \notin DOMAIN peers /\ "guest" \in DOMAIN peers'
    BY <1>1, <1>4 DEF Seats, KeepsSeats
  <2>2. peers'["guest"] \in DOMAIN slot'
    BY <2>1 DEF Tables, Agree
  <2>3. HostOK' /\ SavesHost
    <3>1. EmitSnapshotChanged
      BY <1>1, <2>1
    <3>2. QED
      BY <1>1, <2>1, <3>1, HostStep DEF HostOK
  <2>4. QED
    BY <1>1, <2>1, <2>2, <2>3
<1>5. QED
  BY <1>2, <1>3, <1>4

\* The page restored from the snapshot, with the host's player back in it
LEMMA HostRestartHost ==
  ASSUME TypeOK, HostOK, PagesOK, Remembered, NEW remembered \in BOOLEAN, HostRestart(remembered)
  PROVE  /\ HostOK' /\ SavesHost /\ (~SavesFail => KeepsSeats)
         /\ "guest" \notin DOMAIN peers'
         /\ local' \in [now : Identity, kept : Identity]
         /\ ~SavesFail => Known(local.kept)' \/ local'.kept = local.kept
<1>. DEFINE s == [p \in DOMAIN stored.token |->
                    [peer |-> "", token |-> stored.token[p], connected |-> FALSE]]
            id == IF remembered THEN local.kept ELSE Stranger
            asked == IF remembered THEN local.kept ELSE [Stranger EXCEPT !.seat = "p1"]
            before == [slot |-> s, peers |-> <<>>, ready |-> stored.ready]
            h == Joined(before, "local", asked, stored.game)
            now == IF "local" \in DOMAIN h.peers THEN Welcome(h, "local") ELSE id
<1>1. OpenHost(before, id, asked, stored.game)
  BY DEF HostRestart
<1>2. /\ slot' = h.slot /\ peers' = h.peers /\ ready' = h.ready /\ game' = stored.game
      /\ stored' \in IF "local" \in DOMAIN h.peers
                     THEN Saved(stored, Snapshot(h, stored.game)) ELSE {stored}
      /\ \E kept \in IF "local" \in DOMAIN h.peers THEN Saved(local.kept, now) ELSE {local.kept} :
            local' = [now |-> now, kept |-> kept]
  BY <1>1 DEF OpenHost
<1>3. SnapshotOK(stored) /\ stored.game \in Histories /\ stored.ready \subseteq Players
  BY DEF HostOK, SnapshotOK
<1>4. Tables(s, <<>>) /\ DOMAIN <<>> = {}
  <2>0. DOMAIN <<>> = {} /\ \A p \in DOMAIN s : s[p].peer = ""
    <3>1. DOMAIN <<>> = {}
      BY EmptyRange, QueueDomain
    <3>2. QED
      BY <3>1
  <2>1. PartialOn(s, Players, Slots)
    BY <1>3 DEF SnapshotOK, PartialOn, Slots
  <2>2. PartialOn(<<>>, {"local", "guest"}, Players)
    BY DEF PartialOn
  <2>. HIDE DEF s
  <2>3. Agree(s, <<>>)
    BY <2>0 DEF Agree
  <2>4. QED
    BY <2>0, <2>1, <2>2, <2>3 DEF Tables
<1>5. h = Host(s, <<>>, stored.ready) \/ Seats(h, "local", s, <<>>)
  BY <1>3, <1>4, JoinedSeats DEF Host
<1>6. /\ DOMAIN s = DOMAIN stored.token
      /\ \A p \in DOMAIN s : s[p].token = stored.token[p]
  OBVIOUS
<1>7. ASSUME ~SavesFail
      PROVE  /\ stored = Snapshot([slot |-> s, ready |-> stored.ready], stored.game)
             /\ DOMAIN slot = DOMAIN s /\ \A p \in DOMAIN s : s[p].token = slot[p].token
  <2>1. stored = Snapshot([slot |-> slot, ready |-> ready], game)
    BY <1>7 DEF Remembered
  <2>2. /\ stored.token = [p \in DOMAIN slot |-> slot[p].token]
        /\ stored = [token |-> stored.token, ready |-> stored.ready, game |-> stored.game]
    BY <2>1 DEF Snapshot
  <2>3. [p \in DOMAIN s |-> s[p].token] = stored.token
    BY <1>6, <2>2
  <2>4. QED
    BY <1>6, <2>2, <2>3 DEF Snapshot
<1>8. id \in Identity /\ local.kept \in Identity
  BY DEF PagesOK, Identity, Stranger
<1>. HIDE DEF h, s, id
<1>9. CASE h = Host(s, <<>>, stored.ready)
  <2>1. h.slot = s /\ h.peers = <<>> /\ h.ready = stored.ready
    BY <1>9 DEF Host
  <2>2. /\ slot' = s /\ peers' = <<>> /\ ready' = stored.ready /\ stored' = stored
        /\ local' = [now |-> id, kept |-> local.kept]
    BY <1>2, <1>4, <2>1
  <2>3. HostOK'
    BY <1>2, <1>3, <1>4, <2>2 DEF HostOK
  <2>4. SavesHost /\ (~SavesFail => KeepsSeats)
    BY <1>2, <1>7, <2>2 DEF SavesHost, KeepsSeats
  <2>5. QED
    BY <1>4, <1>8, <2>2, <2>3, <2>4
<1>10. CASE Seats(h, "local", s, <<>>)
  <2>1. /\ h = Host(h.slot, h.peers, h.ready)
        /\ Tables(h.slot, h.peers) /\ h.ready \subseteq Players
        /\ DOMAIN s \subseteq DOMAIN h.slot
        /\ \A p \in DOMAIN s : h.slot[p].token = s[p].token
        /\ "local" \in DOMAIN h.peers /\ "guest" \notin DOMAIN h.peers
    BY <1>4, <1>10 DEF Seats
  <2>2. Snapshot(h, stored.game) = Snapshot([slot |-> h.slot, ready |-> h.ready], stored.game)
    BY DEF Snapshot
  <2>3. /\ stored' \in {stored, Snapshot([slot |-> slot', ready |-> ready'], game')}
        /\ ~SavesFail => stored' = Snapshot([slot |-> slot', ready |-> ready'], game')
    BY <1>2, <2>1, <2>2 DEF Saved
  <2>4. SnapshotOK(stored')
    BY <1>2, <1>3, <2>1, <2>3, SnapshotTaken
  <2>5. HostOK' /\ SavesHost
    BY <1>2, <1>3, <2>1, <2>3, <2>4 DEF HostOK, SavesHost
  <2>6. ~SavesFail => KeepsSeats
    BY <1>2, <1>7, <2>1 DEF KeepsSeats
  <2>7. PICK kept \in Saved(local.kept, now) : local' = [now |-> now, kept |-> kept]
    BY <1>2, <2>1
  <2>8. /\ now = [seat |-> h.peers["local"], token |-> h.slot[h.peers["local"]].token]
        /\ h.peers["local"] \in DOMAIN h.slot /\ h.peers["local"] \in Players
        /\ h.slot[h.peers["local"]] \in Slots
    <3>1. now = Welcome(h, "local")
      BY <2>1
    <3>2. QED
      BY <2>1, <3>1 DEF Welcome, Tables, Agree, PartialOn
  <2>. HIDE DEF now
  <2>9. now \in Identity
    BY <2>8 DEF Identity, Slots
  <2>10. local' \in [now : Identity, kept : Identity]
    BY <1>8, <2>7, <2>9 DEF Saved
  <2>11. ~SavesFail => Known(local.kept)'
    BY <1>2, <2>7, <2>8 DEF Saved, Known
  <2>12. QED
    BY <1>2, <2>1, <2>5, <2>6, <2>10, <2>11
<1>11. QED
  BY <1>5, <1>9, <1>10

-----------------------------------------------------------------------------
(* The messages of the host.                                               *)

\* Before the start there is nothing to see; who is absent misses things.
LEMMA FollowsIdle ==
  ASSUME NEW q, NEW c, NEW g, NEW id, NEW present, NEW later,
         Follows(q, c, g, id, present), later => g = <<>> \/ present
  PROVE  Follows(q, c, g, id, later)
BY DEF Follows

LEMMA Pair ==
  ASSUME NEW a, NEW b
  PROVE  <<a>> \o <<>> = <<a>> /\ <<a>> \o <<b>> = <<a, b>>
<1>1. <<a>> = Append(<<>>, a) /\ <<a, b>> = Append(Append(<<>>, a), b)
  OBVIOUS
<1>2. Append(<<>>, a) \in Seq(Range(Append(<<>>, a)))
  BY EmptyRange, AppendRange
<1>3. Append(<<a>>, b) = <<a, b>> /\ <<a>> \in Seq(Range(<<a>>))
  BY <1>1, <1>2, Zenon
<1>4. QED
  BY <1>3, ConcatMessages, Zenon

SyncedOf(g) == IF g = <<>> THEN <<>> ELSE <<[type |-> "synced", view |-> g]>>

LEMMA TellsSynced ==
  ASSUME NEW q, NEW c, NEW g \in Histories, NEW id, NEW present \in BOOLEAN,
         NEW later \in BOOLEAN, Queue(q), Follows(q, c, g, id, present)
  PROVE  Queue(q \o SyncedOf(g)) /\ Follows(q \o SyncedOf(g), c, g, id, later)
<1>. DEFINE m == [type |-> "synced", view |-> g]
<1>1. q \in Seq(Range(q))
  BY DEF Queue
<1>2. CASE g = <<>>
  <2>1. q \o SyncedOf(g) = q
    BY <1>1, <1>2, ConcatMessages DEF SyncedOf
  <2>2. QED
    BY <1>2, <2>1, FollowsIdle
<1>3. CASE g # <<>>
  <2>1. q \o SyncedOf(g) = Append(q, m)
    BY <1>1, <1>3, ConcatMessages DEF SyncedOf
  <2>2. GuestMessage(m) /\ Shows(m) /\ ~Names(m) /\ m.view = g /\ m.type = "synced"
    BY DEF GuestMessage, Shows, Names
  <2>3. Beginning(g, g)
    BY BeginningSelf
  <2>4. q = <<>> => c.id = id
    BY DEF Follows
  <2>. HIDE DEF m
  <2>5. Follows(Append(q, m), c, g, id, later)
    BY <2>2, <2>3, <2>4, FollowsTold
  <2>6. QED
    BY <2>1, <2>2, <2>5, AppendQueue
<1>4. QED
  BY <1>2, <1>3

LEMMA TellsSeat ==
  ASSUME NEW q, NEW c, NEW g, NEW id \in Identity, NEW present \in BOOLEAN,
         Queue(q),
         \/ Follows(q, c, g, id, present)
         \/ q = <<>> /\ ~c.playing /\ present = FALSE
  PROVE  /\ Queue(Append(q, [type |-> "accept", id |-> id]))
         /\ Follows(Append(q, [type |-> "accept", id |-> id]), c, g, id, present)
<1>. DEFINE m == [type |-> "accept", id |-> id]
            t == Append(q, m)
<1>1. GuestMessage(m) /\ Names(m) /\ ~Shows(m) /\ m.id = id /\ m.type = "accept"
  BY DEF GuestMessage, Shows, Names
<1>. HIDE DEF m
<1>2. Queue(t)
  BY <1>1, AppendQueue
<1>3. CASE Follows(q, c, g, id, present)
  <2>1. Follows(Append(q, m), c, g, id, present)
    BY <1>1, <1>3, FollowsTold
  <2>2. QED
    BY <1>2, <2>1 DEF m
<1>4. CASE q = <<>> /\ ~c.playing /\ present = FALSE
  <2>1. /\ Len(q) = 0 /\ DOMAIN q = {}
    BY <1>4, EmptyRange, QueueDomain
  <2>2. DOMAIN t = {1} /\ t[1] = m /\ t # <<>>
    <3>1. /\ t[Len(q) + 1] = m /\ DOMAIN t = DOMAIN q \cup {Len(q) + 1}
      BY AppendRange DEF Queue
    <3>2. QED
      BY <1>2, <2>1, <3>1, QueueDomain DEF Queue
  <2>3. Follows(t, c, g, id, present)
    BY <1>1, <1>4, <2>2 DEF Follows
  <2>4. QED
    BY <1>2, <2>3 DEF m
<1>5. QED
  BY <1>3, <1>4

LEMMA TellsWelcome ==
  ASSUME NEW q, NEW c, NEW g \in Histories, NEW id \in Identity,
         NEW present \in BOOLEAN, NEW later \in BOOLEAN, Queue(q),
         \/ Follows(q, c, g, id, present) /\ (later => present)
         \/ q = <<>> /\ ~c.playing
  PROVE  /\ Queue(q \o (<<[type |-> "accept", id |-> id]>> \o SyncedOf(g)))
         /\ Follows(q \o (<<[type |-> "accept", id |-> id]>> \o SyncedOf(g)), c, g, id, later)
<1>. DEFINE m == [type |-> "accept", id |-> id]
            s == [type |-> "synced", view |-> g]
<1>1. q \o (<<m>> \o SyncedOf(g)) = Append(q, m) \o SyncedOf(g)
  <2>1. q \in Seq(Range(q)) /\ Append(q, m) \in Seq(Range(Append(q, m)))
    BY AppendRange DEF Queue
  <2>. HIDE DEF m, s
  <2>3. <<m>> \o <<>> = <<m>> /\ <<m>> \o <<s>> = <<m, s>>
    BY Pair
  <2>4. /\ q \o <<m>> = Append(q, m) /\ q \o <<m, s>> = Append(Append(q, m), s)
        /\ Append(q, m) \o <<>> = Append(q, m)
        /\ Append(q, m) \o <<s>> = Append(Append(q, m), s)
    BY <2>1, ConcatMessages
  <2>5. SyncedOf(g) = <<>> \/ SyncedOf(g) = <<s>>
    BY DEF SyncedOf, s
  <2>6. QED
    BY <2>3, <2>4, <2>5
<1>2. PICK here \in BOOLEAN :
        Queue(Append(q, m)) /\ Follows(Append(q, m), c, g, id, here)
  <2>1. CASE Follows(q, c, g, id, present)
    BY <2>1, TellsSeat
  <2>2. CASE q = <<>> /\ ~c.playing
    BY <2>2, TellsSeat
  <2>3. QED
    BY <2>1, <2>2
<1>. HIDE DEF m
<1>3. QED
  BY <1>1, <1>2, TellsSynced DEF m

\* A move reaches who counts as present.
LEMMA TellsMove ==
  ASSUME NEW q, NEW c, NEW g \in Histories, NEW id, NEW move \in Moves \cup {0},
         Queue(q), Client(c), Follows(q, c, g, id, TRUE), g # <<>>
  PROVE  LET m == [type |-> "view", view |-> Append(g, move), prev |-> g]
         IN  Queue(Append(q, m)) /\ Follows(Append(q, m), c, Append(g, move), id, TRUE)
<1>. DEFINE m == [type |-> "view", view |-> Append(g, move), prev |-> g]
<1>1. Append(g, move) \in Histories
  BY AppendProperties DEF Histories
<1>2. /\ GuestMessage(m) /\ Shows(m) /\ ~Names(m) /\ m.type = "view"
      /\ m.view = Append(g, move) /\ m.prev = g
  BY <1>1 DEF GuestMessage, Shows, Names
<1>3. ShowsBefore(q, c.view, Len(q) + 1, g) /\ (q = <<>> => c.id = id)
  BY DEF Follows
<1>4. Follows(q, c, Append(g, move), id, FALSE)
  BY FollowsUnseen
<1>5. Beginning(Append(g, move), Append(g, move))
  BY <1>1, BeginningSelf
<1>. HIDE DEF m
<1>6. Follows(Append(q, m), c, Append(g, move), id, TRUE)
  BY <1>2, <1>3, <1>4, <1>5, FollowsTold
<1>7. QED
  BY <1>2, <1>6, AppendQueue DEF m

LEMMA TellsStart ==
  ASSUME NEW q, NEW c, NEW id \in Identity, NEW present \in BOOLEAN, NEW later \in BOOLEAN,
         Queue(q), Client(c), Follows(q, c, <<>>, id, present)
  PROVE  LET start == <<[type |-> "start", id |-> id, view |-> <<0>>],
                        [type |-> "view", view |-> <<0>>, prev |-> <<>>]>>
         IN  Queue(q \o start) /\ Follows(q \o start, c, <<0>>, id, later)
<1>. DEFINE a == [type |-> "start", id |-> id, view |-> <<0>>]
            b == [type |-> "view", view |-> <<0>>, prev |-> <<>>]
<1>1. <<>> \in Histories /\ <<0>> \in Histories /\ Append(<<>>, 0) = <<0>>
  BY EmptySeq DEF Histories
<1>2. /\ GuestMessage(a) /\ Shows(a) /\ Names(a) /\ a.type = "start"
      /\ a.view = <<0>> /\ a.id = id
  BY <1>1 DEF GuestMessage, Shows, Names
<1>3. /\ GuestMessage(b) /\ Shows(b) /\ ~Names(b) /\ b.type = "view"
      /\ b.view = <<0>> /\ b.prev = <<>>
  BY <1>1 DEF GuestMessage, Shows, Names
<1>4. Follows(q, c, <<0>>, id, FALSE)
  BY <1>1, FollowsUnseen
<1>5. Beginning(<<0>>, <<0>>)
  BY <1>1, BeginningSelf
<1>. HIDE DEF a, b
<1>6. Queue(Append(q, a)) /\ Follows(Append(q, a), c, <<0>>, id, FALSE)
  BY <1>2, <1>4, <1>5, FollowsTold, AppendQueue
<1>7. Append(q, a) # <<>>
  <2>1. /\ DOMAIN Append(q, a) = DOMAIN q \cup {Len(q) + 1}
    BY AppendRange DEF Queue
  <2>2. QED
    BY <2>1, EmptyRange, QueueDomain
<1>8. Queue(Append(Append(q, a), b)) /\ Follows(Append(Append(q, a), b), c, <<0>>, id, later)
  BY <1>3, <1>5, <1>6, <1>7, FollowsTold, AppendQueue
<1>9. q \o <<a, b>> = Append(Append(q, a), b)
  BY ConcatMessages DEF Queue
<1>10. QED
  BY <1>8, <1>9 DEF a, b

LEMMA TellsRejected ==
  ASSUME NEW q, NEW c, NEW g, NEW id, NEW present \in BOOLEAN,
         Queue(q), Follows(q, c, g, id, present), c.playing
  PROVE  /\ Queue(q \o <<[type |-> "rejected"]>>)
         /\ Follows(q \o <<[type |-> "rejected"]>>, c, g, id, present)
<1>. DEFINE m == [type |-> "rejected"]
<1>1. GuestMessage(m) /\ ~Shows(m) /\ ~Names(m) /\ m.type = "rejected"
  BY DEF GuestMessage, Shows, Names
<1>2. c.id = id
  BY DEF Follows
<1>3. q \o <<m>> = Append(q, m)
  BY ConcatMessages DEF Queue
<1>. HIDE DEF m
<1>4. QED
  BY <1>1, <1>2, <1>3, FollowsTold, AppendQueue DEF m

-----------------------------------------------------------------------------
(* The messages to the host.                                               *)

LEMMA NothingInFlight ==
  ASSUME NEW c, NEW ms
  PROVE  Requested(<<>>, c, ms) /\ Queue(<<>>)
<1>1. <<>> \in Seq(Range(<<>>)) /\ DOMAIN <<>> = {}
  BY EmptyRange, QueueDomain
<1>2. QED
  BY <1>1 DEF Requested, Queue

LEMMA RequestedKept ==
  ASSUME NEW q, NEW c, NEW ms, NEW d, NEW ns, Requested(q, c, ms),
         c.playing => d.playing, DOMAIN ms \subseteq DOMAIN ns
  PROVE  Requested(q, d, ns)
BY DEF Requested

LEMMA RequestedGrows ==
  ASSUME NEW q, NEW c, NEW ms, NEW m, Requested(q, c, ms),
         \/ m.type = "join" /\ m.id \in Identity
         \/ m.type \in {"ready", "unready", "sync"} /\ m.seat \in Players
         \/ m.type = "intent" /\ m.move \in DOMAIN ms /\ c.playing
  PROVE  Requested(Append(q, m), c, ms)
<1>1. /\ Append(q, m) \in Seq(Range(Append(q, m)))
      /\ Append(q, m)[Len(q) + 1] = m
      /\ DOMAIN Append(q, m) = DOMAIN q \cup {Len(q) + 1}
      /\ \A i \in DOMAIN q : Append(q, m)[i] = q[i]
  BY AppendRange DEF Requested
<1>2. QED
  BY <1>1 DEF Requested

LEMMA RequestedShrinks ==
  ASSUME NEW q, NEW c, NEW ms, Requested(q, c, ms), q # <<>>
  PROVE  /\ Requested(Tail(q), c, ms)
         /\ \/ Head(q).type = "join" /\ Head(q).id \in Identity
            \/ Head(q).type \in {"ready", "unready", "sync"} /\ Head(q).seat \in Players
            \/ Head(q).type = "intent" /\ Head(q).move \in DOMAIN ms
         /\ Head(q).type = "intent" => c.playing
<1>1. /\ Tail(q) \in Seq(Range(Tail(q))) /\ Len(Tail(q)) = Len(q) - 1
      /\ Head(q) = q[1]
      /\ \A i \in 1..Len(q) - 1 : Tail(q)[i] = q[i + 1]
  BY TailPlaces DEF Requested
<1>2. Len(q) \in Nat \ {0} /\ DOMAIN q = 1..Len(q) /\ DOMAIN Tail(q) = 1..Len(Tail(q))
  BY <1>1, QueueDomain DEF Requested
<1>3. 1 \in DOMAIN q /\ \A i \in DOMAIN Tail(q) : i + 1 \in DOMAIN q /\ Tail(q)[i] = q[i + 1]
  BY <1>1, <1>2
<1>4. QED
  BY <1>1, <1>3 DEF Requested

-----------------------------------------------------------------------------
(* The steps keep SessionInv.                                              *)

LEMMA PagesRest ==
  ASSUME PagesOK, UNCHANGED <<local, guest, session>>
  PROVE  PagesOK'
BY DEF PagesOK

\* The seat of the guest, if it has one
LEMMA GuestSeatType ==
  ASSUME HostOK, "guest" \in DOMAIN peers
  PROVE  /\ peers["guest"] \in DOMAIN slot /\ peers["guest"] \in Players
         /\ slot[peers["guest"]] \in Slots
         /\ GuestSeat \in Identity
         /\ GuestSeat.seat = peers["guest"]
         /\ GuestSeat.token = slot[peers["guest"]].token
         /\ slot[peers["guest"]].connected \in BOOLEAN
         /\ Known(GuestSeat)
<1>1. /\ peers["guest"] \in DOMAIN slot /\ peers["guest"] \in Players
      /\ slot[peers["guest"]] \in Slots
  BY DEF HostOK, Tables, Agree, PartialOn
<1>2. slot[peers["guest"]].token \in Tokens /\ slot[peers["guest"]].connected \in BOOLEAN
  BY <1>1 DEF Slots
<1>3. GuestSeat \in Identity
  BY <1>1, <1>2 DEF GuestSeat, Identity
<1>4. QED
  BY <1>1, <1>2, <1>3 DEF GuestSeat, Known

LEMMA HostRestartOK ==
  ASSUME SessionInv, NEW remembered \in BOOLEAN, HostRestart(remembered)
  PROVE  SessionInv'
<1>1. TypeOK /\ AllOK /\ Remembered
  BY Parts DEF SessionInv
<1>2. /\ HostOK' /\ SavesHost /\ (~SavesFail => KeepsSeats)
      /\ "guest" \notin DOMAIN peers'
      /\ local' \in [now : Identity, kept : Identity]
      /\ ~SavesFail => Known(local.kept)' \/ local'.kept = local.kept
  BY <1>1, HostRestartHost DEF AllOK
<1>3. /\ chan' = "closed" /\ hostOnline' = FALSE /\ toHost' = <<>> /\ toGuest' = <<>>
      /\ UNCHANGED <<guest, session, made>>
  BY DEF HostRestart, OpenHost
<1>4. PagesOK'
  BY <1>1, <1>2, <1>3 DEF AllOK, PagesOK
<1>5. WiresOK'
  BY <1>1, <1>2, <1>3, NothingInFlight DEF AllOK, WiresOK
<1>6. GuestFollows'
  BY <1>3 DEF GuestFollows
<1>7. Remembered'
  BY <1>1, <1>2, <1>3, RememberedStep
<1>8. QED
  BY <1>2, <1>4, <1>5, <1>6, <1>7, PartsNext DEF AllOK

LEMMA DialOK ==
  ASSUME SessionInv, NEW remembered \in BOOLEAN, Dial(remembered)
  PROVE  SessionInv'
<1>. DEFINE resume == IF remembered THEN session ELSE [id |-> Stranger, view |-> <<>>]
            m == [type |-> "join", id |-> resume.id]
<1>1. AllOK /\ Remembered
  BY Parts
<1>2. /\ guest' = [id |-> resume.id, resume |-> resume.id,
                   view |-> resume.view, playing |-> FALSE]
      /\ session' = resume /\ toHost' = <<m>>
      /\ chan = "closed" /\ chan' = "open"
      /\ UNCHANGED <<hostVars, local, hostOnline, toGuest, made>>
  BY DEF Dial
<1>3. resume.id \in Identity /\ resume.view \in Histories /\ resume = [id |-> resume.id, view |-> resume.view]
  BY <1>1, EmptySeq DEF AllOK, PagesOK, Stranger, Identity, Histories
<1>4. HostOK' /\ SavesHost /\ KeepsSeats
  BY <1>1, <1>2, HostRests DEF AllOK
<1>. HIDE DEF resume
<1>5. PagesOK'
  BY <1>1, <1>2, <1>3 DEF AllOK, PagesOK, Client
<1>6. WiresOK'
  <2>1. Requested(Append(<<>>, m), guest', made)
    BY <1>3, NothingInFlight, RequestedGrows
  <2>2. Append(<<>>, m) = <<m>>
    OBVIOUS
  <2>3. Requested(toHost', guest', made')
    BY <1>2, <2>1, <2>2
  <2>4. QED
    BY <1>1, <1>2, <2>3 DEF AllOK, WiresOK
<1>7. GuestFollows'
  <2>1. "guest" \notin DOMAIN peers' /\ toGuest' = <<>>
    BY <1>1, <1>2 DEF AllOK, WiresOK, hostVars
  <2>2. QED
    BY <1>2, <2>1 DEF GuestFollows
<1>8. Remembered'
  <2>1. resume.id = session.id \/ resume.id = Stranger
    BY DEF resume
  <2>2. resume.id = Stranger => Known(session.id)' /\ Known(guest.id)'
    BY <1>2 DEF Known
  <2>3. QED
    BY <1>1, <1>2, <1>4, <2>1, <2>2, RememberedStep
<1>9. QED
  BY <1>4, <1>5, <1>6, <1>7, <1>8, PartsNext DEF AllOK

LEMMA ChannelDiesOK ==
  ASSUME SessionInv, ChannelDies
  PROVE  SessionInv'
<1>1. AllOK /\ Remembered
  BY Parts
<1>2. /\ chan = "open" /\ chan' = "dead" /\ toHost' = <<>> /\ toGuest' = <<>>
      /\ UNCHANGED <<hostVars, local, guest, session, hostOnline, made>>
  BY DEF ChannelDies
<1>3. HostOK' /\ SavesHost /\ KeepsSeats /\ PagesOK'
  BY <1>1, <1>2, HostRests, PagesRest DEF AllOK
<1>4. WiresOK'
  BY <1>1, <1>2, NothingInFlight DEF AllOK, WiresOK
<1>5. GuestFollows' /\ Remembered'
  BY <1>1, <1>2, <1>3, RememberedStep DEF GuestFollows
<1>6. QED
  BY <1>3, <1>4, <1>5, PartsNext DEF AllOK

LEMMA PresenceOK ==
  ASSUME SessionInv, HostSeesGuest \/ HostMissesGuest
  PROVE  SessionInv'
<1>1. AllOK /\ Remembered /\ GuestFollows
  BY Parts
<1>2. PICK online \in BOOLEAN :
        /\ Presence(online) /\ chan # "closed"
        /\ \/ /\ chan = "open" /\ "guest" \in DOMAIN peers
              /\ toGuest' = toGuest \o SyncedOf(game)
           \/ toGuest' = toGuest /\ (online => "guest" \notin DOMAIN peers)
  <2>1. CASE HostSeesGuest
    BY <2>1 DEF HostSeesGuest, SendGuest, Synced, SyncedOf
  <2>2. CASE HostMissesGuest
    BY <2>2 DEF HostMissesGuest
  <2>3. QED
    BY <2>1, <2>2
<1>3. /\ HostOK' /\ SavesHost /\ KeepsSeats
      /\ UNCHANGED <<peers, game>>
      /\ "guest" \in DOMAIN peers =>
           /\ slot'[peers["guest"]].connected = online
           /\ slot'[peers["guest"]].token = slot[peers["guest"]].token
  BY <1>1, <1>2, PresenceHost DEF AllOK
<1>4. hostOnline' = online /\ UNCHANGED <<local, guest, session, chan, toHost, made>>
  BY <1>2 DEF Presence
<1>5. Queue(toGuest') /\ GuestFollows'
  <2>1. CASE chan = "open" /\ "guest" \in DOMAIN peers
    <3>1. GuestSeat' = GuestSeat /\ slot'[peers'["guest"]].connected = online
      BY <1>3, <2>1 DEF GuestSeat
    <3>2. Follows(toGuest, guest, game, GuestSeat, slot[peers["guest"]].connected)
      BY <1>1, <2>1 DEF GuestFollows
    <3>3. slot[peers["guest"]].connected \in BOOLEAN /\ game \in Histories /\ Queue(toGuest)
      BY <1>1, <2>1, GuestSeatType DEF AllOK, HostOK, WiresOK
    <3>4. Queue(toGuest') /\ Follows(toGuest', guest, game, GuestSeat, online)
      <4>1. CASE toGuest' = toGuest \o SyncedOf(game)
        BY <3>2, <3>3, <4>1, TellsSynced
      <4>2. CASE toGuest' = toGuest /\ ~online
        BY <3>2, <3>3, <4>2, FollowsIdle
      <4>3. QED
        BY <1>2, <2>1, <4>1, <4>2
    <3>5. QED
      BY <1>3, <1>4, <2>1, <3>1, <3>4 DEF GuestFollows
  <2>2. CASE ~(chan = "open" /\ "guest" \in DOMAIN peers)
    BY <1>1, <1>2, <1>3, <1>4, <2>2 DEF GuestFollows, AllOK, WiresOK
  <2>3. QED
    BY <2>1, <2>2
<1>6. WiresOK'
  <2>1. chan # "open" => toGuest' = <<>>
    BY <1>1, <1>2 DEF AllOK, WiresOK
  <2>2. QED
    BY <1>1, <1>2, <1>3, <1>4, <1>5, <2>1 DEF AllOK, WiresOK
<1>7. PagesOK' /\ Remembered'
  BY <1>1, <1>3, <1>4, PagesRest, RememberedStep DEF AllOK
<1>8. QED
  BY <1>3, <1>5, <1>6, <1>7, PartsNext DEF AllOK

\* The host has sent the guest something, or nothing.
LEMMA ToldOK ==
  ASSUME SessionInv, HostOK', SavesHost, KeepsSeats, Queue(toGuest'), GuestFollows',
         chan # "open" => toGuest' = toGuest /\ peers' = peers,
         UNCHANGED <<local, guest, session, chan, hostOnline>>,
         Requested(toHost', guest, made'), chan # "open" => toHost' = toHost,
         made' \in Seq([by : Players, saw : Histories])
  PROVE  SessionInv'
<1>1. AllOK /\ Remembered
  BY Parts
<1>2. PagesOK' /\ Remembered'
  BY <1>1, PagesRest, RememberedStep DEF AllOK
<1>3. WiresOK'
  BY <1>1 DEF AllOK, WiresOK
<1>4. QED
  BY <1>2, <1>3, PartsNext DEF AllOK

\* Nothing that concerns the guest has changed.
LEMMA UntoldFollows ==
  ASSUME GuestFollows, UNCHANGED <<slot, peers, game, guest, chan, toGuest>>
  PROVE  GuestFollows'
BY DEF GuestFollows, GuestSeat

LEMMA GuestSeatThen ==
  HostOK /\ "guest" \in DOMAIN peers =>
    GuestSeat \in Identity /\ slot[peers["guest"]].connected \in BOOLEAN
BY GuestSeatType

LEMMA GuestSeatNext ==
  (HostOK /\ "guest" \in DOMAIN peers =>
     GuestSeat \in Identity /\ slot[peers["guest"]].connected \in BOOLEAN)'
BY GuestSeatThen, PTL

LEMMA JoinRequestFollows ==
  ASSUME SessionInv, chan = "open", NEW m, HandleJoinRequest(m), UNCHANGED <<guest, chan>>
  PROVE  Queue(toGuest') /\ GuestFollows'
<1>. DEFINE h == Joined([slot |-> slot, peers |-> peers, ready |-> ready], "guest", m.id, game)
<1>1. TypeOK /\ AllOK /\ Remembered /\ GuestFollows
  BY Parts DEF SessionInv
<1>2. /\ HostOK' /\ game' = game
      /\ \/ UNCHANGED hostVars
         \/ "guest" \notin DOMAIN peers /\ "guest" \in DOMAIN peers'
  BY <1>1, JoinRequestHost DEF AllOK
<1>3. /\ slot' = h.slot /\ peers' = h.peers
      /\ toGuest' = toGuest \o (IF "guest" \in DOMAIN h.peers THEN JoinAnswers(h, "guest") ELSE <<>>)
  BY DEF HandleJoinRequest, SendGuest
<1>. HIDE DEF h
<1>4. CASE "guest" \notin DOMAIN peers'
  <2>1. toGuest' = toGuest \o <<>> /\ UNCHANGED hostVars
    BY <1>2, <1>3, <1>4
  <2>2. toGuest' = toGuest
    BY <1>1, <2>1, ConcatMessages DEF AllOK, WiresOK, Queue
  <2>3. GuestFollows'
    BY <1>1, <2>1, <2>2, UntoldFollows DEF hostVars
  <2>4. QED
    BY <1>1, <2>2, <2>3 DEF AllOK, WiresOK
<1>5. CASE "guest" \in DOMAIN peers'
  <2>. DEFINE present == slot'[peers'["guest"]].connected
  <2>1. toGuest' = toGuest \o (<<[type |-> "accept", id |-> GuestSeat']>> \o SyncedOf(game))
    BY <1>3, <1>5 DEF JoinAnswers, Welcome, GuestSeat, Synced, SyncedOf
  <2>2. GuestSeat' \in Identity /\ present \in BOOLEAN
    BY <1>2, <1>5, GuestSeatNext
  <2>3. game \in Histories /\ Queue(toGuest)
    BY <1>1 DEF AllOK, HostOK, WiresOK
  <2>4. \/ Follows(toGuest, guest, game, GuestSeat', present)
        \/ toGuest = <<>> /\ ~guest.playing
    <3>1. CASE UNCHANGED hostVars
      BY <1>1, <1>5, <3>1 DEF GuestFollows, hostVars, GuestSeat
    <3>2. CASE "guest" \notin DOMAIN peers
      BY <1>1, <3>2 DEF GuestFollows
    <3>3. QED
      BY <1>2, <3>1, <3>2
  <2>. HIDE DEF present
  <2>5. Queue(toGuest') /\ Follows(toGuest', guest, game, GuestSeat', present)
    BY <2>1, <2>2, <2>3, <2>4, TellsWelcome
  <2>6. QED
    BY <1>2, <1>5, <2>5 DEF GuestFollows, present
<1>6. QED
  BY <1>4, <1>5

LEMMA AcceptMoveFollows ==
  ASSUME AllOK, GuestFollows, NEW move \in Moves, game # <<>>, AcceptMove(move),
         UNCHANGED <<guest, chan>>
  PROVE  /\ Queue(toGuest') /\ GuestFollows'
         /\ chan # "open" => toGuest' = toGuest
<1>. DEFINE m == [type |-> "view", view |-> Append(game, move), prev |-> game]
            p == peers["guest"]
<1>1. /\ game' = Append(game, move) /\ UNCHANGED <<slot, peers>>
      /\ IF \E x \in DOMAIN slot : slot[x].peer = "guest" /\ slot[x].connected
         THEN toGuest' = IF chan = "open" THEN toGuest \o <<m>> ELSE toGuest
         ELSE toGuest' = toGuest
  BY DEF AcceptMove, PushView, SendGuest
<1>2. Queue(toGuest) /\ game \in Histories /\ Client(guest)
  BY DEF AllOK, HostOK, PagesOK, WiresOK
<1>3. CASE chan # "open"
  BY <1>1, <1>2, <1>3 DEF GuestFollows
<1>4. CASE chan = "open" /\ "guest" \notin DOMAIN peers
  <2>1. ~ \E x \in DOMAIN slot : slot[x].peer = "guest"
    BY <1>4 DEF AllOK, HostOK, Tables, Agree
  <2>2. toGuest' = toGuest
    BY <1>1, <2>1
  <2>3. QED
    BY <1>1, <1>2, <1>4, <2>2 DEF GuestFollows
<1>5. CASE chan = "open" /\ "guest" \in DOMAIN peers
  <2>1. (\E x \in DOMAIN slot : slot[x].peer = "guest" /\ slot[x].connected) <=> slot[p].connected
    BY <1>5 DEF AllOK, HostOK, Tables, Agree
  <2>2. Follows(toGuest, guest, game, GuestSeat, slot[p].connected) /\ slot[p].connected \in BOOLEAN
    BY <1>5, GuestSeatType DEF GuestFollows, AllOK
  <2>3. toGuest \o <<m>> = Append(toGuest, m)
    BY <1>2, ConcatMessages DEF Queue
  <2>4. Queue(toGuest') /\ Follows(toGuest', guest, Append(game, move), GuestSeat, slot[p].connected)
    <3>1. CASE slot[p].connected
      <4>1. toGuest' = Append(toGuest, m)
        BY <1>1, <1>5, <2>1, <2>3, <3>1
      <4>2. slot[p].connected = TRUE
        BY <2>2, <3>1
      <4>3. Follows(toGuest, guest, game, GuestSeat, TRUE)
        BY <2>2, <4>2
      <4>4. /\ Queue(Append(toGuest, m))
            /\ Follows(Append(toGuest, m), guest, Append(game, move), GuestSeat, TRUE)
        BY <1>2, <4>3, TellsMove
      <4>5. QED
        BY <4>1, <4>2, <4>4
    <3>2. CASE ~slot[p].connected
      <4>1. toGuest' = toGuest /\ slot[p].connected = FALSE
        BY <1>1, <2>1, <2>2, <3>2
      <4>2. Follows(toGuest, guest, Append(game, move), GuestSeat, FALSE)
        BY <1>2, <2>2, FollowsUnseen
      <4>3. QED
        BY <1>2, <4>1, <4>2
    <3>3. QED
      BY <3>1, <3>2
  <2>5. QED
    BY <1>1, <1>5, <2>4 DEF GuestFollows, GuestSeat
<1>6. QED
  BY <1>3, <1>4, <1>5

LEMMA IntentOK ==
  ASSUME SessionInv, InformedInv, chan = "open", NEW move \in DOMAIN made,
         guest.playing, HandleActionIntent(move), UNCHANGED <<guest, chan>>
  PROVE  HostOK' /\ SavesHost /\ KeepsSeats /\ Queue(toGuest') /\ GuestFollows'
<1>1. AllOK /\ Remembered /\ GuestFollows
  BY Parts
<1>2. "guest" \in DOMAIN peers
  BY <1>1 DEF GuestFollows
<1>3. CASE UNCHANGED <<hostVars, toGuest>>
  <2>1. UNCHANGED <<slot, peers, game>>
    BY <1>3 DEF hostVars
  <2>2. HostOK' /\ SavesHost /\ KeepsSeats
    BY <1>1, <1>3, HostRests DEF AllOK
  <2>3. GuestFollows'
    BY <1>1, <1>3, <2>1, UntoldFollows
  <2>4. QED
    BY <1>1, <1>3, <2>2, <2>3 DEF AllOK, WiresOK
<1>4. CASE SendGuest(<<[type |-> "rejected"]>>) /\ UNCHANGED hostVars
  <2>1. toGuest' = toGuest \o <<[type |-> "rejected"]>>
    BY <1>4 DEF SendGuest
  <2>2. /\ Follows(toGuest, guest, game, GuestSeat, slot[peers["guest"]].connected)
        /\ slot[peers["guest"]].connected \in BOOLEAN /\ Queue(toGuest)
    BY <1>1, <1>2, GuestSeatType DEF GuestFollows, AllOK, WiresOK
  <2>3. /\ Queue(toGuest')
        /\ Follows(toGuest', guest, game, GuestSeat, slot[peers["guest"]].connected)
    BY <2>1, <2>2, TellsRejected
  <2>4. HostOK' /\ SavesHost /\ KeepsSeats
    BY <1>1, <1>4, HostRests DEF AllOK
  <2>5. UNCHANGED <<slot, peers, game>>
    BY <1>4 DEF hostVars
  <2>6. GuestFollows'
    BY <1>2, <2>3, <2>5 DEF GuestFollows, GuestSeat
  <2>7. QED
    BY <2>3, <2>4, <2>6
<1>5. CASE game # <<>> /\ AcceptMove(move)
  <2>1. move \in Moves
    BY LenProperties, P2PAssumption DEF Moves, InformedInv
  <2>2. Queue(toGuest') /\ GuestFollows'
    BY <1>1, <1>5, <2>1, AcceptMoveFollows
  <2>3. /\ game' = Append(game, move) /\ UNCHANGED <<slot, peers, ready>>
        /\ EmitSnapshotChanged
    BY <1>5 DEF AcceptMove
  <2>4. HostOK' /\ SavesHost /\ KeepsSeats
    BY <1>1, <2>1, <2>3, GrowHost DEF AllOK
  <2>5. QED
    BY <2>2, <2>4
<1>6. QED
  BY <1>3, <1>4, <1>5 DEF HandleActionIntent

LEMMA HostReceiveOK ==
  ASSUME SessionInv, InformedInv, HostReceive
  PROVE  SessionInv'
<1>. DEFINE m == Head(toHost)
<1>1. AllOK /\ Remembered /\ GuestFollows
  BY Parts
<1>2. /\ toHost # <<>> /\ toHost' = Tail(toHost)
      /\ UNCHANGED <<local, guest, session, chan, hostOnline, made>>
      /\ \/ HandleJoinRequest(m)
         \/ m.type \in {"ready", "unready"} /\ LobbyReady("guest", m.seat, m.type = "ready") /\ UNCHANGED toGuest
         \/ m.type = "intent" /\ HandleActionIntent(m.move)
         \/ HandleSyncRequest(m.seat)
  BY DEF HostReceive
<1>3. chan = "open"
  BY <1>1, <1>2 DEF AllOK, WiresOK
<1>4. /\ Requested(Tail(toHost), guest, made)
      /\ m.type \in {"ready", "unready", "sync"} => m.seat \in Players
      /\ m.type = "intent" => m.move \in DOMAIN made /\ guest.playing
  BY <1>1, <1>2, RequestedShrinks DEF AllOK, WiresOK
<1>. HIDE DEF m
<1>5. HostOK' /\ SavesHost /\ KeepsSeats /\ Queue(toGuest') /\ GuestFollows'
  <2>1. CASE HandleJoinRequest(m)
    <3>1. HostOK' /\ SavesHost /\ KeepsSeats
      BY <1>1, <2>1, JoinRequestHost DEF AllOK, SessionInv
    <3>2. QED
      BY <1>2, <1>3, <2>1, <3>1, JoinRequestFollows
  <2>2. CASE /\ m.type \in {"ready", "unready"}
             /\ LobbyReady("guest", m.seat, m.type = "ready") /\ UNCHANGED toGuest
    <3>1. HostOK' /\ SavesHost /\ KeepsSeats
      BY <1>1, <1>4, <2>2, LobbyReadyHost DEF AllOK
    <3>2. UNCHANGED <<slot, peers, game>>
      BY <2>2 DEF LobbyReady
    <3>3. GuestFollows'
      BY <1>1, <1>2, <2>2, <3>2, UntoldFollows
    <3>4. QED
      BY <1>1, <2>2, <3>1, <3>3 DEF AllOK, WiresOK
  <2>3. CASE m.type = "intent" /\ HandleActionIntent(m.move)
    BY <1>2, <1>3, <1>4, <2>3, IntentOK
  <2>4. CASE HandleSyncRequest(m.seat)
    <3>1. UNCHANGED hostVars
      BY <2>4 DEF HandleSyncRequest
    <3>2. HostOK' /\ SavesHost /\ KeepsSeats /\ UNCHANGED <<slot, peers, game>>
      BY <1>1, <3>1, HostRests DEF AllOK, hostVars
    <3>3. CASE "guest" \in DOMAIN peers /\ toGuest' = toGuest \o SyncedOf(game)
      <4>. DEFINE present == slot[peers["guest"]].connected
      <4>1. /\ Follows(toGuest, guest, game, GuestSeat, present)
            /\ present \in BOOLEAN /\ Queue(toGuest) /\ game \in Histories
        BY <1>1, <1>3, <3>3, GuestSeatType DEF GuestFollows, AllOK, WiresOK, HostOK
      <4>2. Queue(toGuest') /\ Follows(toGuest', guest, game, GuestSeat, present)
        BY <3>3, <4>1, TellsSynced
      <4>3. GuestFollows'
        BY <1>2, <3>2, <3>3, <4>2 DEF GuestFollows, GuestSeat
      <4>4. QED
        BY <3>2, <4>2, <4>3
    <3>4. CASE toGuest' = toGuest \o <<>>
      <4>1. toGuest' = toGuest
        BY <1>1, <3>4, ConcatMessages DEF AllOK, WiresOK, Queue
      <4>2. GuestFollows'
        BY <1>1, <1>2, <3>2, <4>1, UntoldFollows
      <4>3. QED
        BY <1>1, <3>2, <4>1, <4>2 DEF AllOK, WiresOK
    <3>5. QED
      BY <1>3, <2>4, <3>3, <3>4 DEF HandleSyncRequest, SendGuest, Synced, SyncedOf
  <2>5. QED
    BY <1>2, <2>1, <2>2, <2>3, <2>4
<1>6. made \in Seq([by : Players, saw : Histories])
  BY <1>1 DEF AllOK, WiresOK
<1>7. QED
  BY <1>2, <1>3, <1>4, <1>5, <1>6, ToldOK

LEMMA RecordKept ==
  ASSUME AllOK, NEW r \in [by : Players, saw : Histories], made' = Append(made, r)
  PROVE  /\ made' \in Seq([by : Players, saw : Histories])
         /\ Requested(toHost, guest, made')
         /\ Len(made') \in DOMAIN made' /\ DOMAIN made \subseteq DOMAIN made'
<1>1. made \in Seq([by : Players, saw : Histories]) /\ Requested(toHost, guest, made)
  BY DEF AllOK, WiresOK
<1>2. /\ made' \in Seq([by : Players, saw : Histories])
      /\ Len(made') = Len(made) + 1 /\ Len(made) \in Nat
      /\ DOMAIN made = 1..Len(made) /\ DOMAIN made' = 1..Len(made')
  BY <1>1, AppendProperties, LenProperties
<1>3. DOMAIN made \subseteq DOMAIN made' /\ Len(made') \in DOMAIN made'
  BY <1>2
<1>4. QED
  BY <1>1, <1>2, <1>3, RequestedKept

LEMMA HostReadyOK ==
  ASSUME SessionInv, NEW isReady \in BOOLEAN, HostReady(isReady)
  PROVE  SessionInv'
<1>1. AllOK /\ Remembered /\ GuestFollows
  BY Parts
<1>2. /\ LocalBound /\ LobbyReady("local", local.now.seat, isReady)
      /\ UNCHANGED <<local, guest, session, chan, hostOnline, toHost, toGuest, made>>
  BY DEF HostReady
<1>3. local.now.seat \in Players
  BY <1>1, <1>2 DEF LocalBound, AllOK, HostOK, Tables, PartialOn
<1>4. HostOK' /\ SavesHost /\ KeepsSeats
  BY <1>1, <1>2, <1>3, LobbyReadyHost DEF AllOK
<1>5. UNCHANGED <<slot, peers, game>>
  BY <1>2 DEF LobbyReady
<1>6. GuestFollows'
  BY <1>1, <1>2, <1>5, UntoldFollows
<1>7. QED
  BY <1>1, <1>2, <1>4, <1>5, <1>6, ToldOK DEF AllOK, WiresOK

LEMMA StartGameOK ==
  ASSUME SessionInv, StartGame
  PROVE  SessionInv'
<1>. DEFINE start == <<[type |-> "start", id |-> GuestSeat, view |-> <<0>>],
                       [type |-> "view", view |-> <<0>>, prev |-> <<>>]>>
<1>1. AllOK /\ Remembered /\ GuestFollows
  BY Parts
<1>2. /\ game = <<>> /\ game' = <<0>>
      /\ UNCHANGED <<slot, peers, ready>> /\ EmitSnapshotChanged
      /\ UNCHANGED <<local, guest, session, chan, hostOnline, toHost, made>>
      /\ SendGuest(IF "guest" \in DOMAIN peers THEN start ELSE <<>>)
  BY DEF StartGame, GuestSeat
<1>3. game' = Append(game, 0)
  BY <1>2
<1>4. HostOK' /\ SavesHost /\ KeepsSeats
  BY <1>1, <1>2, <1>3, GrowHost DEF AllOK
<1>5. /\ Queue(toGuest') /\ GuestFollows'
      /\ chan # "open" => toGuest' = toGuest
  <2>1. Queue(toGuest) /\ Client(guest)
    BY <1>1 DEF AllOK, WiresOK, PagesOK
  <2>2. CASE chan # "open"
    BY <1>2, <2>1, <2>2 DEF GuestFollows, SendGuest
  <2>3. CASE chan = "open" /\ "guest" \notin DOMAIN peers
    <3>1. toGuest' = toGuest \o <<>>
      BY <1>2, <2>3 DEF SendGuest
    <3>2. toGuest' = toGuest
      BY <2>1, <3>1, ConcatMessages DEF Queue
    <3>3. QED
      BY <1>1, <1>2, <2>1, <2>3, <3>2 DEF GuestFollows
  <2>4. CASE chan = "open" /\ "guest" \in DOMAIN peers
    <3>. DEFINE present == slot[peers["guest"]].connected
    <3>1. toGuest' = toGuest \o start
      BY <1>2, <2>4 DEF SendGuest
    <3>2. /\ GuestSeat \in Identity /\ present \in BOOLEAN
          /\ Follows(toGuest, guest, <<>>, GuestSeat, present)
      BY <1>1, <1>2, <2>4, GuestSeatType DEF GuestFollows, AllOK
    <3>3. Queue(toGuest') /\ Follows(toGuest', guest, <<0>>, GuestSeat, present)
      BY <2>1, <3>1, <3>2, TellsStart
    <3>4. QED
      BY <1>2, <2>4, <3>3 DEF GuestFollows, GuestSeat
  <2>5. QED
    BY <2>2, <2>3, <2>4
<1>6. QED
  BY <1>1, <1>2, <1>4, <1>5, ToldOK DEF AllOK, WiresOK

LEMMA HostPlaysOK ==
  ASSUME SessionInv, InformedInv, HostPlays
  PROVE  SessionInv'
<1>. DEFINE r == [by |-> local.now.seat, saw |-> game]
<1>1. AllOK /\ Remembered /\ GuestFollows
  BY Parts
<1>2. /\ LocalBound /\ game # <<>> /\ Len(made) < MaxMoves
      /\ made' = Append(made, r) /\ AcceptMove(Len(made'))
      /\ UNCHANGED <<local, guest, session, chan, hostOnline, toHost>>
  BY DEF HostPlays
<1>3. r \in [by : Players, saw : Histories]
  BY <1>1, <1>2 DEF LocalBound, AllOK, HostOK, Tables, PartialOn
<1>. HIDE DEF r
<1>4. /\ made' \in Seq([by : Players, saw : Histories])
      /\ Requested(toHost, guest, made')
  BY <1>1, <1>2, <1>3, RecordKept
<1>5. Len(made') \in Moves
  <2>1. Len(made) \in Nat /\ Len(made') = Len(made) + 1
    BY <1>2, AppendRange, LenProperties DEF InformedInv
  <2>2. QED
    BY <1>2, <2>1, P2PAssumption DEF Moves
<1>6. /\ Queue(toGuest') /\ GuestFollows'
      /\ chan # "open" => toGuest' = toGuest
  BY <1>1, <1>2, <1>5, AcceptMoveFollows
<1>7. /\ game' = Append(game, Len(made')) /\ UNCHANGED <<slot, peers, ready>>
      /\ EmitSnapshotChanged
  BY <1>2 DEF AcceptMove
<1>8. HostOK' /\ SavesHost /\ KeepsSeats
  BY <1>1, <1>5, <1>7, GrowHost DEF AllOK
<1>9. QED
  BY <1>2, <1>4, <1>6, <1>7, <1>8, ToldOK

LEMMA GuestAsksOK ==
  ASSUME SessionInv, GuestAsks
  PROVE  SessionInv'
<1>. DEFINE m == [type |-> "join", id |-> guest.resume]
<1>1. AllOK /\ Remembered /\ GuestFollows
  BY Parts
<1>2. /\ chan = "open" /\ toHost' = Append(toHost, m)
      /\ UNCHANGED <<hostVars, local, chan, hostOnline, guest, session, toGuest, made>>
  BY DEF GuestAsks, GuestSends, GuestVars
<1>3. Requested(toHost', guest, made)
  <2>1. m.type = "join" /\ m.id \in Identity
    BY <1>1 DEF AllOK, PagesOK, Client
  <2>. HIDE DEF m
  <2>2. QED
    BY <1>1, <1>2, <2>1, RequestedGrows DEF AllOK, WiresOK
<1>4. HostOK' /\ SavesHost /\ KeepsSeats /\ UNCHANGED <<slot, peers, game>>
  BY <1>1, <1>2, HostRests DEF AllOK, hostVars
<1>5. GuestFollows'
  BY <1>1, <1>2, <1>4, UntoldFollows
<1>6. QED
  BY <1>1, <1>2, <1>3, <1>4, <1>5, ToldOK DEF AllOK, WiresOK

LEMMA GuestReadyOK ==
  ASSUME SessionInv, NEW isReady \in BOOLEAN, GuestReady(isReady)
  PROVE  SessionInv'
<1>. DEFINE m == [type |-> IF isReady THEN "ready" ELSE "unready", seat |-> guest.id.seat]
<1>1. AllOK /\ Remembered /\ GuestFollows
  BY Parts
<1>2. /\ chan = "open" /\ toHost' = Append(toHost, m) /\ guest.id.seat # Nobody
      /\ UNCHANGED <<hostVars, local, chan, hostOnline, guest, session, toGuest, made>>
  BY DEF GuestReady, GuestSends, GuestVars
<1>3. Requested(toHost', guest, made)
  <2>1. m.type \in {"ready", "unready", "sync"} /\ m.seat \in Players
    BY <1>1, <1>2 DEF AllOK, PagesOK, Client, Identity
  <2>. HIDE DEF m
  <2>2. QED
    BY <1>1, <1>2, <2>1, RequestedGrows DEF AllOK, WiresOK
<1>4. HostOK' /\ SavesHost /\ KeepsSeats /\ UNCHANGED <<slot, peers, game>>
  BY <1>1, <1>2, HostRests DEF AllOK, hostVars
<1>5. GuestFollows'
  BY <1>1, <1>2, <1>4, UntoldFollows
<1>6. QED
  BY <1>1, <1>2, <1>3, <1>4, <1>5, ToldOK DEF AllOK, WiresOK

\* Who plays has a seat.
LEMMA PlayingSeat ==
  ASSUME AllOK, GuestFollows, chan = "open", guest.playing
  PROVE  "guest" \in DOMAIN peers /\ guest.id = GuestSeat /\ guest.id.seat \in Players
<1>1. "guest" \in DOMAIN peers
  BY DEF GuestFollows
<1>2. guest.id = GuestSeat
  BY <1>1 DEF GuestFollows, Follows
<1>3. QED
  BY <1>1, <1>2, GuestSeatType DEF AllOK

LEMMA GuestPlaysOK ==
  ASSUME SessionInv, GuestPlays
  PROVE  SessionInv'
<1>. DEFINE r == [by |-> guest.id.seat, saw |-> guest.view]
            m == [type |-> "intent", move |-> Len(made')]
<1>1. AllOK /\ Remembered /\ GuestFollows
  BY Parts
<1>2. /\ chan = "open" /\ guest.playing
      /\ made' = Append(made, r) /\ toHost' = Append(toHost, m)
      /\ UNCHANGED <<hostVars, local, chan, hostOnline, guest, session, toGuest>>
  BY DEF GuestPlays, GuestSends, GuestVars
<1>3. r \in [by : Players, saw : Histories]
  BY <1>1, <1>2, PlayingSeat DEF AllOK, PagesOK, Client
<1>. HIDE DEF r
<1>4. /\ made' \in Seq([by : Players, saw : Histories])
      /\ Requested(toHost, guest, made') /\ Len(made') \in DOMAIN made'
  BY <1>1, <1>2, <1>3, RecordKept
<1>5. Requested(toHost', guest, made')
  <2>1. m.type = "intent" /\ m.move \in DOMAIN made'
    BY <1>4
  <2>. HIDE DEF m
  <2>2. QED
    BY <1>2, <1>4, <2>1, RequestedGrows
<1>6. HostOK' /\ SavesHost /\ KeepsSeats /\ UNCHANGED <<slot, peers, game>>
  BY <1>1, <1>2, HostRests DEF AllOK, hostVars
<1>7. GuestFollows'
  BY <1>1, <1>2, <1>6, UntoldFollows
<1>8. QED
  BY <1>1, <1>2, <1>4, <1>5, <1>6, <1>7, ToldOK DEF AllOK, WiresOK

\* What a message makes of the guest
LEMMA GuestReads ==
  ASSUME AllOK, GuestFollows, GuestReceive
  PROVE  /\ chan = "open" /\ "guest" \in DOMAIN peers
         /\ guest' = [id |-> IF Names(toGuest[1]) THEN toGuest[1].id ELSE guest.id,
                      resume |-> guest.resume,
                      view |-> IF Shows(toGuest[1]) THEN toGuest[1].view ELSE guest.view,
                      playing |-> guest.playing \/ Shows(toGuest[1])]
         /\ \/ toHost' = toHost /\ Persist
            \/ /\ toHost' = Append(toHost, [type |-> "sync", seat |-> guest.id.seat])
               /\ guest.id.seat \in Players /\ session' = session
<1>. DEFINE m == toGuest[1]
<1>1. /\ toGuest # <<>> /\ Head(toGuest) = m /\ Queue(toGuest)
      /\ GuestMessage(m) /\ 1 \in DOMAIN toGuest
  <2>1. toGuest # <<>> /\ Queue(toGuest)
    BY DEF GuestReceive, AllOK, WiresOK
  <2>2. Head(toGuest) = m /\ GuestMessage(Head(toGuest)) /\ 1 \in DOMAIN toGuest
    BY <2>1, TailQueue, TailPlaces, QueueDomain DEF Queue
  <2>3. QED
    BY <2>1, <2>2
<1>2. chan = "open" /\ "guest" \in DOMAIN peers
  BY <1>1 DEF AllOK, WiresOK, GuestFollows
<1>3. Follows(toGuest, guest, game, GuestSeat, slot[peers["guest"]].connected)
  BY <1>2 DEF GuestFollows
<1>4. /\ \/ m.type \in {"accept", "start", "view", "synced"}
         \/ m.type = "rejected" /\ guest.playing
      /\ m.type = "view" /\ m.prev # <<>> => m.prev = guest.view
  BY <1>1, <1>3, NextFits DEF GuestMessage, Follows
<1>5. guest = [id |-> guest.id, resume |-> guest.resume, view |-> guest.view,
               playing |-> guest.playing] /\ guest.playing \in BOOLEAN
  BY DEF AllOK, PagesOK, Client
<1>6. \/ /\ m.type = "accept"
         /\ guest' = [guest EXCEPT !.id = m.id] /\ Persist /\ toHost' = toHost
      \/ /\ m.type = "start"
         /\ guest' = [guest EXCEPT !.id = m.id, !.view = m.view, !.playing = TRUE]
         /\ Persist /\ toHost' = toHost
      \/ /\ m.type \in {"view", "synced"}
         /\ guest' = [guest EXCEPT !.view = m.view, !.playing = TRUE]
         /\ Persist /\ toHost' = toHost
      \/ m.type = "rejected" /\ RequestSync
  <2>1. m.type = "view" => Continuous(m)
    BY <1>4 DEF Continuous
  <2>2. m = Head(toGuest)
    BY <1>1
  <2>. HIDE DEF m
  <2>3. QED
    BY <2>1, <2>2 DEF GuestReceive, ApplyState
<1>. HIDE DEF m
<1>7. CASE m.type = "accept"
  <2>1. Names(m) /\ ~Shows(m)
    BY <1>7 DEF Names, Shows
  <2>2. QED
    BY <1>2, <1>5, <1>6, <1>7, <2>1 DEF m
<1>8. CASE m.type = "start"
  <2>1. Names(m) /\ Shows(m)
    BY <1>8 DEF Names, Shows
  <2>2. /\ guest' = [guest EXCEPT !.id = m.id, !.view = m.view, !.playing = TRUE]
        /\ Persist /\ toHost' = toHost
    BY <1>6, <1>8
  <2>3. guest' = [id |-> m.id, resume |-> guest.resume, view |-> m.view, playing |-> TRUE]
    BY <1>5, <2>2
  <2>4. QED
    BY <1>2, <2>1, <2>2, <2>3 DEF m
<1>9. CASE m.type \in {"view", "synced"}
  <2>1. ~Names(m) /\ Shows(m)
    BY <1>9 DEF Names, Shows
  <2>2. /\ guest' = [guest EXCEPT !.view = m.view, !.playing = TRUE]
        /\ Persist /\ toHost' = toHost
    BY <1>6, <1>9
  <2>3. guest' = [id |-> guest.id, resume |-> guest.resume, view |-> m.view, playing |-> TRUE]
    BY <1>5, <2>2
  <2>4. QED
    BY <1>2, <2>1, <2>2, <2>3 DEF m
<1>10. CASE m.type = "rejected"
  <2>1. ~Names(m) /\ ~Shows(m)
    BY <1>10 DEF Names, Shows
  <2>2. /\ guest' = guest /\ session' = session
        /\ toHost' = Append(toHost, [type |-> "sync", seat |-> guest.id.seat])
    BY <1>6, <1>10 DEF RequestSync, GuestSends
  <2>3. guest.id.seat \in Players
    BY <1>2, <1>4, <1>10, PlayingSeat
  <2>4. QED
    BY <1>2, <1>5, <2>1, <2>2, <2>3 DEF m
<1>11. QED
  BY <1>4, <1>7, <1>8, <1>9, <1>10

LEMMA GuestReceiveOK ==
  ASSUME SessionInv, GuestReceive
  PROVE  SessionInv'
<1>. DEFINE m == toGuest[1]
<1>1. AllOK /\ Remembered /\ GuestFollows
  BY Parts
<1>2. /\ toGuest # <<>> /\ toGuest' = Tail(toGuest)
      /\ UNCHANGED <<hostVars, local, chan, hostOnline, made>>
  BY DEF GuestReceive, GuestVars
<1>3. /\ chan = "open" /\ "guest" \in DOMAIN peers
      /\ guest' = [id |-> IF Names(m) THEN m.id ELSE guest.id,
                   resume |-> guest.resume,
                   view |-> IF Shows(m) THEN m.view ELSE guest.view,
                   playing |-> guest.playing \/ Shows(m)]
      /\ \/ toHost' = toHost /\ Persist
         \/ /\ toHost' = Append(toHost, [type |-> "sync", seat |-> guest.id.seat])
            /\ guest.id.seat \in Players /\ session' = session
  BY <1>1, GuestReads
<1>4. Queue(toGuest) /\ GuestMessage(m) /\ Queue(Tail(toGuest)) /\ 1 \in DOMAIN toGuest
  <2>1. Queue(toGuest)
    BY <1>1 DEF AllOK, WiresOK
  <2>2. Head(toGuest) = m /\ 1 \in DOMAIN toGuest
    BY <1>2, <2>1, TailPlaces, QueueDomain DEF Queue
  <2>3. QED
    BY <1>2, <2>1, <2>2, TailQueue
<1>5. /\ Names(m) => m.id \in Identity
      /\ Shows(m) => m.view \in Histories
      /\ Names(m) \in BOOLEAN /\ Shows(m) \in BOOLEAN
  BY <1>4, MessageViews DEF Names, Shows
<1>6. Follows(toGuest, guest, game, GuestSeat, slot[peers["guest"]].connected)
  BY <1>1, <1>3 DEF GuestFollows
<1>7. Names(m) => m.id = GuestSeat
  BY <1>4, <1>6 DEF Follows
<1>. HIDE DEF m
<1>8. /\ guest'.id = IF Names(m) THEN m.id ELSE guest.id
      /\ guest'.view = IF Shows(m) THEN m.view ELSE guest.view
      /\ guest'.playing <=> (guest.playing \/ Shows(m))
      /\ guest'.resume = guest.resume
  BY <1>3
<1>9. /\ Client(guest') /\ guest'.id \in Identity /\ guest'.view \in Histories
      /\ guest.playing => guest'.playing
  <2>1. guest \in [id : Identity, resume : Identity, view : Histories, playing : BOOLEAN]
    BY <1>1 DEF AllOK, PagesOK, Client
  <2>2. /\ (IF Names(m) THEN m.id ELSE guest.id) \in Identity
        /\ (IF Shows(m) THEN m.view ELSE guest.view) \in Histories
        /\ guest.resume \in Identity
        /\ (guest.playing \/ Shows(m)) \in BOOLEAN
    BY <1>5, <2>1
  <2>3. QED
    BY <1>3, <1>8, <2>2 DEF Client
<1>10. session' = session \/ session' = [id |-> guest'.id, view |-> guest'.view]
  BY <1>3 DEF Persist, Saved
<1>11. PagesOK'
  <2>1. session' \in [id : Identity, view : Histories]
    BY <1>1, <1>9, <1>10 DEF AllOK, PagesOK
  <2>2. QED
    BY <1>1, <1>2, <1>9, <2>1 DEF AllOK, PagesOK
<1>12. HostOK' /\ SavesHost /\ KeepsSeats /\ UNCHANGED <<slot, peers, game>>
  BY <1>1, <1>2, HostRests DEF AllOK, hostVars
<1>13. WiresOK'
  <2>1. Requested(toHost, guest, made)
    BY <1>1 DEF AllOK, WiresOK
  <2>2. Requested(toHost', guest, made)
    <3>1. CASE toHost' = toHost
      BY <2>1, <3>1
    <3>2. CASE /\ toHost' = Append(toHost, [type |-> "sync", seat |-> guest.id.seat])
               /\ guest.id.seat \in Players
      BY <2>1, <3>2, RequestedGrows
    <3>3. QED
      BY <1>3, <3>1, <3>2
  <2>3. Requested(toHost', guest', made)
    BY <1>9, <2>2, RequestedKept
  <2>4. QED
    BY <1>1, <1>2, <1>3, <1>4, <2>3 DEF AllOK, WiresOK
<1>14. GuestFollows'
  <2>1. game \in Histories /\ Client(guest)
    BY <1>1 DEF AllOK, HostOK, PagesOK
  <2>2. Follows(Tail(toGuest), guest', game, GuestSeat, slot[peers["guest"]].connected)
    BY <1>2, <1>4, <1>6, <1>8, <2>1, FollowsRead DEF m
  <2>3. QED
    BY <1>2, <1>3, <1>12, <2>2 DEF GuestFollows, GuestSeat
<1>15. Remembered'
  <2>1. Known(GuestSeat)
    BY <1>1, <1>3, GuestSeatType DEF AllOK
  <2>2. Known(GuestSeat)'
    BY <1>12, <2>1 DEF Known, GuestSeat
  <2>3. GuestSeat' = GuestSeat
    BY <1>12 DEF GuestSeat
  <2>4. guest'.id = GuestSeat \/ guest'.id = guest.id
    BY <1>7, <1>8
  <2>5. session'.id = session.id \/ session'.id = guest'.id
    BY <1>10
  <2>6. Known(guest.id)' \/ guest'.id \in {session.id, guest.id}
    BY <2>2, <2>3, <2>4 DEF Known
  <2>7. Known(session.id)' \/ session'.id \in {session.id, guest.id}
    BY <2>2, <2>3, <2>4, <2>5 DEF Known
  <2>8. local'.kept = local.kept
    BY <1>2
  <2>9. QED
    BY <1>1, <1>12, <2>6, <2>7, <2>8, RememberedStep
<1>16. QED
  BY <1>11, <1>12, <1>13, <1>14, <1>15, PartsNext DEF AllOK

-----------------------------------------------------------------------------
(* The invariant.                                                          *)

LEMMA SomeToken == (CHOOSE t \in Tokens : TRUE) \in Tokens
<1>1. Tokens # {}
  <2>1. ASSUME Tokens = {}
        PROVE  FALSE
    <3>1. IsFiniteSet(Tokens) /\ Cardinality(Tokens) = 0
      BY <2>1, FS_EmptySet
    <3>2. QED
      BY <3>1, TokensAssumption
  <2>2. QED
    BY <2>1
<1>2. QED
  BY <1>1

LEMMA SessionInit == Init => SessionInv
<1>. SUFFICES ASSUME Init
              PROVE  AllOK /\ GuestFollows /\ Remembered
  BY Parts
<1>. DEFINE t == CHOOSE x \in Tokens : TRUE
            seat == [peer |-> "local", token |-> t, connected |-> TRUE]
            id == [seat |-> "p1", token |-> t]
<1>1. t \in Tokens
  BY SomeToken
<1>2. DOMAIN <<>> = {}
  BY EmptyRange, QueueDomain
<1>3. /\ slot = Put(<<>>, "p1", seat) /\ peers = Put(<<>>, "local", "p1")
      /\ ready = {} /\ game = <<>>
      /\ stored = Snapshot([slot |-> slot, ready |-> ready], game)
      /\ local = [now |-> [seat |-> "p1", token |-> slot["p1"].token],
                  kept |-> [seat |-> "p1", token |-> slot["p1"].token]]
      /\ guest = [id |-> Stranger, resume |-> Stranger, view |-> <<>>, playing |-> FALSE]
      /\ session = [id |-> Stranger, view |-> <<>>]
      /\ chan = "closed" /\ hostOnline = FALSE
      /\ toHost = <<>> /\ toGuest = <<>> /\ made = <<>>
  BY DEF Init
<1>. HIDE DEF t
<1>4. /\ DOMAIN slot = {"p1"} /\ slot["p1"] = seat
      /\ DOMAIN peers = {"local"} /\ peers["local"] = "p1"
  BY <1>2, <1>3 DEF Put
<1>5. /\ seat \in Slots /\ seat.peer = "local" /\ seat.token = t
      /\ id \in Identity /\ Stranger \in Identity
  BY <1>1 DEF Slots, Identity, Players, Stranger
<1>. HIDE DEF seat
<1>6. local = [now |-> id, kept |-> id]
  BY <1>3, <1>4, <1>5
<1>7. <<>> \in Histories /\ made \in Seq([by : Players, saw : Histories])
  BY <1>3, EmptySeq DEF Histories
<1>8. Tables(slot, peers)
  <2>1. PartialOn(slot, Players, Slots)
    BY <1>4, <1>5 DEF PartialOn, Players
  <2>2. PartialOn(peers, {"local", "guest"}, Players)
    BY <1>4 DEF PartialOn, Players
  <2>3. Agree(slot, peers)
    BY <1>4, <1>5 DEF Agree
  <2>4. QED
    BY <2>1, <2>2, <2>3 DEF Tables
<1>9. HostOK
  BY <1>3, <1>7, <1>8, SnapshotTaken DEF HostOK
<1>10. PagesOK
  <2>1. Client(guest)
    BY <1>3, <1>5, <1>7 DEF Client
  <2>2. session \in [id : Identity, view : Histories]
    BY <1>3, <1>5, <1>7
  <2>3. local \in [now : Identity, kept : Identity]
    BY <1>5, <1>6
  <2>4. QED
    BY <2>1, <2>2, <2>3 DEF PagesOK
<1>11. WiresOK
  BY <1>3, <1>4, <1>7, NothingInFlight DEF WiresOK
<1>12. GuestFollows
  BY <1>3 DEF GuestFollows
<1>13. Remembered
  <2>1. Known(id)
    BY <1>4, <1>5 DEF Known
  <2>2. Known(Stranger)
    BY DEF Known
  <2>3. local.kept = id /\ session.id = Stranger /\ guest.id = Stranger
    BY <1>3, <1>6
  <2>4. QED
    BY <1>3, <2>1, <2>2, <2>3 DEF Remembered
<1>14. QED
  BY <1>9, <1>10, <1>11, <1>12, <1>13 DEF AllOK

LEMMA SessionStep ==
  ASSUME SessionInv, InformedInv, [Next]_vars
  PROVE  SessionInv'
<1>1. ASSUME NEW remembered \in BOOLEAN, HostRestart(remembered) \/ Dial(remembered)
      PROVE  SessionInv'
  BY <1>1, HostRestartOK, DialOK
<1>2. CASE ChannelDies
  BY <1>2, ChannelDiesOK
<1>3. CASE HostSeesGuest \/ HostMissesGuest
  BY <1>3, PresenceOK
<1>4. CASE HostReceive
  BY <1>4, HostReceiveOK
<1>5. ASSUME NEW isReady \in BOOLEAN, HostReady(isReady) \/ GuestReady(isReady)
      PROVE  SessionInv'
  BY <1>5, HostReadyOK, GuestReadyOK
<1>6. CASE StartGame
  BY <1>6, StartGameOK
<1>7. CASE HostPlays
  BY <1>7, HostPlaysOK
<1>8. CASE GuestAsks
  BY <1>8, GuestAsksOK
<1>9. CASE GuestPlays
  BY <1>9, GuestPlaysOK
<1>10. CASE GuestReceive
  BY <1>10, GuestReceiveOK
<1>11. CASE UNCHANGED vars
  <2>1. AllOK /\ Remembered /\ GuestFollows
    BY Parts
  <2>2. UNCHANGED <<slot, peers, ready, game, stored, local, guest, session,
                    chan, hostOnline, toHost, toGuest, made>>
    BY <1>11 DEF vars
  <2>3. HostOK' /\ SavesHost /\ KeepsSeats
    BY <2>1, <2>2, HostRests DEF AllOK, hostVars
  <2>4. GuestFollows'
    BY <2>1, <2>2, UntoldFollows
  <2>5. QED
    BY <2>1, <2>2, <2>3, <2>4, ToldOK DEF AllOK, WiresOK
<1>12. QED
  BY <1>1, <1>2, <1>3, <1>4, <1>5, <1>6, <1>7, <1>8, <1>9, <1>10, <1>11 DEF Next

(* The strengthened invariant of the session: the host's tables and its    *)
(* snapshot, the guest and what is under way to it always fit together.    *)
THEOREM SessionInvHolds == Spec => [](SessionInv /\ InformedInv)
<1>1. Spec => []InformedInv
  BY InformedInvHolds
<1>2. Init => SessionInv
  BY SessionInit
<1>3. InformedInv /\ SessionInv /\ [Next]_vars => SessionInv'
  BY SessionStep
<1>4. QED
  BY <1>1, <1>2, <1>3, PTL DEF Spec

(* The variables keep their types: every message is one its receiver       *)
(* understands, every seat has a token that random choice still provides.  *)
THEOREM TypeCorrect == Spec => []TypeOK
<1>1. SessionInv => TypeOK
  BY DEF SessionInv
<1>2. QED
  BY <1>1, SessionInvHolds, PTL

(* handleJoinRequest, bindPeer and the restoration keep playersByPlayerId  *)
(* and peersByPeerId inverse to each other.                                *)
THEOREM PeersAlwaysAgree == Spec => []PeersAgree
<1>1. SessionInv => PeersAgree
  BY DEF SessionInv
<1>2. QED
  BY <1>1, SessionInvHolds, PTL

\* What precedes the place i of a queue and shows something last.
LEMMA LastShown ==
  ASSUME NEW q, NEW v, NEW i, NEW x, ShowsBefore(q, v, i, x)
  PROVE  LET earlier == {j \in 1..i-1 : Shows(q[j])}
             last == CHOOSE j \in earlier : \A k \in earlier : k <= j
         IN  x = IF earlier = {} THEN v ELSE q[last].view
<1>. DEFINE earlier == {j \in 1..i-1 : Shows(q[j])}
            last == CHOOSE j \in earlier : \A k \in earlier : k <= j
<1>1. CASE x = v /\ \A j \in 1..i-1 : ~Shows(q[j])
  BY <1>1
<1>2. ASSUME NEW j \in 1..i-1, Shows(q[j]), q[j].view = x,
             \A k \in 1..i-1 : k > j => ~Shows(q[k])
      PROVE  earlier # {} /\ q[last].view = x
  <2>1. j \in earlier /\ \A k \in earlier : k <= j
    BY <1>2
  <2>2. last \in earlier /\ \A k \in earlier : k <= last
    BY <2>1
  <2>3. last = j
    <3>1. last <= j /\ j <= last /\ last \in Int /\ j \in Int
      BY <1>2, <2>1, <2>2
    <3>. HIDE DEF last
    <3>2. QED
      BY <3>1
  <2>4. QED
    BY <1>2, <2>1, <2>3
<1>3. QED
  BY <1>1, <1>2 DEF ShowsBefore

(* The continuity check of ClientRuntime's applyState never fails: the     *)
(* views on their way to the guest continue what it shows when they come.  *)
THEOREM NeverAGap == Spec => []NoGaps
<1>1. ASSUME SessionInv
      PROVE  NoGaps
  <2>1. AllOK /\ GuestFollows
    BY <1>1, Parts
  <2>2. SUFFICES ASSUME NEW i \in DOMAIN toGuest,
                        toGuest[i].type = "view", toGuest[i].prev # <<>>
                 PROVE  LET earlier == {j \in 1..i-1 : Shows(toGuest[j])}
                            last == CHOOSE j \in earlier : \A k \in earlier : k <= j
                        IN  toGuest[i].prev = IF earlier = {} THEN guest.view ELSE toGuest[last].view
    BY DEF NoGaps, Shows
  <2>3. toGuest # <<>>
    <3>1. DOMAIN <<>> = {}
      BY EmptyRange, QueueDomain
    <3>2. QED
      BY <3>1, <2>2
  <2>4. chan = "open" /\ "guest" \in DOMAIN peers
    BY <2>1, <2>3 DEF AllOK, WiresOK, GuestFollows
  <2>5. ShowsBefore(toGuest, guest.view, i, toGuest[i].prev)
    BY <2>1, <2>2, <2>4 DEF GuestFollows, Follows
  <2>6. QED
    BY <2>5, LastShown
<1>2. QED
  BY <1>1, SessionInvHolds, PTL

(* A guest back in the game on this connection sees a beginning of it, and *)
(* the present game once it counts as present and nothing is under way.    *)
THEOREM GuestAlwaysSeesGame == Spec => []GuestSeesGame
<1>1. ASSUME SessionInv
      PROVE  GuestSeesGame
  <2>1. AllOK /\ GuestFollows
    BY <1>1, Parts
  <2>2. ASSUME "guest" \in DOMAIN peers, chan = "open"
        PROVE  /\ guest.playing => guest.view = SubSeq(game, 1, Len(guest.view))
               /\ slot[peers["guest"]].connected /\ toHost = <<>> /\ toGuest = <<>> =>
                    /\ guest.id = [seat |-> peers["guest"], token |-> slot[peers["guest"]].token]
                    /\ game # <<>> => guest.playing /\ guest.view = game
    <3>1. Follows(toGuest, guest, game, GuestSeat, slot[peers["guest"]].connected)
      BY <2>1, <2>2 DEF GuestFollows
    <3>2. guest.playing => guest.view = SubSeq(game, 1, Len(guest.view))
      BY <3>1 DEF Follows, Beginning
    <3>3. ASSUME toGuest = <<>>
          PROVE  guest.id = [seat |-> peers["guest"], token |-> slot[peers["guest"]].token]
      BY <3>1, <3>3 DEF Follows, GuestSeat
    <3>4. ASSUME slot[peers["guest"]].connected, toGuest = <<>>, game # <<>>
          PROVE  guest.playing /\ guest.view = game
      <4>1. DOMAIN toGuest = {} /\ Len(toGuest) = 0
        BY <3>4, EmptyRange, QueueDomain
      <4>2. ShowsBefore(toGuest, guest.view, Len(toGuest) + 1, game) /\ guest.playing
        BY <3>1, <3>4, <4>1 DEF Follows
      <4>3. \A j \in 1..(Len(toGuest) + 1) - 1 : FALSE
        BY <4>1
      <4>4. QED
        BY <4>2, <4>3 DEF ShowsBefore
    <3>5. QED
      BY <3>2, <3>3, <3>4
  <2>3. QED
    BY <2>2 DEF GuestSeesGame
<1>2. QED
  BY <1>1, SessionInvHolds, PTL

(* Where storage works, whoever was given a seat finds its token in the    *)
(* snapshot that the host would be restored from.                          *)
THEOREM SeatsStayResumable == Spec => []ResumableSeats
<1>1. ASSUME SessionInv
      PROVE  ResumableSeats
  <2>1. ASSUME ~SavesFail, NEW id \in {local.kept, session.id}, id # Stranger
        PROVE  id.seat \in DOMAIN stored.token /\ stored.token[id.seat] = id.token
    <3>1. Known(id) /\ stored = Snapshot([slot |-> slot, ready |-> ready], game)
      BY <1>1, <2>1 DEF SessionInv, Remembered
    <3>2. stored.token = [p \in DOMAIN slot |-> slot[p].token]
      BY <3>1 DEF Snapshot
    <3>3. QED
      BY <2>1, <3>1, <3>2 DEF Known
  <2>2. QED
    BY <2>1 DEF ResumableSeats
<1>2. QED
  BY <1>1, SessionInvHolds, PTL
=============================================================================
