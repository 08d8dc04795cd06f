----------------------------- MODULE P2PSession -----------------------------
(***************************************************************************)
(* An offline room: the HostRuntime in the host's page, the host's own     *)
(* player beside it, and a guest's ClientRuntime at the other end of a     *)
(* WebRTC data channel (packages/p2p/src, packages/client/src/p2p).        *)
(*                                                                         *)
(* The host's player sits on an in-memory transport: its messages and the  *)
(* answers are handled within the call, so it always sees the present game *)
(* and its operations are one step.  The channel to the guest is ordered   *)
(* and loses nothing until it dies with all that is in flight; the ICE     *)
(* state, which the host takes for the presence of the guest, comes and    *)
(* goes by itself.  After a failure the host's page is opened again, from  *)
(* its snapshot, and the guest dials the new offer from its own session.   *)
(*                                                                         *)
(* A game is its history: <<>> before the start, then 0 for the deal and   *)
(* the moves.  A history stands for the state it leads to, for a player's  *)
(* view of that state and for the view's hash; the stateVersion is its     *)
(* length less one.  LOBBY_STATE, ACTION_ACCEPTED, PLAYER_... and ERROR    *)
(* messages, which only inform the user, are left out.                     *)
(***************************************************************************)
EXTENDS Naturals, Sequences, FiniteSets, Functions

CONSTANTS
  MaxMoves,      \* bound: how many moves the players ever send
  MaxQueue,      \* bound: requests in flight before a user sends another
  Tokens,        \* reconnect tokens
  SavesFail      \* localStorage may refuse to store (safeSet ignores it)

Players == {"p1", "p2"}
Nobody == "nobody"
NoToken == 0

ASSUME P2PAssumption ==
  /\ MaxMoves \in Nat /\ MaxQueue \in Nat
  /\ Tokens \subseteq Nat \ {NoToken}
  /\ SavesFail \in BOOLEAN

\* Random tokens do not run out: at most nine are held at a time.
ASSUME TokensAssumption == IsFiniteSet(Tokens) => Cardinality(Tokens) >= 10

VARIABLES
  slot,          \* playersByPlayerId: peer ("" for null), token, connected
  peers,         \* peersByPeerId: the seat of "local" and of "guest"
  ready,         \* lobbyReady, as the set of the ready
  game,          \* the history of engineState; <<>> for null
  stored,        \* the host's snapshot in localStorage
  local,         \* the host's player: who it is now, and who it has stored it is
  guest,         \* the guest's ClientRuntime
  session,       \* the guest's session in its localStorage
  chan,          \* the data channel
  hostOnline,    \* the host's endpoint sees the guest online
  toHost, toGuest,   \* messages in flight
  made           \* history: made[m] is who sent move m, seeing which game

hostVars == <<slot, peers, ready, game, stored>>
vars == <<slot, peers, ready, game, stored, local, guest, session,
          chan, hostOnline, toHost, toGuest, made>>

Moves == 1..MaxMoves
Histories == Seq(Moves \cup {0})

Identity == [seat : Players \cup {Nobody}, token : Tokens \cup {NoToken}]
Stranger == [seat |-> Nobody, token |-> NoToken]

\* Map.set: f with x mapped to y
Put(f, x, y) == [z \in DOMAIN f \cup {x} |-> IF z = x THEN y ELSE f[z]]

PartialOn(f, S, T) == DOMAIN f \subseteq S /\ \A x \in DOMAIN f : f[x] \in T

HostMessage(m) ==
  \/ m.type = "join" /\ m.id \in Identity
  \/ m.type \in {"ready", "unready", "sync"} /\ m.seat \in Players
  \/ m.type = "intent" /\ m.move \in DOMAIN made

GuestMessage(m) ==
  \/ m.type = "accept" /\ m.id \in Identity
  \/ m.type = "start" /\ m.id \in Identity /\ m.view \in Histories
  \/ m.type = "view" /\ m.view \in Histories /\ m.prev \in Histories
  \/ m.type = "synced" /\ m.view \in Histories
  \/ m.type = "rejected"

TypeOK ==
  /\ PartialOn(slot, Players,
       [peer : {"", "local", "guest"}, token : Tokens, connected : BOOLEAN])
  /\ PartialOn(peers, {"local", "guest"}, Players)
  /\ ready \subseteq Players
  /\ game \in Histories
  /\ PartialOn(stored.token, Players, Tokens)
  /\ stored.ready \subseteq Players /\ stored.game \in Histories
  /\ local \in [now : Identity, kept : Identity]
  /\ guest \in [id : Identity, resume : Identity, view : Histories, playing : BOOLEAN]
  /\ session \in [id : Identity, view : Histories]
  /\ chan \in {"closed", "open", "dead"} /\ hostOnline \in BOOLEAN
  /\ \A i \in DOMAIN toHost : HostMessage(toHost[i])
  /\ \A i \in DOMAIN toGuest : GuestMessage(toGuest[i])
  /\ made \in Seq([by : Players, saw : Histories])

-----------------------------------------------------------------------------
\* What a cell of localStorage may hold once value has been saved to it.
Saved(cell, value) == IF SavesFail THEN {cell, value} ELSE {value}

Snapshot(h, g) ==
  [token |-> [p \in DOMAIN h.slot |-> h.slot[p].token], ready |-> h.ready, game |-> g]

\* emitSnapshotChanged, at the end of a handler
EmitSnapshotChanged == stored' \in Saved(stored, Snapshot([slot |-> slot', ready |-> ready'], game'))

\* createReconnectToken: one nobody has
NewToken ==
  CHOOSE t \in Tokens :
    /\ \A p \in DOMAIN slot : slot[p].token # t
    /\ \A p \in DOMAIN stored.token : stored.token[p] # t
    /\ t \notin {local.now.token, local.kept.token, guest.id.token,
                 guest.resume.token, session.id.token}

(* handleJoinRequest, of the host h = [slot, peers, ready] and a game g:   *)
(* the host after a request of peer q to be id.                            *)
BindPeer(h, p, q) ==
  [slot |-> [h.slot EXCEPT ![p] = [peer |-> q, token |-> @.token, connected |-> TRUE]],
   peers |-> Put(Restrict(h.peers, DOMAIN h.peers \ {h.slot[p].peer}), q, p),
   ready |-> h.ready]

\* Mutant: any seat will do.
FreeSeatsAll(h) == Players

FreeSeats(h) == Players \ DOMAIN h.slot

\* allocatePlayerId: the seat asked for, or the first free one
AllocatePlayerId(h, seat) ==
  IF seat \in FreeSeats(h) THEN seat
  ELSE IF "p1" \in FreeSeats(h) THEN "p1" ELSE "p2"

Resumes(h, id) == id.seat \in DOMAIN h.slot /\ h.slot[id.seat].token = id.token

Joined(h, q, id, g) ==
  IF q \in DOMAIN h.peers THEN h
  ELSE IF Resumes(h, id) THEN BindPeer(h, id.seat, q)
  ELSE IF g # <<>> \/ FreeSeats(h) = {} THEN h
  ELSE LET p == AllocatePlayerId(h, id.seat)
           free == [peer |-> "", token |-> NewToken, connected |-> FALSE]
       IN  BindPeer([slot |-> Put(h.slot, p, free), peers |-> h.peers, ready |-> h.ready \ {p}],
                    p, q)

Welcome(h, q) ==
  IF q \in DOMAIN h.peers
  THEN [seat |-> h.peers[q], token |-> h.slot[h.peers[q]].token]
  ELSE Stranger

-----------------------------------------------------------------------------
\* The host's page as its session creates or restores it: the host's player,
\* who resumes as id, has joined at once.
OpenHost(before, id, asked, g) ==
  LET h == Joined(before, "local", asked, g)
      accepted == "local" \in DOMAIN h.peers
      now == IF accepted THEN Welcome(h, "local") ELSE id
  IN  /\ slot' = h.slot /\ peers' = h.peers /\ ready' = h.ready /\ game' = g
      /\ stored' \in IF accepted THEN Saved(stored, Snapshot(h, g)) ELSE {stored}
      /\ \E kept \in IF accepted THEN Saved(local.kept, now) ELSE {local.kept} :
            local' = [now |-> now, kept |-> kept]
      /\ chan' = "closed" /\ hostOnline' = FALSE
      /\ toHost' = <<>> /\ toGuest' = <<>>

\* A new room, whose snapshot and session have been saved.
Init ==
  /\ slot = Put(<<>>, "p1", [peer |-> "local", token |-> CHOOSE t \in Tokens : TRUE, connected |-> TRUE])
  /\ peers = Put(<<>>, "local", "p1")
  /\ ready = {}
  /\ game = <<>>
  /\ stored = Snapshot([slot |-> slot, ready |-> ready], game)
  /\ local = [now |-> [seat |-> "p1", token |-> slot["p1"].token],
              kept |-> [seat |-> "p1", token |-> slot["p1"].token]]
  /\ guest = [id |-> Stranger, resume |-> Stranger, view |-> <<>>, playing |-> FALSE]
  /\ session = [id |-> Stranger, view |-> <<>>]
  /\ chan = "closed" /\ hostOnline = FALSE
  /\ toHost = <<>> /\ toGuest = <<>>
  /\ made = <<>>

(* The host's page is closed, or dies, and is restored from the snapshot.  *)
(* The host's own session is kept under a key that the browser also uses   *)
(* when it is somebody's guest: it may be gone.                            *)
HostRestart(remembered) ==
  /\ DOMAIN stored.token # {}
  /\ remembered => local.kept # Stranger
  /\ OpenHost([slot |-> [p \in DOMAIN stored.token |->
                          [peer |-> "", token |-> stored.token[p], connected |-> FALSE]],
               peers |-> <<>>,
               ready |-> stored.ready],
              IF remembered THEN local.kept ELSE Stranger,
              IF remembered THEN local.kept ELSE [Stranger EXCEPT !.seat = "p1"],
              stored.game)
  /\ UNCHANGED <<guest, session, made>>

(* The guest's page takes the offer and its answer gets to the host: a new *)
(* ClientRuntime, from the session if there is one, whose first request    *)
(* waits for the channel to open.                                          *)
Dial(remembered) ==
  /\ chan = "closed"
  /\ remembered => session.id # Stranger
  /\ LET resume == IF remembered THEN session ELSE [id |-> Stranger, view |-> <<>>]
     IN  /\ guest' = [id |-> resume.id, resume |-> resume.id,
                      view |-> resume.view, playing |-> FALSE]
         /\ session' = resume
         /\ toHost' = <<[type |-> "join", id |-> resume.id]>>
  /\ chan' = "open"
  /\ UNCHANGED <<hostVars, local, hostOnline, toGuest, made>>

ChannelDies ==
  /\ chan = "open"
  /\ chan' = "dead"
  /\ toHost' = <<>> /\ toGuest' = <<>>
  /\ UNCHANGED <<hostVars, local, guest, session, hostOnline, made>>

-----------------------------------------------------------------------------
\* What the host sends the guest.  send() to a channel that is not open waits
\* for one that never opens again.
SendGuest(messages) ==
  toGuest' = IF chan = "open" THEN toGuest \o messages ELSE toGuest

Synced == IF game = <<>> THEN <<>> ELSE <<[type |-> "synced", view |-> game]>>

\* handlePeerReconnected and handlePeerDisconnected: of a peer without a seat
\* there is nothing to do.
Presence(online) ==
  /\ hostOnline' = online
  /\ IF "guest" \in DOMAIN peers
     THEN /\ slot' = [slot EXCEPT ![peers["guest"]].connected = online]
          /\ UNCHANGED <<peers, ready, game>>
          /\ EmitSnapshotChanged
     ELSE UNCHANGED hostVars
  /\ UNCHANGED <<local, guest, session, chan, toHost, made>>

\* Mutant: a player whose connection is back is not sent the state.
HostSeesGuestSilently ==
  /\ chan = "open" /\ ~hostOnline /\ Len(toGuest) < MaxQueue
  /\ Presence(TRUE)
  /\ UNCHANGED toGuest

HostSeesGuest ==
  /\ chan = "open" /\ ~hostOnline /\ Len(toGuest) < MaxQueue
  /\ Presence(TRUE)
  /\ IF "guest" \in DOMAIN peers THEN SendGuest(Synced) ELSE UNCHANGED toGuest

HostMissesGuest ==
  /\ chan \in {"open", "dead"} /\ hostOnline
  /\ Presence(FALSE)
  /\ UNCHANGED toGuest

-----------------------------------------------------------------------------
\* What is answered to a request to join that is granted.
JoinAnswersUnsynced(h, q) == <<[type |-> "accept", id |-> Welcome(h, q)]>>

JoinAnswers(h, q) == <<[type |-> "accept", id |-> Welcome(h, q)]>> \o Synced

\* Mutant: the snapshot is not saved when a player joins.
HandleJoinRequestUnsaved(m) ==
  LET h == Joined([slot |-> slot, peers |-> peers, ready |-> ready], "guest", m.id, game)
  IN  /\ slot' = h.slot /\ peers' = h.peers /\ ready' = h.ready
      /\ UNCHANGED <<game, stored>>
      /\ SendGuest(IF "guest" \in DOMAIN h.peers THEN JoinAnswers(h, "guest") ELSE <<>>)

(* handleJoinRequest of the guest: a peer that has a seat is told so again *)
(* (requests are repeated until one is answered), others are seated if     *)
(* they bring a seat's token or find one free before the game.             *)
HandleJoinRequest(m) ==
  LET h == Joined([slot |-> slot, peers |-> peers, ready |-> ready], "guest", m.id, game)
  IN  /\ slot' = h.slot /\ peers' = h.peers /\ ready' = h.ready
      /\ UNCHANGED game
      /\ IF peers' = peers THEN UNCHANGED stored ELSE EmitSnapshotChanged
      /\ SendGuest(IF "guest" \in DOMAIN h.peers THEN JoinAnswers(h, "guest") ELSE <<>>)

\* handleLobbyReady of peer q
LobbyReady(q, seat, isReady) ==
  /\ UNCHANGED <<slot, peers, game>>
  /\ IF q \in DOMAIN peers /\ game = <<>> /\ peers[q] = seat
     THEN /\ ready' = IF isReady THEN ready \cup {seat} ELSE ready \ {seat}
          /\ EmitSnapshotChanged
     ELSE UNCHANGED <<ready, stored>>

\* Mutant: whatever its sender saw, a move is taken.
IsFreshAlways(move) == TRUE

IsFresh(move) == made[move].saw = game

\* sendViewsToPlayers: a player who counts as disconnected is passed over.
PushView ==
  IF \E p \in DOMAIN slot : slot[p].peer = "guest" /\ slot[p].connected
  THEN SendGuest(<<[type |-> "view", view |-> game', prev |-> game]>>)
  ELSE UNCHANGED toGuest

\* Mutant: the snapshot is not saved after a move.
AcceptMoveUnsaved(move) ==
  /\ game' = Append(game, move)
  /\ PushView
  /\ UNCHANGED <<slot, peers, ready, stored>>

\* handleActionIntent, of an intent the engine accepts
AcceptMove(move) ==
  /\ game' = Append(game, move)
  /\ PushView
  /\ UNCHANGED <<slot, peers, ready>>
  /\ EmitSnapshotChanged

(* handleActionIntent of the guest.  Out of place, or sent on a view that  *)
(* is not the present one, it is rejected with the advice to synchronise;  *)
(* of another's seat, or when the rules forbid it, it is just rejected.    *)
HandleActionIntent(move) ==
  IF "guest" \notin DOMAIN peers \/ game = <<>>
  THEN SendGuest(<<[type |-> "rejected"]>>) /\ UNCHANGED hostVars
  ELSE IF peers["guest"] # made[move].by
  THEN UNCHANGED <<hostVars, toGuest>>
  ELSE IF ~IsFresh(move)
  THEN SendGuest(<<[type |-> "rejected"]>>) /\ UNCHANGED hostVars
  ELSE AcceptMove(move) \/ UNCHANGED <<hostVars, toGuest>>

HandleSyncRequest(seat) ==
  /\ SendGuest(IF "guest" \in DOMAIN peers /\ peers["guest"] = seat THEN Synced ELSE <<>>)
  /\ UNCHANGED hostVars

\* handleEnvelope of the host, of what the guest sent first
HostReceive ==
  /\ toHost # <<>>
  /\ toHost' = Tail(toHost)
  /\ LET m == Head(toHost)
     IN  \/ m.type = "join" /\ HandleJoinRequest(m)
         \/ /\ m.type \in {"ready", "unready"}
            /\ LobbyReady("guest", m.seat, m.type = "ready")
            /\ UNCHANGED toGuest
         \/ m.type = "intent" /\ HandleActionIntent(m.move)
         \/ m.type = "sync" /\ HandleSyncRequest(m.seat)
  /\ UNCHANGED <<local, guest, session, chan, hostOnline, made>>

-----------------------------------------------------------------------------
LocalBound == "local" \in DOMAIN peers /\ peers["local"] = local.now.seat

HostReady(isReady) ==
  /\ LocalBound
  /\ LobbyReady("local", local.now.seat, isReady)
  /\ UNCHANGED <<local, guest, session, chan, hostOnline, toHost, toGuest, made>>

\* hasBothPlayers and areAllPlayersReady
CanStart == DOMAIN slot = Players /\ ready = Players

\* handleStartGameRequest of the host's player, granted: hostPlayerId is p1.
StartGame ==
  /\ LocalBound /\ local.now.seat = "p1"
  /\ game = <<>>
  /\ CanStart
  /\ game' = <<0>>
  /\ LET start(p) == <<[type |-> "start", id |-> [seat |-> p, token |-> slot[p].token],
                        view |-> game'],
                       [type |-> "view", view |-> game', prev |-> <<>>]>>
     IN  SendGuest(IF "guest" \in DOMAIN peers THEN start(peers["guest"]) ELSE <<>>)
  /\ UNCHANGED <<slot, peers, ready>>
  /\ EmitSnapshotChanged
  /\ UNCHANGED <<local, guest, session, chan, hostOnline, toHost, made>>

\* A move of the host's player, who sees the present game.
HostPlays ==
  /\ LocalBound /\ game # <<>> /\ Len(made) < MaxMoves
  /\ made' = Append(made, [by |-> local.now.seat, saw |-> game])
  /\ AcceptMove(Len(made'))
  /\ UNCHANGED <<local, guest, session, chan, hostOnline, toHost>>

-----------------------------------------------------------------------------
GuestVars == <<hostVars, local, chan, hostOnline>>

GuestSends(m) == toHost' = Append(toHost, m)

\* startJoinRetry: on the timer, and whenever the connection comes back
GuestAsks ==
  /\ chan = "open" /\ Len(toHost) < MaxQueue /\ Len(toGuest) < MaxQueue
  /\ GuestSends([type |-> "join", id |-> guest.resume])
  /\ UNCHANGED <<GuestVars, guest, session, toGuest, made>>

GuestReady(isReady) ==
  /\ chan = "open" /\ Len(toHost) < MaxQueue
  /\ guest.id.seat # Nobody /\ ~guest.playing
  /\ GuestSends([type |-> IF isReady THEN "ready" ELSE "unready", seat |-> guest.id.seat])
  /\ UNCHANGED <<GuestVars, guest, session, toGuest, made>>

GuestPlays ==
  /\ chan = "open" /\ Len(toHost) < MaxQueue
  /\ guest.playing /\ Len(made) < MaxMoves
  /\ made' = Append(made, [by |-> guest.id.seat, saw |-> guest.view])
  /\ GuestSends([type |-> "intent", move |-> Len(made')])
  /\ UNCHANGED <<GuestVars, guest, session, toGuest>>

\* persist
Persist == session' \in Saved(session, [id |-> guest'.id, view |-> guest'.view])

\* applyState: a view that does not continue the one held is not taken.
ApplyState(view) == guest' = [guest EXCEPT !.view = view, !.playing = TRUE]

Continuous(m) == guest.view = <<>> \/ m.prev = <<>> \/ m.prev = guest.view

RequestSync ==
  /\ GuestSends([type |-> "sync", seat |-> guest.id.seat])
  /\ UNCHANGED <<guest, session>>

\* handleEnvelope of the guest's ClientRuntime
GuestReceive ==
  /\ toGuest # <<>>
  /\ toGuest' = Tail(toGuest)
  /\ LET m == Head(toGuest)
     IN  \/ /\ m.type = "accept"
            /\ guest' = [guest EXCEPT !.id = m.id]
            /\ Persist /\ UNCHANGED toHost
         \/ /\ m.type = "start"
            /\ guest' = [guest EXCEPT !.id = m.id, !.view = m.view, !.playing = TRUE]
            /\ Persist /\ UNCHANGED toHost
         \/ /\ m.type = "view"
            /\ IF Continuous(m)
               THEN ApplyState(m.view) /\ Persist /\ UNCHANGED toHost
               ELSE RequestSync
         \/ m.type = "synced" /\ ApplyState(m.view) /\ Persist /\ UNCHANGED toHost
         \/ m.type = "rejected" /\ RequestSync
  /\ UNCHANGED <<GuestVars, made>>

-----------------------------------------------------------------------------
Next ==
  \/ \E remembered \in BOOLEAN : HostRestart(remembered) \/ Dial(remembered)
  \/ ChannelDies \/ HostSeesGuest \/ HostMissesGuest
  \/ HostReceive
  \/ \E isReady \in BOOLEAN : HostReady(isReady) \/ GuestReady(isReady)
  \/ StartGame \/ HostPlays
  \/ GuestAsks \/ GuestPlays
  \/ GuestReceive

Spec == Init /\ [][Next]_vars

\* An open channel delivers.
FairSpec == Spec /\ WF_vars(HostReceive) /\ WF_vars(GuestReceive)

-----------------------------------------------------------------------------
(* The host's two tables agree: every peer is bound to one seat that names *)
(* it, and no seat names a peer that is bound elsewhere.  Joins repeated,  *)
(* resumed and contended never put two peers on a seat or one on two.      *)
PeersAgree ==
  /\ \A q \in DOMAIN peers : peers[q] \in DOMAIN slot /\ slot[peers[q]].peer = q
  /\ \A p \in DOMAIN slot : slot[p].peer # "" =>
       slot[p].peer \in DOMAIN peers /\ peers[slot[p].peer] = p

(* The guest, once back in the game on this connection, sees a beginning   *)
(* of the host's game, never another line of it that the host lost when it *)
(* was restored.  When the host counts it present and nothing is under way *)
(* between them, it sees the present game and knows its own seat.          *)
GuestSeesGame ==
  "guest" \in DOMAIN peers /\ chan = "open" =>
    LET p == peers["guest"]
    IN  /\ guest.playing => guest.view = SubSeq(game, 1, Len(guest.view))
        /\ slot[p].connected /\ toHost = <<>> /\ toGuest = <<>> =>
             /\ guest.id = [seat |-> p, token |-> slot[p].token]
             /\ game # <<>> => guest.playing /\ guest.view = game

(* On one connection a view always continues the one before it, across     *)
(* absences, repeated joins and restorations: the guest's continuity check *)
(* never fails, and it synchronises only after a stale intent.             *)
NoGaps ==
  \A i \in DOMAIN toGuest : toGuest[i].type = "view" /\ toGuest[i].prev # <<>> =>
    LET earlier == {j \in 1..i-1 : toGuest[j].type \in {"start", "view", "synced"}}
        last == CHOOSE j \in earlier : \A k \in earlier : k <= j
    IN  toGuest[i].prev = IF earlier = {} THEN guest.view ELSE toGuest[last].view

\* Every move of the line g was made looking at what precedes it in g, by
\* the record ms of the moves made.
Informed(ms, g) ==
  \A i \in 2..Len(g) : g[i] \in DOMAIN ms /\ ms[g[i]].saw = SubSeq(g, 1, i - 1)

(* A move in the game was made by the player of its seat looking at just   *)
(* the game it was added to: a click on a board that has meanwhile changed *)
(* is never played, not even after the host has lost moves and goes on     *)
(* from an older snapshot.                                                 *)
InformedMoves == Informed(made, game)

(* Whoever has been given a seat can come back to it after any failure: the *)
(* snapshot the host would be restored from knows the session's token.     *)
ResumableSeats ==
  ~SavesFail =>
    \A id \in {local.kept, session.id} : id # Stranger =>
      id.seat \in DOMAIN stored.token /\ stored.token[id.seat] = id.token

(* As long as storage works there is one game that only grows, restarts of *)
(* the host's page included.                                               *)
Shared == INSTANCE SharedGame

ImplementsSharedGame == Shared!GameSpec

\* A history that begins with the deal, informed by the moves made
Line(ms, g) ==
  /\ g \in Histories
  /\ g # <<>> => g[1] = 0
  /\ Informed(ms, g)

(* The inductive invariant behind InformedMoves and ImplementsSharedGame:  *)
(* the line the host would go back to is informed too, and an intent in    *)
(* flight is of a move that has been made.                                 *)
InformedInv ==
  /\ made \in Seq(Range(made)) /\ Len(made) <= MaxMoves
  /\ Line(made, game) /\ Line(made, stored.game)
  /\ toHost \in Seq(Range(toHost))
  /\ \A m \in Range(toHost) : m.type = "intent" => m.move \in DOMAIN made
  /\ ~SavesFail => stored.game = game

\* What the guest's ClientRuntime takes for its seat, and what for the game.
Names(m) == m.type \in {"accept", "start"}
Shows(m) == m.type \in {"start", "view", "synced"}

\* x is what a guest who shows v will show when it comes to the place i of
\* the queue q.
ShowsBefore(q, v, i, x) ==
  \/ x = v /\ \A j \in 1..i-1 : ~Shows(q[j])
  \/ \E j \in 1..i-1 : /\ Shows(q[j]) /\ q[j].view = x
                       /\ \A k \in 1..i-1 : k > j => ~Shows(q[k])

Beginning(v, g) == Len(v) <= Len(g) /\ v = SubSeq(g, 1, Len(v))

(* What has a seat and the messages q on their way to it follow the game g: *)
(* it hears who it is before it sees the game, sees beginnings of the game  *)
(* only, each the continuation of the one before, and, if it counts as      *)
(* present, at last the game as it is.                                      *)
Follows(q, client, g, id, present) ==
  /\ client.id = id \/ (q # <<>> /\ Names(q[1]))
  /\ client.playing => client.id = id /\ Beginning(client.view, g)
  /\ \A i \in DOMAIN q :
       /\ Names(q[i]) => q[i].id = id
       /\ Shows(q[i]) => Beginning(q[i].view, g)
       /\ q[i].type = "view" /\ q[i].prev # <<>> =>
            ShowsBefore(q, client.view, i, q[i].prev)
       /\ q[i].type = "rejected" => client.playing
  /\ present /\ g # <<>> =>
       /\ ShowsBefore(q, client.view, Len(q) + 1, g)
       /\ client.playing \/ \E i \in DOMAIN q : Shows(q[i])

\* Messages die with their channel; only who sees the game plays.
Channels ==
  /\ toHost \in Seq(Range(toHost)) /\ toGuest \in Seq(Range(toGuest))
  /\ chan # "open" => toHost = <<>> /\ toGuest = <<>>
  /\ chan = "closed" => "guest" \notin DOMAIN peers
  /\ \A i \in DOMAIN toHost : toHost[i].type = "intent" => guest.playing

GuestSeat == [seat |-> peers["guest"], token |-> slot[peers["guest"]].token]

GuestFollows ==
  chan = "open" =>
    IF "guest" \in DOMAIN peers
    THEN Follows(toGuest, guest, game, GuestSeat, slot[peers["guest"]].connected)
    ELSE ~guest.playing /\ toGuest = <<>>

\* An identity that leads back to its seat
Known(id) == id = Stranger \/ (id.seat \in DOMAIN slot /\ slot[id.seat].token = id.token)

\* With a storage that works the snapshot is up to date and nobody is lost.
Remembered ==
  ~SavesFail =>
    /\ stored = Snapshot([slot |-> slot, ready |-> ready], game)
    /\ Known(local.kept) /\ Known(session.id) /\ Known(guest.id)

(* The inductive invariant behind TypeOK, PeersAgree, NoGaps, GuestSeesGame *)
(* and ResumableSeats, together with InformedInv.                           *)
SessionInv == TypeOK /\ PeersAgree /\ Channels /\ GuestFollows /\ Remembered

(* A guest that holds a seat and stays connected gets to see every state   *)
(* of the game sooner or later.                                            *)
GuestCatchesUp ==
  \A n \in 1..MaxMoves + 1 :
    (hostOnline /\ chan = "open" /\ "guest" \in DOMAIN peers /\ Len(game) = n)
      ~> (Len(guest.view) >= n \/ ~hostOnline \/ chan # "open")
=============================================================================
