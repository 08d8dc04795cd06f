------------------------- MODULE OnlineRooms_proofs -------------------------
(***************************************************************************)
(* Proofs about OnlineRooms, for any number of browsers, sockets, rooms    *)
(* and tokens: who acts for a seat is whom it was given to, a newcomer     *)
(* meets a player who is there, the store and the game name the same       *)
(* sockets, and who counts as connected is, but for those whose own socket *)
(* has joined again.                                                       *)
(***************************************************************************)
EXTENDS OnlineRooms, SequenceTheorems, TLAPS

Fields == {"seat", "stage", "online", "addr"}
Stages == {"waiting", "playing", "finished"}

-----------------------------------------------------------------------------
(* Seats and tokens that are given out.                                    *)

LEMMA Issued ==
  ASSUME TypeOK, NEW b \in Browsers, Len(issued) < MaxTokens, issued' = Append(issued, b)
  PROVE  /\ issued' \in Seq(Browsers) /\ Len(issued') <= MaxTokens
         /\ Len(issued) + 1 \in Tokens /\ Len(issued) + 1 \notin DOMAIN issued
         /\ DOMAIN issued' = DOMAIN issued \cup {Len(issued) + 1}
         /\ \A t \in DOMAIN issued : issued'[t] = issued[t]
         /\ issued'[Len(issued) + 1] = b
         /\ Len(issued) \in Nat /\ Len(issued') = Len(issued) + 1
         /\ DOMAIN issued = 1..Len(issued)
<1>1. issued \in Seq(Browsers) /\ Len(issued) \in Nat /\ DOMAIN issued = 1..Len(issued)
  BY LenProperties DEF TypeOK
<1>2. /\ issued' \in Seq(Browsers) /\ Len(issued') = Len(issued) + 1
      /\ \A i \in 1..Len(issued) : issued'[i] = issued[i]
      /\ issued'[Len(issued) + 1] = b
  BY <1>1, AppendProperties
<1>3. DOMAIN issued' = 1..(Len(issued) + 1)
  BY <1>2, LenProperties
<1>4. QED
  BY <1>1, <1>2, <1>3, OnlineAssumption DEF Tokens

LEMMA Saved ==
  ASSUME NEW r, NEW room, SessionsSaved(r, room), NEW b \in DOMAIN session'
  PROVE  \/ b \in DOMAIN session /\ session'[b] = session[b]
         \/ /\ room.stage # "waiting"
            /\ \E p \in DOMAIN room.addr :
                 /\ b = BrowserOf[room.addr[p]]
                 /\ session'[b] = [room |-> r, player |-> p, token |-> room.seat[p].token]
<1>1. CASE room.stage = "waiting"
  BY <1>1 DEF SessionsSaved
<1>2. CASE room.stage # "waiting"
  <2>1. PICK told \in SUBSET DOMAIN room.addr :
          session' =
            [c \in DOMAIN session \cup {BrowserOf[room.addr[p]] : p \in told} |->
               IF \E p \in told : BrowserOf[room.addr[p]] = c
               THEN LET p == CHOOSE q \in told : BrowserOf[room.addr[q]] = c
                    IN  [room |-> r, player |-> p, token |-> room.seat[p].token]
               ELSE session[c]]
    BY <1>2 DEF SessionsSaved
  <2>2. CASE \E p \in told : BrowserOf[room.addr[p]] = b
    <3> DEFINE p == CHOOSE q \in told : BrowserOf[room.addr[q]] = b
    <3>1. p \in told /\ BrowserOf[room.addr[p]] = b
      BY <2>2
    <3>2. session'[b] = [room |-> r, player |-> p, token |-> room.seat[p].token]
      BY <2>1, <2>2
    <3> HIDE DEF p
    <3>3. QED
      BY <1>2, <3>1, <3>2
  <2>3. CASE ~(\E p \in told : BrowserOf[room.addr[p]] = b)
    BY <2>1, <2>3
  <2>4. QED
    BY <2>2, <2>3
<1>3. QED
  BY <1>1, <1>2

LEMMA Started ==
  ASSUME NEW room, DOMAIN room = Fields
  PROVE  LET next == StartGameIfReady(room)
         IN  /\ DOMAIN next = Fields /\ next.seat = room.seat
             /\ IsRoomFull(room) /\ room.stage = "waiting" =>
                  /\ next.stage = "playing" /\ next.online = Players
                  /\ next.addr = [p \in Players |-> room.seat[p].socket]
             /\ ~(IsRoomFull(room) /\ room.stage = "waiting") => next = room
BY DEF StartGameIfReady, Fields

-----------------------------------------------------------------------------
(* Rooms that only lose players: some go, of others a player goes offline  *)
(* or the match ends, and the sockets in S give up what they held.         *)
SameSeats(seat, next) == DOMAIN next = DOMAIN seat /\ \A p \in DOMAIN seat : next[p] = seat[p]

Lessen(S) ==
  /\ DOMAIN rooms' \subseteq DOMAIN rooms
  /\ \A q \in DOMAIN rooms' :
       /\ DOMAIN rooms'[q] = Fields /\ rooms'[q].stage \in Stages
       /\ SameSeats(rooms[q].seat, rooms'[q].seat) /\ rooms'[q].addr = rooms[q].addr
       /\ rooms'[q].online \subseteq rooms[q].online
       /\ rooms'[q].stage = "waiting" <=> rooms[q].stage = "waiting"
  /\ DOMAIN context' = DOMAIN context \ S
  /\ \A t \in DOMAIN context' : context'[t] = context[t]
  /\ \A t \in S, q \in DOMAIN rooms', p \in Players :
       Bound(t, q, p) => p \notin rooms'[q].online /\ (rooms[q].stage = "waiting" => p # "p1")
  /\ conn' \in [Sockets -> {"unused", "open", "closed"}]
  /\ \A t \in Sockets \ S : conn[t] = "open" => conn'[t] = "open"
  /\ DOMAIN session' \subseteq DOMAIN session
  /\ \A b \in DOMAIN session' : session'[b] = session[b]
  /\ UNCHANGED <<issued, since, forsaken>>

LEMMA Lessened ==
  ASSUME OnlineInv, NEW S \in SUBSET Sockets, Lessen(S)
  PROVE  OnlineInv'
<1> USE DEF Lessen, SameSeats
<1>seats. \A q \in DOMAIN rooms : /\ "p1" \in DOMAIN rooms[q].seat
                              /\ (rooms[q].stage # "waiting" => DOMAIN rooms[q].seat = Players)
                              /\ (rooms[q].stage = "waiting" => rooms[q].online = {})
                              /\ rooms[q].online \subseteq Players
  BY DEF OnlineInv, WaitingRooms, GamesFull, IsRoomFull, Players, TypeOK, IsRoomCtx
<1>1. TypeOK'
  <2>1. \A q \in DOMAIN rooms' : IsRoomCtx(rooms'[q])
    <3>1. TAKE q \in DOMAIN rooms'
    <3>2. IsRoomCtx(rooms[q]) /\ q \in DOMAIN rooms
      BY DEF OnlineInv, TypeOK
    <3>3. PartialOn(rooms'[q].seat, Players, Seats) /\ PartialOn(rooms'[q].addr, Players, Sockets)
      BY <3>2 DEF IsRoomCtx, PartialOn
    <3>4. QED
      BY <3>2, <3>3 DEF IsRoomCtx, Fields, Stages
  <2>2. QED
    BY <2>1 DEF OnlineInv, TypeOK, PartialOn
<1>2. SeatHolders'
  <2>1. ASSUME NEW t \in DOMAIN context', context'[t].room \in DOMAIN rooms'
        PROVE  LET q == context'[t].room
                   p == context'[t].player
               IN  \/ /\ p \in DOMAIN rooms'[q].seat
                      /\ issued'[rooms'[q].seat[p].token] = BrowserOf[t]
                   \/ since'[t] < rooms'[q].seat["p1"].token
    <3> DEFINE q == context[t].room
               p == context[t].player
    <3>1. /\ context'[t] = context[t] /\ q \in DOMAIN rooms /\ "p1" \in DOMAIN rooms[q].seat
          /\ SameSeats(rooms[q].seat, rooms'[q].seat)
      BY <1>seats, <2>1
    <3>2. \/ p \in DOMAIN rooms[q].seat /\ issued[rooms[q].seat[p].token] = BrowserOf[t]
          \/ since[t] < rooms[q].seat["p1"].token
      BY <2>1, <3>1 DEF OnlineInv, SeatHolders
    <3>3. QED
      BY <3>1, <3>2
  <2>2. QED
    BY <2>1 DEF SeatHolders
<1>3. WaitingRooms'
  <2>1. ASSUME NEW r \in DOMAIN rooms', rooms'[r].stage = "waiting"
        PROVE  LET s == rooms'[r].seat["p1"].socket
               IN  /\ DOMAIN rooms'[r].seat = {"p1"}
                   /\ conn'[s] = "open"
                   /\ s \in DOMAIN context' /\ context'[s].room = r
                   /\ context'[s].player = "p1"
                   /\ \A q \in DOMAIN rooms' : rooms'[q].stage = "waiting" => q = r
    <3> DEFINE s == rooms[r].seat["p1"].socket
    <3>1. /\ DOMAIN rooms[r].seat = {"p1"} /\ conn[s] = "open" /\ Bound(s, r, "p1")
          /\ \A q \in DOMAIN rooms : rooms[q].stage = "waiting" => q = r
          /\ DOMAIN rooms'[r].seat = {"p1"} /\ rooms'[r].seat["p1"] = rooms[r].seat["p1"]
      BY <2>1 DEF OnlineInv, WaitingRooms
    <3>2. s \in Sockets
      BY <3>1 DEF OnlineInv, TypeOK, PartialOn, Bound
    <3>3. s \notin S
      BY <2>1, <3>1 DEF Players
    <3> HIDE DEF s
    <3>4. /\ conn'[s] = "open" /\ s \in DOMAIN context'
          /\ context'[s].room = r /\ context'[s].player = "p1"
      BY <3>1, <3>2, <3>3 DEF Bound
    <3>5. \A q \in DOMAIN rooms' : rooms'[q].stage = "waiting" => q = r
      BY <3>1
    <3>6. QED
      BY <3>1, <3>4, <3>5 DEF s
  <2>2. QED
    BY <2>1 DEF WaitingRooms, Bound
<1>4. AddressesAgree'
  BY <1>seats DEF OnlineInv, AddressesAgree
<1>5. NoGhosts'
  <2>1. ASSUME NEW r \in DOMAIN rooms', NEW p \in rooms'[r].online,
               rooms'[r].seat[p].token \notin forsaken'
        PROVE  LET s == rooms'[r].addr[p]
               IN  /\ conn'[s] = "open" /\ s \in DOMAIN context'
                   /\ context'[s].room = r /\ context'[s].player = p
    <3> DEFINE s == rooms[r].addr[p]
    <3>old. /\ r \in DOMAIN rooms /\ p \in rooms[r].online /\ p \in DOMAIN rooms[r].seat
          /\ rooms[r].seat[p].token \notin forsaken /\ p \in Players
      BY <1>seats, <2>1
    <3>1. conn[s] = "open" /\ Bound(s, r, p) /\ rooms'[r].addr[p] = s /\ p \in Players
      BY <3>old DEF OnlineInv, NoGhosts, Forsaken
    <3>2. s \in Sockets /\ s \notin S
      BY <3>1 DEF OnlineInv, TypeOK, PartialOn, Bound
    <3> HIDE DEF s
    <3>3. QED
      BY <3>1, <3>2 DEF Bound
  <2>2. QED
    BY <2>1 DEF NoGhosts, Forsaken, Bound
<1>6. TokensKnown'
  BY DEF OnlineInv, TokensKnown
<1>7. TokensDiffer'
  BY DEF OnlineInv, TokensDiffer
<1>8. WaitersUntold'
  BY DEF OnlineInv, WaitersUntold
<1>9. GamesFull'
  BY DEF OnlineInv, GamesFull, IsRoomFull
<1>10. ContextsOpen'
  BY DEF OnlineInv, TypeOK, PartialOn, ContextsOpen
<1>11. QED
  BY <1>1, <1>2, <1>3, <1>4, <1>5, <1>6, <1>7, <1>8, <1>9, <1>10 DEF OnlineInv

LEMMA FinishGameStep ==
  ASSUME OnlineInv, NEW s \in Sockets, FinishGame(s)
  PROVE  OnlineInv'
<1> DEFINE r == context[s].room
<1>1. /\ r \in DOMAIN rooms /\ rooms[r].stage = "playing"
      /\ rooms' = [rooms EXCEPT ![r].stage = "finished"]
      /\ UNCHANGED <<conn, context, session, issued, since, forsaken>>
  BY DEF FinishGame, history
<1> HIDE DEF r
<1>2. \A q \in DOMAIN rooms : IsRoomCtx(rooms[q])
  BY DEF OnlineInv, TypeOK
<1>3. DOMAIN rooms' = DOMAIN rooms
  BY <1>1
<1>4. \A q \in DOMAIN rooms' :
        /\ DOMAIN rooms'[q] = Fields /\ rooms'[q].stage \in Stages
        /\ rooms'[q].seat = rooms[q].seat /\ rooms'[q].addr = rooms[q].addr
        /\ rooms'[q].online \subseteq rooms[q].online
        /\ rooms'[q].stage = "waiting" <=> rooms[q].stage = "waiting"
  BY <1>1, <1>2 DEF IsRoomCtx, Fields, Stages
<1>5. conn' \in [Sockets -> {"unused", "open", "closed"}]
  BY <1>1 DEF OnlineInv, TypeOK
<1>6. Lessen({})
  BY <1>1, <1>3, <1>4, <1>5 DEF Lessen, SameSeats
<1>7. QED
  BY <1>6, Lessened

LEMMA CleanupStep ==
  ASSUME OnlineInv, NEW idle \in SUBSET DOMAIN rooms, CleanupExpiredRooms(idle)
  PROVE  OnlineInv'
<1>1. /\ DOMAIN rooms' = DOMAIN rooms \ idle
      /\ \A q \in DOMAIN rooms' : rooms'[q] = rooms[q]
      /\ UNCHANGED <<conn, context, session, issued, since, forsaken>>
  BY DEF CleanupExpiredRooms, Without, Restrict, history
<1>2. \A q \in DOMAIN rooms' : DOMAIN rooms'[q] = Fields /\ rooms'[q].stage \in Stages
  BY <1>1 DEF OnlineInv, TypeOK, IsRoomCtx, Fields, Stages
<1>3. conn' \in [Sockets -> {"unused", "open", "closed"}]
  BY <1>1 DEF OnlineInv, TypeOK
<1>4. Lessen({})
  BY <1>1, <1>2, <1>3 DEF Lessen, SameSeats
<1>5. QED
  BY <1>4, Lessened

LEMMA LeaveEffect ==
  ASSUME OnlineInv, NEW s \in Sockets, HandleLeave(s)
  PROVE  /\ DOMAIN rooms' \subseteq DOMAIN rooms
         /\ \A q \in DOMAIN rooms' :
              /\ DOMAIN rooms'[q] = Fields /\ rooms'[q].stage \in Stages
              /\ SameSeats(rooms[q].seat, rooms'[q].seat) /\ rooms'[q].addr = rooms[q].addr
              /\ rooms'[q].online \subseteq rooms[q].online
              /\ rooms'[q].stage = "waiting" <=> rooms[q].stage = "waiting"
         /\ DOMAIN context' = DOMAIN context \ {s}
         /\ \A t \in DOMAIN context' : context'[t] = context[t]
         /\ \A q \in DOMAIN rooms', p \in Players :
              Bound(s, q, p) =>
                p \notin rooms'[q].online /\ (rooms[q].stage = "waiting" => p # "p1")
<1>1. /\ DOMAIN context' = DOMAIN context \ {s}
      /\ \A t \in DOMAIN context' : context'[t] = context[t]
  BY DEF HandleLeave, Without, Restrict
<1>2. \A q \in DOMAIN rooms : DOMAIN rooms[q] = Fields /\ rooms[q].stage \in Stages
  BY DEF OnlineInv, TypeOK, IsRoomCtx, Fields, Stages
<1> DEFINE r == context[s].room
           p0 == context[s].player
<1>3. CASE ~(s \in DOMAIN context /\ r \in DOMAIN rooms)
  <2>1. rooms' = rooms
    BY <1>3 DEF HandleLeave
  <2>2. QED
    BY <1>1, <1>2, <1>3, <2>1 DEF Bound, SameSeats
<1>4. CASE s \in DOMAIN context /\ r \in DOMAIN rooms /\ rooms[r].stage = "waiting"
  <2>1. rooms' = RemoveWaitingPlayer(r, p0)
    BY <1>4 DEF HandleLeave
  <2>2. DOMAIN rooms[r].seat = {"p1"} /\ rooms[r].online = {} /\ p0 \in Players
    BY <1>4 DEF OnlineInv, WaitingRooms, TypeOK, IsRoomCtx, PartialOn
  <2> DEFINE left == [rooms[r] EXCEPT !.seat = Without(@, {p0})]
  <2>3. left.seat = Without(rooms[r].seat, {p0})
    BY <1>2, <1>4 DEF Fields
  <2>4. CASE p0 = "p1"
    <3>1. DOMAIN left.seat = {}
      BY <2>2, <2>3, <2>4 DEF Without, Restrict
    <3>2. rooms' = Without(rooms, {r})
      BY <2>1, <3>1 DEF RemoveWaitingPlayer
    <3>3. DOMAIN rooms' = DOMAIN rooms \ {r} /\ \A q \in DOMAIN rooms' : rooms'[q] = rooms[q]
      BY <3>2 DEF Without, Restrict
    <3>4. QED
      BY <1>1, <1>2, <3>3 DEF Bound, SameSeats
  <2>5. CASE p0 = "p2"
    <3>1. DOMAIN left.seat = {"p1"} /\ left.seat["p1"] = rooms[r].seat["p1"]
      BY <2>2, <2>3, <2>5 DEF Without, Restrict
    <3>2. rooms' = [rooms EXCEPT ![r] = left]
      BY <2>1, <3>1 DEF RemoveWaitingPlayer
    <3>3. SameSeats(rooms[r].seat, left.seat)
      BY <2>2, <3>1 DEF SameSeats
    <3>4. /\ DOMAIN left = Fields /\ left.stage = rooms[r].stage
          /\ left.addr = rooms[r].addr /\ left.online = {}
      BY <1>2, <1>4, <2>2 DEF Fields
    <3> HIDE DEF left, r, p0
    <3>5. /\ DOMAIN rooms' = DOMAIN rooms /\ rooms'[r] = left
          /\ \A q \in DOMAIN rooms \ {r} : rooms'[q] = rooms[q]
      BY <1>4, <3>2
    <3>6. \A q, p : Bound(s, q, p) => q = r /\ p = "p2"
      BY <2>5 DEF Bound, r, p0
    <3>7. QED
      BY <1>1, <1>2, <1>4, <2>2, <3>3, <3>4, <3>5, <3>6 DEF SameSeats
  <2>6. QED
    BY <2>2, <2>4, <2>5 DEF Players
<1>5. CASE s \in DOMAIN context /\ r \in DOMAIN rooms /\ rooms[r].stage # "waiting"
  <2>1. rooms' = [rooms EXCEPT ![r].online = @ \ {p0}]
    BY <1>5 DEF HandleLeave
  <2> HIDE DEF r, p0
  <2>2. DOMAIN rooms' = DOMAIN rooms /\ \A q \in DOMAIN rooms \ {r} : rooms'[q] = rooms[q]
    BY <2>1
  <2>3. rooms'[r] = [rooms[r] EXCEPT !.online = @ \ {p0}]
    BY <1>5, <2>1
  <2>4. /\ DOMAIN rooms'[r] = Fields
        /\ rooms'[r].seat = rooms[r].seat /\ rooms'[r].addr = rooms[r].addr
        /\ rooms'[r].stage = rooms[r].stage /\ rooms'[r].online = rooms[r].online \ {p0}
    BY <1>2, <1>5, <2>3 DEF Fields
  <2>5. \A q, p : Bound(s, q, p) => q = r /\ p = p0
    BY DEF Bound, r, p0
  <2>6. QED
    BY <1>1, <1>2, <1>5, <2>2, <2>4, <2>5 DEF SameSeats
<1>6. QED
  BY <1>3, <1>4, <1>5

LEMMA LeaveRoomStep ==
  ASSUME OnlineInv, NEW s \in Sockets, LeaveRoom(s)
  PROVE  OnlineInv'
<1>1. HandleLeave(s) /\ UNCHANGED <<conn, issued, since, forsaken>>
  BY DEF LeaveRoom, history
<1>2. /\ DOMAIN session' \subseteq DOMAIN session
      /\ \A b \in DOMAIN session' : session'[b] = session[b]
  BY DEF LeaveRoom, Without, Restrict
<1>3. conn' \in [Sockets -> {"unused", "open", "closed"}]
  BY <1>1 DEF OnlineInv, TypeOK
<1>4. Lessen({s})
  BY <1>1, <1>2, <1>3, LeaveEffect DEF Lessen
<1>5. QED
  BY <1>4, Lessened

LEMMA DisconnectStep ==
  ASSUME OnlineInv, NEW s \in Sockets, Disconnect(s)
  PROVE  OnlineInv'
<1>1. HandleLeave(s) /\ UNCHANGED <<session, issued, since, forsaken>>
  BY DEF Disconnect, history
<1>2. /\ conn' \in [Sockets -> {"unused", "open", "closed"}]
      /\ \A t \in Sockets \ {s} : conn[t] = "open" => conn'[t] = "open"
  BY DEF OnlineInv, TypeOK, Disconnect
<1>3. Lessen({s})
  BY <1>1, <1>2, LeaveEffect DEF Lessen
<1>4. QED
  BY <1>3, Lessened

-----------------------------------------------------------------------------
(* What a socket gives up when it takes a seat.                            *)
LEMMA Held ==
  ASSUME OnlineInv, NEW s \in Sockets
  PROVE  /\ HeldBy(s) \subseteq Tokens
         /\ \A r \in DOMAIN rooms, p \in Players :
              Bound(s, r, p) /\ p \in DOMAIN rooms[r].seat /\ rooms[r].seat[p].socket = s
                => rooms[r].seat[p].token \in HeldBy(s)
<1>1. \A r \in DOMAIN rooms : \A p \in DOMAIN rooms[r].seat : rooms[r].seat[p].token \in Tokens
  BY DEF OnlineInv, TypeOK, IsRoomCtx, PartialOn, Seats
<1>2. QED
  BY <1>1 DEF HeldBy, Bound

-----------------------------------------------------------------------------
(* Joins.  The seat taken has a new token; r looks like `next` afterwards. *)

Taken(s, r, p, room) ==
  LET n == Len(issued) + 1
      next == rooms'[r]
  IN  /\ DOMAIN rooms' = DOMAIN rooms \cup {r}
      /\ \A q \in DOMAIN rooms \ {r} : rooms'[q] = rooms[q]
      /\ next = StartGameIfReady([room EXCEPT !.seat = Put(@, p, StoredPlayer(s))])
      /\ DOMAIN next = Fields
      /\ DOMAIN next.seat = DOMAIN room.seat \cup {p}
      /\ \A o \in DOMAIN room.seat : next.seat[o] = room.seat[o]
      /\ next.seat[p] \in Seats
      /\ next.seat[p].socket = s /\ next.seat[p].token = n
      /\ DOMAIN context' = DOMAIN context \cup {s}
      /\ \A t \in DOMAIN context \ {s} : context'[t] = context[t]
      /\ context'[s] = [room |-> r, player |-> p]
      /\ conn' = conn /\ conn[s] = "open"
      /\ issued' \in Seq(Browsers) /\ Len(issued') <= MaxTokens
      /\ n \notin DOMAIN issued /\ DOMAIN issued' = DOMAIN issued \cup {n}
      /\ \A t \in DOMAIN issued : issued'[t] = issued[t]
      /\ issued'[n] = BrowserOf[s]
      /\ since' \in [Sockets -> 0..Len(issued')] /\ n = Len(issued')
      /\ \A t \in Sockets \ {s} : since'[t] = since[t] /\ since[t] < n
      /\ forsaken' = forsaken \cup HeldBy(s) /\ forsaken' \subseteq Tokens
      /\ SessionsSaved(r, next)

LEMMA TakenEffect ==
  ASSUME OnlineInv, NEW s \in Sockets, NEW r \in Rooms, NEW p \in Players, NEW room,
         MayJoin(s), SeatTaken(s, r, p, room), IsRoomCtx(room), p \notin DOMAIN room.seat
  PROVE  Taken(s, r, p, room)
<1> DEFINE n == Len(issued) + 1
           joined == [room EXCEPT !.seat = Put(@, p, StoredPlayer(s))]
           next == StartGameIfReady(joined)
<1>1. /\ rooms' = Put(rooms, r, next)
      /\ context' = Put(context, s, [room |-> r, player |-> p])
      /\ issued' = Append(issued, BrowserOf[s]) /\ SessionsSaved(r, next) /\ conn' = conn
      /\ since' = [since EXCEPT ![s] = Len(issued')]
      /\ forsaken' = forsaken \cup HeldBy(s)
  BY DEF SeatTaken, AttachToRoom
<1>2. /\ issued' \in Seq(Browsers) /\ Len(issued') <= MaxTokens /\ n \in Tokens
      /\ n \notin DOMAIN issued /\ DOMAIN issued' = DOMAIN issued \cup {n}
      /\ \A t \in DOMAIN issued : issued'[t] = issued[t]
      /\ issued'[n] = BrowserOf[s]
      /\ Len(issued) \in Nat /\ Len(issued') = n
  BY <1>1, Issued, OnlineAssumption DEF OnlineInv, MayJoin
<1>3. StoredPlayer(s) = [socket |-> s, token |-> n]
  BY DEF StoredPlayer
<1>4. DOMAIN room = Fields
  BY DEF IsRoomCtx, Fields
<1>5. DOMAIN joined = Fields /\ joined.seat = Put(room.seat, p, StoredPlayer(s))
  BY <1>4 DEF Fields
<1> HIDE DEF joined
<1>6. DOMAIN next = Fields /\ next.seat = Put(room.seat, p, StoredPlayer(s))
  BY <1>5, Started
<1> HIDE DEF next, n
<1>7. /\ DOMAIN next.seat = DOMAIN room.seat \cup {p}
      /\ \A o \in DOMAIN room.seat : next.seat[o] = room.seat[o]
      /\ next.seat[p] = StoredPlayer(s)
  BY <1>6 DEF Put
<1>8. /\ next.seat[p] \in Seats /\ next.seat[p].socket = s /\ next.seat[p].token = n
  BY <1>2, <1>3, <1>7 DEF Seats
<1>9. /\ DOMAIN rooms' = DOMAIN rooms \cup {r}
      /\ \A q \in DOMAIN rooms \ {r} : rooms'[q] = rooms[q]
      /\ rooms'[r] = next
  BY <1>1 DEF Put
<1>10. conn[s] = "open"
  BY DEF MayJoin
<1>11. /\ DOMAIN context' = DOMAIN context \cup {s}
       /\ \A t \in DOMAIN context \ {s} : context'[t] = context[t]
       /\ context'[s] = [room |-> r, player |-> p]
  BY <1>1 DEF Put
<1>12. /\ since' \in [Sockets -> 0..Len(issued')] /\ n = Len(issued')
       /\ \A t \in Sockets \ {s} : since'[t] = since[t] /\ since[t] < n
  <2>1. since \in [Sockets -> 0..Len(issued)] /\ n = Len(issued) + 1
    BY DEF OnlineInv, TypeOK, n
  <2>2. QED
    BY <1>1, <1>2, <2>1
<1>13. forsaken' = forsaken \cup HeldBy(s) /\ forsaken' \subseteq Tokens
  BY <1>1, Held DEF OnlineInv, TypeOK
<1>14. QED
  BY <1>1, <1>2, <1>6, <1>7, <1>8, <1>9, <1>10, <1>11, <1>12, <1>13
     DEF Taken, next, joined, n

(* A second player joins p1, who is there, and the game starts.            *)
LEMMA JoinRoomStep ==
  ASSUME OnlineInv, NEW s \in Sockets, NEW r \in Rooms, JoinRoom(s, r)
  PROVE  OnlineInv'
<1> DEFINE n == Len(issued) + 1
           next == rooms'[r]
           s1 == rooms[r].seat["p1"].socket
<1>1. /\ r \in DOMAIN rooms /\ rooms[r].stage = "waiting" /\ MayJoin(s)
      /\ SeatTaken(s, r, "p2", rooms[r]) /\ IsRoomCtx(rooms[r])
  BY DEF JoinRoom, Joinable, OnlineInv, TypeOK
<1>2. /\ DOMAIN rooms[r].seat = {"p1"} /\ conn[s1] = "open" /\ Bound(s1, r, "p1")
      /\ \A q \in DOMAIN rooms : rooms[q].stage = "waiting" => q = r
  BY <1>1 DEF OnlineInv, WaitingRooms
<1>3. "p2" \in Players /\ "p2" \notin DOMAIN rooms[r].seat
  BY <1>2 DEF Players
<1>4. /\ DOMAIN rooms' = DOMAIN rooms
      /\ \A q \in DOMAIN rooms \ {r} : rooms'[q] = rooms[q]
      /\ next = StartGameIfReady([rooms[r] EXCEPT !.seat = Put(@, "p2", StoredPlayer(s))])
      /\ DOMAIN next = Fields
      /\ DOMAIN next.seat = Players
      /\ next.seat["p1"] = rooms[r].seat["p1"]
      /\ next.seat["p2"] \in Seats
      /\ next.seat["p2"].socket = s /\ next.seat["p2"].token = n
      /\ DOMAIN context' = DOMAIN context \cup {s}
      /\ \A t \in DOMAIN context \ {s} : context'[t] = context[t]
      /\ context'[s] = [room |-> r, player |-> "p2"]
      /\ conn' = conn /\ conn[s] = "open"
      /\ issued' \in Seq(Browsers) /\ Len(issued') <= MaxTokens
      /\ n \notin DOMAIN issued /\ DOMAIN issued' = DOMAIN issued \cup {n}
      /\ \A t \in DOMAIN issued : issued'[t] = issued[t]
      /\ issued'[n] = BrowserOf[s]
      /\ SessionsSaved(r, next)
  <2>1. Taken(s, r, "p2", rooms[r])
    BY <1>1, <1>3, TakenEffect
  <2>2. DOMAIN rooms \cup {r} = DOMAIN rooms /\ {"p1"} \cup {"p2"} = Players
    BY <1>1 DEF Players
  <2>3. QED
    BY <1>2, <2>1, <2>2 DEF Taken
<1>past. /\ since' \in [Sockets -> 0..Len(issued')]
         /\ \A t \in Sockets \ {s} : since'[t] = since[t]
         /\ forsaken' = forsaken \cup HeldBy(s) /\ forsaken' \subseteq Tokens
  <2>1. Taken(s, r, "p2", rooms[r])
    BY <1>1, <1>3, TakenEffect
  <2>2. QED
    BY <2>1 DEF Taken
<1>5. /\ next.stage = "playing" /\ next.online = Players
      /\ next.addr = [p \in Players |-> next.seat[p].socket]
  <2> DEFINE joined == [rooms[r] EXCEPT !.seat = Put(@, "p2", StoredPlayer(s))]
  <2>1. DOMAIN joined = Fields /\ joined.stage = "waiting"
    BY <1>1 DEF IsRoomCtx, Fields
  <2>2. next = StartGameIfReady(joined)
    BY <1>4
  <2> HIDE DEF joined, next
  <2>3. next.seat = joined.seat
    BY <2>1, <2>2, Started
  <2>4. IsRoomFull(joined)
    BY <1>4, <2>3 DEF IsRoomFull
  <2>5. QED
    BY <2>1, <2>2, <2>3, <2>4, Started
<1>6. /\ next.seat["p1"] \in Seats /\ s1 \in Sockets
      /\ next.seat["p1"].socket = s1 /\ next.seat["p1"].token \in DOMAIN issued
      /\ issued[next.seat["p1"].token] = BrowserOf[s1]
  <2>1. rooms[r].seat["p1"] \in Seats
    BY <1>1, <1>2 DEF IsRoomCtx, PartialOn
  <2>2. s1 \in DOMAIN context
    BY <1>2 DEF Bound
  <2>3. QED
    BY <1>1, <1>2, <1>4, <2>1, <2>2 DEF Seats, OnlineInv, TokensKnown
<1> HIDE DEF n, next, s1
<1>7. \A p \in Players :
        /\ next.seat[p] \in Seats /\ next.seat[p].token \in DOMAIN issued'
        /\ issued'[next.seat[p].token] = BrowserOf[next.seat[p].socket]
  BY <1>4, <1>6 DEF Players
<1>8. \A b \in DOMAIN session' :
        \/ b \in DOMAIN session /\ session'[b] = session[b]
        \/ \E p \in Players :
             /\ b = BrowserOf[next.seat[p].socket]
             /\ session'[b] = [room |-> r, player |-> p, token |-> next.seat[p].token]
  BY <1>4, <1>5, Saved
<1>9. TypeOK'
  <2>1. IsRoomCtx(next)
    BY <1>4, <1>5, <1>7 DEF IsRoomCtx, PartialOn, Fields, Seats
  <2>2. DOMAIN rooms' \subseteq Rooms /\ \A q \in DOMAIN rooms' : IsRoomCtx(rooms'[q])
    BY <1>4, <2>1 DEF OnlineInv, TypeOK, next
  <2>3. PartialOn(context', Sockets, [room : Rooms, player : Players])
    BY <1>3, <1>4 DEF OnlineInv, TypeOK, PartialOn
  <2>4. PartialOn(session', Browsers, [room : Rooms, player : Players, token : Tokens])
    <3>1. \A p \in Players :
            /\ [room |-> r, player |-> p, token |-> next.seat[p].token]
                 \in [room : Rooms, player : Players, token : Tokens]
            /\ BrowserOf[next.seat[p].socket] \in Browsers
      BY <1>7, OnlineAssumption DEF Seats
    <3>2. QED
      BY <1>8, <3>1 DEF OnlineInv, TypeOK, PartialOn
  <2>5. since' \in [Sockets -> 0..Len(issued')] /\ forsaken' \subseteq Tokens
    BY <1>past
  <2>6. /\ conn' \in [Sockets -> {"unused", "open", "closed"}]
        /\ issued' \in Seq(Browsers) /\ Len(issued') <= MaxTokens
    BY <1>4 DEF OnlineInv, TypeOK
  <2>7. QED
    BY <2>2, <2>3, <2>4, <2>5, <2>6 DEF TypeOK
<1>10. SeatHolders'
  <2>1. ASSUME NEW t \in DOMAIN context', context'[t].room \in DOMAIN rooms'
        PROVE  LET q == context'[t].room
                   p == context'[t].player
               IN  \/ /\ p \in DOMAIN rooms'[q].seat
                      /\ issued'[rooms'[q].seat[p].token] = BrowserOf[t]
                   \/ since'[t] < rooms'[q].seat["p1"].token
    <3>1. CASE t = s
      BY <1>3, <1>4, <3>1 DEF next, n
    <3>2. CASE t \in DOMAIN context \ {s}
      <4> DEFINE q == context[t].room
                 p == context[t].player
      <4>1. /\ context'[t] = context[t] /\ q \in DOMAIN rooms /\ since'[t] = since[t]
            /\ \/ /\ p \in DOMAIN rooms[q].seat
                  /\ issued[rooms[q].seat[p].token] = BrowserOf[t]
                  /\ rooms[q].seat[p].token \in DOMAIN issued
               \/ since[t] < rooms[q].seat["p1"].token
        BY <1>4, <1>past, <2>1, <3>2
           DEF OnlineInv, SeatHolders, TokensKnown, TypeOK, PartialOn
      <4>2. CASE q = r
        BY <1>2, <1>4, <4>1, <4>2 DEF next, Players
      <4>3. CASE q # r
        BY <1>4, <4>1, <4>3
      <4>4. QED
        BY <4>2, <4>3
    <3>3. QED
      BY <1>4, <3>1, <3>2
  <2>2. QED
    BY <2>1 DEF SeatHolders
<1>11. WaitingRooms'
  <2>1. \A q \in DOMAIN rooms' : rooms'[q].stage # "waiting"
    BY <1>2, <1>4, <1>5 DEF next
  <2>2. QED
    BY <2>1 DEF WaitingRooms
<1>12. AddressesAgree'
  BY <1>4, <1>5 DEF OnlineInv, AddressesAgree, next
<1>13. NoGhosts'
  <2>1. ASSUME NEW q \in DOMAIN rooms', NEW p \in rooms'[q].online,
               rooms'[q].seat[p].token \notin forsaken'
        PROVE  LET t == rooms'[q].addr[p]
               IN  /\ conn'[t] = "open" /\ t \in DOMAIN context'
                   /\ context'[t].room = q /\ context'[t].player = p
    <3>1. CASE q = r
      <4>1. p \in Players /\ next.addr[p] = next.seat[p].socket
        BY <1>5, <3>1 DEF next
      <4>2. CASE p = "p1"
        <5>1. s1 # s
          <6>1. rooms[r].seat["p1"].token \notin HeldBy(s)
            BY <1>2, <1>4, <1>past, <2>1, <3>1, <4>2 DEF next
          <6>2. /\ r \in DOMAIN rooms /\ "p1" \in Players
                /\ "p1" \in DOMAIN rooms[r].seat /\ Bound(s1, r, "p1")
            BY <1>1, <1>2, <1>6 DEF Players
          <6>3. QED
            BY <6>1, <6>2, Held DEF s1
        <5>2. QED
          BY <1>2, <1>4, <1>6, <3>1, <4>1, <4>2, <5>1 DEF next, Bound
      <4>3. CASE p = "p2"
        BY <1>4, <3>1, <4>1, <4>3 DEF next
      <4>4. QED
        BY <4>1, <4>2, <4>3 DEF Players
    <3>2. CASE q # r
      <4> DEFINE t == rooms[q].addr[p]
      <4>1. /\ q \in DOMAIN rooms /\ p \in rooms[q].online /\ rooms'[q] = rooms[q]
            /\ p \in Players
        BY <1>4, <2>1, <3>2 DEF OnlineInv, TypeOK, IsRoomCtx
      <4>0. rooms[q].seat[p].token \notin forsaken \cup HeldBy(s)
        BY <1>past, <2>1, <4>1
      <4>2. conn[t] = "open" /\ Bound(t, q, p)
        BY <4>0, <4>1 DEF OnlineInv, NoGhosts, Forsaken
      <4>3. t # s
        <5>1. rooms[q].stage # "waiting"
          BY <1>2, <3>2, <4>1
        <5>2. p \in DOMAIN rooms[q].seat /\ rooms[q].seat[p].socket = t
          BY <4>1, <5>1 DEF OnlineInv, GamesFull, IsRoomFull, AddressesAgree
        <5>3. QED
          BY <4>0, <4>1, <4>2, <5>2, Held
      <4> HIDE DEF t
      <4>4. conn'[t] = "open" /\ t \in DOMAIN context' /\ context'[t] = context[t]
        BY <1>4, <4>2, <4>3 DEF Bound
      <4>5. QED
        BY <4>1, <4>2, <4>4 DEF Bound, t
    <3>3. QED
      BY <3>1, <3>2
  <2>2. QED
    BY <2>1 DEF NoGhosts, Forsaken, Bound
<1>14. TokensKnown'
  <2>1. ASSUME NEW q \in DOMAIN rooms', NEW p \in DOMAIN rooms'[q].seat
        PROVE  LET seat == rooms'[q].seat[p]
               IN  seat.token \in DOMAIN issued' /\ issued'[seat.token] = BrowserOf[seat.socket]
    <3>1. CASE q = r
      BY <1>4, <1>7, <3>1 DEF next
    <3>2. CASE q # r
      BY <1>4, <3>2 DEF OnlineInv, TokensKnown
    <3>3. QED
      BY <3>1, <3>2
  <2>2. ASSUME NEW b \in DOMAIN session'
        PROVE  session'[b].token \in DOMAIN issued' /\ issued'[session'[b].token] = b
    BY <1>4, <1>7, <1>8 DEF OnlineInv, TokensKnown
  <2>3. QED
    BY <2>1, <2>2 DEF TokensKnown
<1>15. TokensDiffer'
  <2>1. \A q \in DOMAIN rooms' : \A p \in DOMAIN rooms'[q].seat :
          \/ q = r /\ p = "p2" /\ rooms'[q].seat[p].token = n
          \/ /\ p \in DOMAIN rooms[q].seat /\ rooms'[q].seat[p] = rooms[q].seat[p]
             /\ rooms[q].seat[p].token # n
    BY <1>2, <1>4 DEF OnlineInv, TokensKnown, next, Players
  <2>2. QED
    BY <1>4, <2>1 DEF OnlineInv, TokensDiffer
<1>16. WaitersUntold' /\ GamesFull'
  <2>1. \A q \in DOMAIN rooms' : rooms'[q].stage # "waiting"
    BY <1>2, <1>4, <1>5 DEF next
  <2>2. QED
    BY <1>2, <1>4, <2>1 DEF OnlineInv, WaitersUntold, GamesFull, IsRoomFull, next
<1>17. ContextsOpen'
  BY <1>4 DEF OnlineInv, ContextsOpen
<1>18. QED
  BY <1>9, <1>10, <1>11, <1>12, <1>13, <1>14, <1>15, <1>16, <1>17 DEF OnlineInv

(* Nobody waits, so a first player waits in a new room.                    *)
LEMMA CreateRoomStep ==
  ASSUME OnlineInv, NEW s \in Sockets, NEW r \in Rooms, CreateRoom(s, r)
  PROVE  OnlineInv'
<1> DEFINE n == Len(issued) + 1
           next == rooms'[r]
           joined == [NewRoom EXCEPT !.seat = Put(@, "p1", StoredPlayer(s))]
<1>1. MayJoin(s) /\ SeatTaken(s, r, "p1", NewRoom) /\ r \notin DOMAIN rooms
  BY DEF CreateRoom, GeneratesRoomId
<1>2. \A q \in DOMAIN rooms : rooms[q].stage # "waiting"
  BY DEF CreateRoom, Joinable, OnlineInv, WaitingRooms
<1>3. /\ IsRoomCtx(NewRoom) /\ DOMAIN NewRoom = Fields /\ DOMAIN NewRoom.seat = {}
      /\ NewRoom.stage = "waiting" /\ NewRoom.online = {} /\ DOMAIN NewRoom.addr = {}
  BY DEF NewRoom, IsRoomCtx, PartialOn, Fields
<1>4. Taken(s, r, "p1", NewRoom)
  BY <1>1, <1>3, TakenEffect DEF Players
<1>5. /\ DOMAIN joined = Fields /\ joined.stage = "waiting" /\ joined.online = {}
      /\ DOMAIN joined.addr = {} /\ next = StartGameIfReady(joined)
  BY <1>3, <1>4 DEF Fields, Taken
<1>6. DOMAIN next.seat = {"p1"}
  BY <1>3, <1>4 DEF Taken
<1> HIDE DEF joined, next
<1>7. /\ next.stage = "waiting" /\ next.online = {} /\ DOMAIN next.addr = {}
  <2>1. next.seat = joined.seat
    BY <1>5, Started
  <2>2. ~IsRoomFull(joined)
    BY <1>6, <2>1 DEF IsRoomFull, Players
  <2>3. QED
    BY <1>5, <2>2, Started
<1>8. /\ DOMAIN rooms' = DOMAIN rooms \cup {r}
      /\ \A q \in DOMAIN rooms : rooms'[q] = rooms[q]
      /\ DOMAIN next = Fields
      /\ next.seat["p1"] \in Seats
      /\ next.seat["p1"].socket = s /\ next.seat["p1"].token = n
      /\ DOMAIN context' = DOMAIN context \cup {s}
      /\ \A t \in DOMAIN context \ {s} : context'[t] = context[t]
      /\ context'[s] = [room |-> r, player |-> "p1"]
      /\ conn' = conn /\ conn[s] = "open"
      /\ issued' \in Seq(Browsers) /\ Len(issued') <= MaxTokens
      /\ n \notin DOMAIN issued /\ DOMAIN issued' = DOMAIN issued \cup {n}
      /\ \A t \in DOMAIN issued : issued'[t] = issued[t]
      /\ issued'[n] = BrowserOf[s]
      /\ SessionsSaved(r, next)
  BY <1>1, <1>4 DEF Taken, next
<1>past. /\ since' \in [Sockets -> 0..Len(issued')]
         /\ \A t \in Sockets \ {s} : since'[t] = since[t] /\ since[t] < n
         /\ forsaken' = forsaken \cup HeldBy(s) /\ forsaken' \subseteq Tokens
  BY <1>4 DEF Taken
<1>9. session' = session
  BY <1>7, <1>8 DEF SessionsSaved
<1> HIDE DEF n
<1>10. TypeOK'
  <2>1. IsRoomCtx(next)
    BY <1>6, <1>7, <1>8 DEF IsRoomCtx, PartialOn, Fields, Players
  <2>2. DOMAIN rooms' \subseteq Rooms /\ \A q \in DOMAIN rooms' : IsRoomCtx(rooms'[q])
    BY <1>8, <2>1 DEF OnlineInv, TypeOK, next
  <2>3. PartialOn(context', Sockets, [room : Rooms, player : Players])
    BY <1>8 DEF OnlineInv, TypeOK, PartialOn, Players
  <2>4. since' \in [Sockets -> 0..Len(issued')] /\ forsaken' \subseteq Tokens
    BY <1>past
  <2>5. /\ conn' \in [Sockets -> {"unused", "open", "closed"}]
        /\ issued' \in Seq(Browsers) /\ Len(issued') <= MaxTokens
        /\ PartialOn(session', Browsers, [room : Rooms, player : Players, token : Tokens])
    BY <1>8, <1>9 DEF OnlineInv, TypeOK
  <2>6. QED
    BY <2>2, <2>3, <2>4, <2>5 DEF TypeOK
<1>11. SeatHolders'
  <2>1. ASSUME NEW t \in DOMAIN context', context'[t].room \in DOMAIN rooms'
        PROVE  LET q == context'[t].room
                   p == context'[t].player
               IN  \/ /\ p \in DOMAIN rooms'[q].seat
                      /\ issued'[rooms'[q].seat[p].token] = BrowserOf[t]
                   \/ since'[t] < rooms'[q].seat["p1"].token
    <3>1. CASE t = s
      BY <1>6, <1>8, <3>1 DEF next
    <3>2. CASE t \in DOMAIN context \ {s}
      <4> DEFINE q == context[t].room
                 p == context[t].player
      <4>1. context'[t] = context[t] /\ since'[t] = since[t] /\ since[t] < n
        BY <1>8, <1>past, <3>2 DEF OnlineInv, TypeOK, PartialOn
      <4>2. CASE q = r
        BY <1>6, <1>8, <4>1, <4>2 DEF next
      <4>3. CASE q # r
        <5>1. q \in DOMAIN rooms /\ rooms'[q] = rooms[q]
          BY <1>8, <2>1, <4>1, <4>3
        <5>2. \/ /\ p \in DOMAIN rooms[q].seat
                 /\ issued[rooms[q].seat[p].token] = BrowserOf[t]
                 /\ rooms[q].seat[p].token \in DOMAIN issued
              \/ since[t] < rooms[q].seat["p1"].token
          BY <3>2, <5>1 DEF OnlineInv, SeatHolders, TokensKnown
        <5>3. QED
          BY <1>8, <4>1, <5>1, <5>2
      <4>4. QED
        BY <4>2, <4>3
    <3>3. QED
      BY <1>8, <3>1, <3>2
  <2>2. QED
    BY <2>1 DEF SeatHolders
<1>12. WaitingRooms'
  <2>1. \A q \in DOMAIN rooms' : rooms'[q].stage = "waiting" => q = r
    BY <1>2, <1>8
  <2>2. /\ conn'[next.seat["p1"].socket] = "open"
        /\ Bound(s, r, "p1")'
    BY <1>8 DEF Bound
  <2>3. QED
    BY <1>6, <1>8, <2>1, <2>2 DEF WaitingRooms, Bound, next
<1>13. AddressesAgree'
  BY <1>7, <1>8 DEF OnlineInv, AddressesAgree, next
<1>14. NoGhosts'
  <2>1. ASSUME NEW q \in DOMAIN rooms', NEW p \in rooms'[q].online,
               rooms'[q].seat[p].token \notin forsaken'
        PROVE  LET t == rooms'[q].addr[p]
               IN  /\ conn'[t] = "open" /\ t \in DOMAIN context'
                   /\ context'[t].room = q /\ context'[t].player = p
    <3> DEFINE t == rooms[q].addr[p]
    <3>1. /\ q \in DOMAIN rooms /\ rooms'[q] = rooms[q] /\ p \in rooms[q].online
          /\ p \in Players
      BY <1>7, <1>8, <2>1 DEF next, OnlineInv, TypeOK, IsRoomCtx
    <3>0. rooms[q].seat[p].token \notin forsaken \cup HeldBy(s)
      BY <1>past, <2>1, <3>1
    <3>2. conn[t] = "open" /\ Bound(t, q, p)
      BY <3>0, <3>1 DEF OnlineInv, NoGhosts, Forsaken
    <3>3. t # s
      <4>1. p \in DOMAIN rooms[q].seat /\ rooms[q].seat[p].socket = t
        BY <1>2, <3>1 DEF OnlineInv, GamesFull, IsRoomFull, AddressesAgree
      <4>2. QED
        BY <3>0, <3>1, <3>2, <4>1, Held
    <3> HIDE DEF t
    <3>4. conn'[t] = "open" /\ t \in DOMAIN context' /\ context'[t] = context[t]
      BY <1>8, <3>2, <3>3 DEF Bound
    <3>5. QED
      BY <3>1, <3>2, <3>4 DEF Bound, t
  <2>2. QED
    BY <2>1 DEF NoGhosts, Forsaken, Bound
<1>15. TokensKnown'
  <2>1. ASSUME NEW q \in DOMAIN rooms', NEW p \in DOMAIN rooms'[q].seat
        PROVE  LET seat == rooms'[q].seat[p]
               IN  seat.token \in DOMAIN issued' /\ issued'[seat.token] = BrowserOf[seat.socket]
    <3>1. CASE q = r
      BY <1>6, <1>8, <3>1 DEF next
    <3>2. CASE q # r
      BY <1>8, <3>2 DEF OnlineInv, TokensKnown
    <3>3. QED
      BY <3>1, <3>2
  <2>2. ASSUME NEW b \in DOMAIN session'
        PROVE  session'[b].token \in DOMAIN issued' /\ issued'[session'[b].token] = b
    BY <1>8, <1>9 DEF OnlineInv, TokensKnown
  <2>3. QED
    BY <2>1, <2>2 DEF TokensKnown
<1>16. TokensDiffer'
  <2>1. \A q \in DOMAIN rooms' : \A p \in DOMAIN rooms'[q].seat :
          \/ q = r /\ p = "p1" /\ rooms'[q].seat[p].token = n
          \/ /\ q \in DOMAIN rooms /\ p \in DOMAIN rooms[q].seat
             /\ rooms'[q].seat[p] = rooms[q].seat[p]
             /\ rooms[q].seat[p].token # n
    BY <1>6, <1>8 DEF OnlineInv, TokensKnown, next
  <2>2. QED
    BY <1>8, <2>1 DEF OnlineInv, TokensDiffer
<1>17. WaitersUntold'
  <2>1. \A b \in DOMAIN session : session[b].token # n
    BY <1>8 DEF OnlineInv, TokensKnown
  <2>2. QED
    BY <1>2, <1>6, <1>8, <1>9, <2>1 DEF WaitersUntold, next
<1>18. GamesFull'
  BY <1>7, <1>8 DEF OnlineInv, GamesFull, IsRoomFull, next
<1>19. ContextsOpen'
  BY <1>8 DEF OnlineInv, ContextsOpen
<1>20. QED
  BY <1>10, <1>11, <1>12, <1>13, <1>14, <1>15, <1>16, <1>17, <1>18, <1>19 DEF OnlineInv

-----------------------------------------------------------------------------
(* A browser connects, and resumes the seat its token belongs to: that of  *)
(* a game, for nobody has been told a token of a waiting room.             *)

Resumed(s, r, p, token) ==
  LET next == rooms'[r]
  IN  /\ DOMAIN rooms' = DOMAIN rooms
      /\ \A q \in DOMAIN rooms \ {r} : rooms'[q] = rooms[q]
      /\ DOMAIN next = Fields /\ next.stage = rooms[r].stage
      /\ DOMAIN next.seat = DOMAIN rooms[r].seat
      /\ \A o \in DOMAIN rooms[r].seat \ {p} : next.seat[o] = rooms[r].seat[o]
      /\ next.seat[p] \in Seats /\ next.seat[p].socket = s
      /\ next.seat[p].token = token
      /\ next.online = rooms[r].online \cup {p}
      /\ DOMAIN next.addr = DOMAIN rooms[r].addr \cup {p} /\ next.addr[p] = s
      /\ \A o \in DOMAIN rooms[r].addr \ {p} : next.addr[o] = rooms[r].addr[o]
      /\ DOMAIN context' = DOMAIN context \cup {s}
      /\ \A t \in DOMAIN context \ {s} : context'[t] = context[t]
      /\ context'[s] = [room |-> r, player |-> p]
      /\ since' = [since EXCEPT ![s] = Len(issued')]
      /\ forsaken' = forsaken \cup HeldBy(s)

LEMMA ResumedEffect ==
  ASSUME OnlineInv, NEW s \in Sockets, NEW r, NEW p, NEW token,
         TokenMatches(r, p, token), rooms[r].stage # "waiting", ResumeGame(s, r, p)
  PROVE  Resumed(s, r, p, token)
<1> DEFINE resumed == [rooms[r] EXCEPT !.seat[p].socket = s]
<1>1. /\ r \in DOMAIN rooms /\ p \in DOMAIN rooms[r].seat /\ rooms[r].seat[p].token = token
      /\ DOMAIN rooms[r] = Fields /\ rooms[r].seat[p] \in Seats
  BY DEF TokenMatches, OnlineInv, TypeOK, IsRoomCtx, PartialOn, Fields
<1>2. /\ DOMAIN resumed = Fields /\ resumed.stage = rooms[r].stage
      /\ resumed.online = rooms[r].online /\ resumed.addr = rooms[r].addr
      /\ resumed.seat = [rooms[r].seat EXCEPT ![p].socket = s]
  BY <1>1 DEF Fields
<1>3. /\ rooms' = [rooms EXCEPT ![r] = SetConnected(resumed, p, s)]
      /\ context' = Put(context, s, [room |-> r, player |-> p])
      /\ since' = [since EXCEPT ![s] = Len(issued')]
      /\ forsaken' = forsaken \cup HeldBy(s)
  BY <1>2 DEF ResumeGame, AttachToRoom
<1> HIDE DEF resumed
<1>4. /\ DOMAIN resumed.seat = DOMAIN rooms[r].seat
      /\ \A o \in DOMAIN rooms[r].seat \ {p} : resumed.seat[o] = rooms[r].seat[o]
      /\ resumed.seat[p] = [rooms[r].seat[p] EXCEPT !.socket = s]
  BY <1>1, <1>2
<1>5. resumed.seat[p] \in Seats /\ resumed.seat[p].socket = s /\ resumed.seat[p].token = token
  BY <1>1, <1>4 DEF Seats
<1> DEFINE next == SetConnected(resumed, p, s)
<1>6. /\ DOMAIN next = Fields /\ next.stage = resumed.stage /\ next.seat = resumed.seat
      /\ next.online = resumed.online \cup {p} /\ next.addr = Put(resumed.addr, p, s)
  BY <1>2 DEF SetConnected, Fields
<1> HIDE DEF next
<1>7. /\ DOMAIN next.addr = DOMAIN rooms[r].addr \cup {p} /\ next.addr[p] = s
      /\ \A o \in DOMAIN rooms[r].addr \ {p} : next.addr[o] = rooms[r].addr[o]
  BY <1>2, <1>6 DEF Put
<1>8. /\ DOMAIN rooms' = DOMAIN rooms /\ rooms'[r] = next
      /\ \A q \in DOMAIN rooms \ {r} : rooms'[q] = rooms[q]
  BY <1>1, <1>3 DEF next
<1>9. /\ DOMAIN context' = DOMAIN context \cup {s}
      /\ \A t \in DOMAIN context \ {s} : context'[t] = context[t]
      /\ context'[s] = [room |-> r, player |-> p]
  BY <1>3 DEF Put
<1>10. QED
  BY <1>1, <1>2, <1>3, <1>4, <1>5, <1>6, <1>7, <1>8, <1>9 DEF Resumed

LEMMA ConnectStep ==
  ASSUME OnlineInv, NEW s \in Sockets, Connect(s)
  PROVE  OnlineInv'
<1> DEFINE b0 == BrowserOf[s]
           r == session[b0].room
           p0 == session[b0].player
           token == session[b0].token
           next == rooms'[r]
<1>1. /\ conn[s] = "unused" /\ conn'[s] = "open" /\ UNCHANGED <<session, issued>>
      /\ conn' \in [Sockets -> {"unused", "open", "closed"}]
      /\ \A t \in Sockets : conn[t] = "open" => conn'[t] = "open"
      /\ \A t \in DOMAIN context : t \in Sockets /\ t # s
  BY DEF Connect, OnlineInv, TypeOK, PartialOn, ContextsOpen
<1>2. CASE UNCHANGED <<rooms, context, since, forsaken>>
  <2>1. \A q \in DOMAIN rooms : DOMAIN rooms[q] = Fields /\ rooms[q].stage \in Stages
    BY DEF OnlineInv, TypeOK, IsRoomCtx, Fields, Stages
  <2>2. Lessen({})
    BY <1>1, <1>2, <2>1 DEF Lessen, SameSeats
  <2>3. QED
    BY <2>2, Lessened
<1>3. CASE b0 \in DOMAIN session /\ TokenMatches(r, p0, token) /\ ResumeGame(s, r, p0)
  <2>1. /\ r \in Rooms /\ p0 \in Players /\ issued[token] = b0 /\ token \in DOMAIN issued
        /\ r \in DOMAIN rooms /\ p0 \in DOMAIN rooms[r].seat
        /\ rooms[r].seat[p0].token = token
    BY <1>3 DEF OnlineInv, TypeOK, PartialOn, TokensKnown, TokenMatches
  <2>2. rooms[r].stage # "waiting" /\ DOMAIN rooms[r].addr = Players
        /\ IsRoomCtx(rooms[r])
    BY <1>3, <2>1 DEF OnlineInv, WaitersUntold, TypeOK, IsRoomCtx
  <2>3. /\ DOMAIN rooms' = DOMAIN rooms
        /\ \A q \in DOMAIN rooms \ {r} : rooms'[q] = rooms[q]
        /\ DOMAIN next = Fields /\ next.stage = rooms[r].stage
        /\ DOMAIN next.seat = DOMAIN rooms[r].seat
        /\ \A o \in DOMAIN rooms[r].seat \ {p0} : next.seat[o] = rooms[r].seat[o]
        /\ next.seat[p0] \in Seats /\ next.seat[p0].socket = s
        /\ next.seat[p0].token = token
        /\ next.online = rooms[r].online \cup {p0}
        /\ DOMAIN next.addr = DOMAIN rooms[r].addr \cup {p0} /\ next.addr[p0] = s
        /\ \A o \in DOMAIN rooms[r].addr \ {p0} : next.addr[o] = rooms[r].addr[o]
        /\ DOMAIN context' = DOMAIN context \cup {s}
        /\ \A t \in DOMAIN context : context'[t] = context[t]
        /\ context'[s] = [room |-> r, player |-> p0]
        /\ since' \in [Sockets -> 0..Len(issued')]
        /\ \A t \in Sockets \ {s} : since'[t] = since[t]
        /\ forsaken \subseteq forsaken' /\ forsaken' \subseteq Tokens
    <3>1. Resumed(s, r, p0, token)
      BY <1>3, <2>2, ResumedEffect
    <3>2. /\ since \in [Sockets -> 0..Len(issued)] /\ Len(issued) \in Nat
          /\ issued' = issued /\ forsaken \subseteq Tokens
      BY <1>1, LenProperties DEF OnlineInv, TypeOK
    <3>3. /\ since' = [since EXCEPT ![s] = Len(issued')]
          /\ forsaken' = forsaken \cup HeldBy(s)
      BY <3>1 DEF Resumed
    <3>4. /\ since' \in [Sockets -> 0..Len(issued')]
          /\ \A t \in Sockets \ {s} : since'[t] = since[t]
          /\ forsaken \subseteq forsaken' /\ forsaken' \subseteq Tokens
      BY <3>2, <3>3, Held
    <3>5. QED
      BY <1>1, <3>1, <3>4 DEF Resumed
  <2> HIDE DEF r, p0, token, next, b0
  <2>4. \A q \in DOMAIN rooms' :
          /\ DOMAIN rooms'[q].seat = DOMAIN rooms[q].seat
          /\ rooms'[q].stage = rooms[q].stage
          /\ \A p \in DOMAIN rooms[q].seat :
               rooms'[q].seat[p].token = rooms[q].seat[p].token
    BY <2>1, <2>3 DEF next
  <2>5. TypeOK'
    <3>1. IsRoomCtx(next)
      BY <2>1, <2>2, <2>3 DEF IsRoomCtx, PartialOn, Fields
    <3>2. DOMAIN rooms' \subseteq Rooms /\ \A q \in DOMAIN rooms' : IsRoomCtx(rooms'[q])
      BY <2>3, <3>1 DEF OnlineInv, TypeOK, next
    <3>3. PartialOn(context', Sockets, [room : Rooms, player : Players])
      BY <2>1, <2>3 DEF OnlineInv, TypeOK, PartialOn
    <3>4. QED
      BY <1>1, <2>3, <3>2, <3>3 DEF OnlineInv, TypeOK
  <2>6. SeatHolders'
    <3>1. ASSUME NEW t \in DOMAIN context', context'[t].room \in DOMAIN rooms'
          PROVE  LET q == context'[t].room
                     p == context'[t].player
                 IN  \/ /\ p \in DOMAIN rooms'[q].seat
                        /\ issued'[rooms'[q].seat[p].token] = BrowserOf[t]
                     \/ since'[t] < rooms'[q].seat["p1"].token
      <4>1. CASE t = s
        BY <1>1, <2>1, <2>3, <4>1 DEF next, b0
      <4>2. CASE t \in DOMAIN context
        <5>1. t \in Sockets \ {s} /\ context'[t] = context[t] /\ since'[t] = since[t]
          BY <1>1, <2>3, <4>2
        <5>2. /\ context[t].room \in DOMAIN rooms
              /\ "p1" \in DOMAIN rooms[context[t].room].seat
          BY <2>3, <3>1, <5>1
             DEF OnlineInv, GamesFull, WaitingRooms, IsRoomFull, Players
        <5>3. QED
          BY <1>1, <2>3, <2>4, <4>2, <5>1, <5>2 DEF OnlineInv, SeatHolders
      <4>3. QED
        BY <2>3, <4>1, <4>2
    <3>2. QED
      BY <3>1 DEF SeatHolders
  <2>7. WaitingRooms'
    <3>1. ASSUME NEW q \in DOMAIN rooms', rooms'[q].stage = "waiting"
          PROVE  LET t == rooms'[q].seat["p1"].socket
                 IN  /\ DOMAIN rooms'[q].seat = {"p1"}
                     /\ conn'[t] = "open"
                     /\ t \in DOMAIN context' /\ context'[t].room = q
                     /\ context'[t].player = "p1"
                     /\ \A o \in DOMAIN rooms' : rooms'[o].stage = "waiting" => o = q
      <4> DEFINE t == rooms[q].seat["p1"].socket
      <4>1. q \in DOMAIN rooms /\ rooms'[q] = rooms[q]
        BY <2>2, <2>3, <3>1 DEF next
      <4>2. /\ DOMAIN rooms[q].seat = {"p1"} /\ conn[t] = "open" /\ Bound(t, q, "p1")
            /\ \A o \in DOMAIN rooms : rooms[o].stage = "waiting" => o = q
        BY <3>1, <4>1 DEF OnlineInv, WaitingRooms
      <4> HIDE DEF t
      <4>3. /\ conn'[t] = "open" /\ t \in DOMAIN context'
            /\ context'[t].room = q /\ context'[t].player = "p1"
        BY <1>1, <2>3, <4>2 DEF Bound
      <4>4. \A o \in DOMAIN rooms' : rooms'[o].stage = "waiting" => o = q
        BY <2>3, <2>4, <4>2
      <4>5. QED
        BY <4>1, <4>2, <4>3, <4>4 DEF t
    <3>2. QED
      BY <3>1 DEF WaitingRooms, Bound
  <2>8. AddressesAgree'
    <3>1. \A p \in Players : next.addr[p] = next.seat[p].socket
      <4>1. \A p \in Players : rooms[r].addr[p] = rooms[r].seat[p].socket
        BY <2>1, <2>2 DEF OnlineInv, AddressesAgree
      <4>2. DOMAIN rooms[r].seat = Players
        BY <2>1, <2>2 DEF OnlineInv, GamesFull, IsRoomFull
      <4>3. QED
        BY <2>2, <2>3, <4>1, <4>2
    <3>2. QED
      BY <2>3, <3>1 DEF OnlineInv, AddressesAgree, next
  <2>9. NoGhosts'
    <3>1. ASSUME NEW q \in DOMAIN rooms', NEW p \in rooms'[q].online,
                 rooms'[q].seat[p].token \notin forsaken'
          PROVE  LET t == rooms'[q].addr[p]
                 IN  /\ conn'[t] = "open" /\ t \in DOMAIN context'
                     /\ context'[t].room = q /\ context'[t].player = p
      <4>1. CASE q = r /\ p = p0
        BY <1>1, <2>3, <4>1 DEF next
      <4>2. CASE ~(q = r /\ p = p0)
        <5> DEFINE t == rooms[q].addr[p]
        <5>1. q \in DOMAIN rooms /\ p \in rooms[q].online /\ rooms'[q].addr[p] = t
          BY <2>2, <2>3, <3>1, <4>2 DEF next, IsRoomCtx
        <5>2. p \in DOMAIN rooms[q].seat
          <6>1. p \in Players /\ (rooms[q].stage = "waiting" => rooms[q].online = {})
            BY <5>1 DEF OnlineInv, TypeOK, IsRoomCtx
          <6>2. QED
            BY <5>1, <6>1 DEF OnlineInv, GamesFull, IsRoomFull
        <5>3. conn[t] = "open" /\ Bound(t, q, p)
          BY <2>3, <2>4, <3>1, <5>1, <5>2 DEF OnlineInv, NoGhosts, Forsaken
        <5> HIDE DEF t
        <5>4. QED
          BY <1>1, <2>3, <5>1, <5>3 DEF Bound
      <4>3. QED
        BY <4>1, <4>2
    <3>2. QED
      BY <3>1 DEF NoGhosts, Forsaken, Bound
  <2>10. TokensKnown'
    <3>1. ASSUME NEW q \in DOMAIN rooms', NEW p \in DOMAIN rooms'[q].seat
          PROVE  LET seat == rooms'[q].seat[p]
                 IN  seat.token \in DOMAIN issued' /\ issued'[seat.token] = BrowserOf[seat.socket]
      <4>1. CASE q = r /\ p = p0
        BY <1>1, <2>1, <2>3, <4>1 DEF next, b0
      <4>2. CASE ~(q = r /\ p = p0)
        <5>1. q \in DOMAIN rooms /\ p \in DOMAIN rooms[q].seat
              /\ rooms'[q].seat[p] = rooms[q].seat[p]
          BY <2>3, <4>2 DEF next
        <5>2. QED
          BY <1>1, <5>1 DEF OnlineInv, TokensKnown
      <4>3. QED
        BY <4>1, <4>2
    <3>2. QED
      BY <1>1, <3>1 DEF OnlineInv, TokensKnown
  <2>11. TokensDiffer' /\ WaitersUntold' /\ GamesFull'
    BY <1>1, <2>3, <2>4 DEF OnlineInv, TokensDiffer, WaitersUntold, GamesFull, IsRoomFull
  <2>12. ContextsOpen'
    BY <1>1, <2>3 DEF OnlineInv, ContextsOpen
  <2>13. QED
    BY <2>5, <2>6, <2>7, <2>8, <2>9, <2>10, <2>11, <2>12 DEF OnlineInv
<1>4. QED
  BY <1>2, <1>3 DEF Connect, history

-----------------------------------------------------------------------------
(* The invariant of the store, its contexts and the browsers' sessions.    *)
THEOREM OnlineInvariant == Spec => []OnlineInv
<1>1. Init => OnlineInv
  <2> SUFFICES ASSUME Init
               PROVE  OnlineInv
    OBVIOUS
  <2>1. DOMAIN rooms = {} /\ DOMAIN context = {} /\ DOMAIN session = {}
    BY DEF Init
  <2>2. issued \in Seq(Browsers) /\ Len(issued) <= MaxTokens
    BY EmptySeq, OnlineAssumption DEF Init
  <2>3. conn \in [Sockets -> {"unused", "open", "closed"}]
    BY DEF Init
  <2>4. since \in [Sockets -> 0..Len(issued)] /\ forsaken = {}
    BY EmptySeq DEF Init
  <2>5. TypeOK
    BY <2>1, <2>2, <2>3, <2>4 DEF TypeOK, PartialOn
  <2>6. QED
    BY <2>1, <2>5 DEF OnlineInv, SeatHolders, WaitingRooms, AddressesAgree, NoGhosts,
       TokensKnown, TokensDiffer, WaitersUntold, GamesFull, ContextsOpen
<1>2. OnlineInv /\ [Next]_vars => OnlineInv'
  <2> SUFFICES ASSUME OnlineInv, [Next]_vars
               PROVE  OnlineInv'
    OBVIOUS
  <2>1. ASSUME NEW s \in Sockets, Connect(s)
        PROVE  OnlineInv'
    BY <2>1, ConnectStep
  <2>2. ASSUME NEW s \in Sockets, NEW r \in Rooms, JoinRoom(s, r)
        PROVE  OnlineInv'
    BY <2>2, JoinRoomStep
  <2>3. ASSUME NEW s \in Sockets, NEW r \in Rooms, CreateRoom(s, r)
        PROVE  OnlineInv'
    BY <2>3, CreateRoomStep
  <2>4. ASSUME NEW s \in Sockets, FinishGame(s)
        PROVE  OnlineInv'
    BY <2>4, FinishGameStep
  <2>5. ASSUME NEW s \in Sockets, LeaveRoom(s)
        PROVE  OnlineInv'
    BY <2>5, LeaveRoomStep
  <2>6. ASSUME NEW s \in Sockets, Disconnect(s)
        PROVE  OnlineInv'
    BY <2>6, DisconnectStep
  <2>7. ASSUME NEW idle \in SUBSET DOMAIN rooms, CleanupExpiredRooms(idle)
        PROVE  OnlineInv'
    BY <2>7, CleanupStep
  <2>8. CASE UNCHANGED vars
    <3>1. \A q \in DOMAIN rooms : DOMAIN rooms[q] = Fields /\ rooms[q].stage \in Stages
      BY DEF OnlineInv, TypeOK, IsRoomCtx, Fields, Stages
    <3>2. conn \in [Sockets -> {"unused", "open", "closed"}]
      BY DEF OnlineInv, TypeOK
    <3>3. Lessen({})
      BY <2>8, <3>1, <3>2 DEF Lessen, SameSeats, vars
    <3>4. QED
      BY <3>3, Lessened
  <2>9. QED
    BY <2>1, <2>2, <2>3, <2>4, <2>5, <2>6, <2>7, <2>8 DEF Next
<1>3. QED
  BY <1>1, <1>2, PTL DEF Spec

(* Whoever acts for a seat (ClientContext) sits at the browser that the    *)
(* seat's reconnect token was issued to, or got its context before there   *)
(* was the room (RoomStore.generateRoomId repeats ids of rooms gone).      *)
THEOREM SeatsStayWithTheirOwners == Spec => []SeatHolders
<1>1. OnlineInv => SeatHolders
  BY DEF OnlineInv
<1>2. QED
  BY <1>1, OnlineInvariant, PTL

(* joinRoom matches a newcomer with a player who is there.                 *)
THEOREM WaitersAreThere == Spec => []WaitingRooms
<1>1. OnlineInv => WaitingRooms
  BY DEF OnlineInv
<1>2. QED
  BY <1>1, OnlineInvariant, PTL

(* The socket ids of RoomStore and of the game state agree.                *)
THEOREM OneAddressEach == Spec => []AddressesAgree
<1>1. OnlineInv => AddressesAgree
  BY DEF OnlineInv
<1>2. QED
  BY <1>1, OnlineInvariant, PTL

(* A player marked connected is, and so getCleanupReason can trust it,     *)
(* unless the seat's socket has taken another seat (attachToRoom).         *)
THEOREM GhostsAreForsaken == Spec => []NoGhosts
<1>1. OnlineInv => NoGhosts
  BY DEF OnlineInv
<1>2. QED
  BY <1>1, OnlineInvariant, PTL
=============================================================================
