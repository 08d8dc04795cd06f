------------------------- MODULE DurableRoom_proofs -------------------------
(***************************************************************************)
(* Proofs about DurableRoom, for any number of clients, of sockets each    *)
(* and of pending timers: the room's invariant.                            *)
(***************************************************************************)
EXTENDS DurableRoom, TLAPS

-----------------------------------------------------------------------------
(* What the handlers do to the seats.                                      *)

LEMMA SeatForKnown ==
  ASSUME TypeOK, NEW id \in Clients
  PROVE  /\ SeatFor(id) \in Players
         /\ SeatsOf(id) # {} => SeatFor(id) \in SeatsOf(id)
BY DEF SeatFor, SeatsOf, TypeOK, Players

LEMMA Seated ==
  ASSUME TypeOK, NEW s \in Sockets, PlayerConnection(s)
  PROVE  LET p == SeatFor(ClientOf[s])
         IN  /\ DOMAIN players' = DOMAIN players \cup {p}
             /\ \A q \in DOMAIN players \ {p} : players'[q] = players[q]
             /\ players'[p] \in Seats
             /\ players'[p].socket = s
             /\ players'[p].clientPlayerId = ClientOf[s]
             /\ players'[p].connected = TRUE
             /\ DOMAIN bound' = DOMAIN bound \cup {s}
             /\ \A t \in DOMAIN bound \ {s} : bound'[t] = bound[t]
             /\ bound'[s] = p
             /\ \/ gone' = gone /\ waiting' = waiting \ {p}
                \/ gone' = gone \cup {s} /\ waiting' \subseteq waiting \cup {p}
<1> DEFINE p == SeatFor(ClientOf[s])
           joined == SeatsOf(ClientOf[s]) # {} /\ players[p].joined
           seat == [socket |-> s, clientPlayerId |-> ClientOf[s],
                    connected |-> TRUE, joined |-> joined]
<1>1. ClientOf[s] \in Clients
  BY RoomAssumption
<1>2. p \in Players
  BY <1>1, SeatForKnown
<1>3. joined \in BOOLEAN
  OBVIOUS
<1>4. seat \in Seats
  BY <1>1, <1>3 DEF Seats
<1>5. players' = Put(players, p, seat) /\ bound' = Put(bound, s, p)
  BY DEF PlayerConnection
<1>6. /\ seat.socket = s /\ seat.clientPlayerId = ClientOf[s]
      /\ seat.connected = TRUE
  OBVIOUS
<1>a. Greeted(p, s)
  BY DEF PlayerConnection
<1> HIDE DEF joined, seat, p
<1>b. \/ gone' = gone /\ waiting' = waiting \ {p}
      \/ gone' = gone \cup {s} /\ waiting' \subseteq waiting \cup {p}
  BY <1>a DEF Greeted
<1>7. /\ DOMAIN players' = DOMAIN players \cup {p}
      /\ \A q \in DOMAIN players \ {p} : players'[q] = players[q]
      /\ players'[p] = seat
  BY <1>5 DEF Put
<1>8. /\ DOMAIN bound' = DOMAIN bound \cup {s}
      /\ \A t \in DOMAIN bound \ {s} : bound'[t] = bound[t]
      /\ bound'[s] = p
  BY <1>5 DEF Put
<1>9. QED
  BY <1>4, <1>6, <1>7, <1>8, <1>b DEF p

(* What is sent to some waits for none of the others, and for a player on  *)
(* a connection that lives not at all.                                     *)
LEMMA SentWaits ==
  ASSUME TypeOK, NEW recipients \in SUBSET Players, Sent(recipients)
  PROVE  /\ waiting' \subseteq Players
         /\ \A q \in waiting' : q \in waiting \/ Away(q) \/ Broken(q)
BY DEF Sent, TypeOK

\* A player who goes keeps the seat, its socket and its client.
LEMMA Left ==
  ASSUME TypeOK, NEW p \in DOMAIN players, PlayerDisconnect(p)
  PROVE  /\ DOMAIN players' = DOMAIN players
         /\ \A q \in DOMAIN players :
              /\ players'[q] \in Seats
              /\ players'[q].socket = players[q].socket
              /\ players'[q].clientPlayerId = players[q].clientPlayerId
         /\ \A q \in DOMAIN players \ {p} : players'[q] = players[q]
         /\ players'[p].connected = FALSE
         /\ timers' \in [Players -> 0..MaxTimers]
         /\ timers'[p] > 0
         /\ \A q \in Players \ {p} : timers'[q] = timers[q]
         /\ waiting' \subseteq Players
         /\ \A q \in waiting' : q \in waiting \/ Away(q) \/ Broken(q)
         /\ game' = NoGame
<1>1. /\ players' = [players EXCEPT ![p].connected = FALSE, ![p].joined = FALSE]
      /\ timers' = [timers EXCEPT ![p] = @ + 1] /\ timers[p] < MaxTimers
      /\ Sent(Others(p)) /\ game' = NoGame
  BY DEF PlayerDisconnect
<1>2. p \in Players /\ players[p] \in Seats
  BY DEF TypeOK
<1>3. /\ DOMAIN players' = DOMAIN players
      /\ \A q \in DOMAIN players \ {p} : players'[q] = players[q]
  BY <1>1
<1>4. players'[p] = [players[p] EXCEPT !.connected = FALSE, !.joined = FALSE]
  BY <1>1
<1>5. /\ players'[p] \in Seats /\ players'[p].connected = FALSE
      /\ players'[p].socket = players[p].socket
      /\ players'[p].clientPlayerId = players[p].clientPlayerId
  BY <1>2, <1>4 DEF Seats
<1>6. \A q \in DOMAIN players :
        /\ players'[q] \in Seats
        /\ players'[q].socket = players[q].socket
        /\ players'[q].clientPlayerId = players[q].clientPlayerId
  BY <1>3, <1>5 DEF TypeOK
<1>7. /\ timers' \in [Players -> 0..MaxTimers] /\ timers'[p] > 0
      /\ \A q \in Players \ {p} : timers'[q] = timers[q]
  BY <1>1, <1>2, RoomAssumption DEF TypeOK
<1>8. /\ waiting' \subseteq Players
      /\ \A q \in waiting' : q \in waiting \/ Away(q) \/ Broken(q)
  <2>1. Others(p) \in SUBSET Players
    BY DEF Others, TypeOK
  <2>2. QED
    BY <1>1, <2>1, SentWaits
<1>9. QED
  BY <1>1, <1>3, <1>5, <1>6, <1>7, <1>8

-----------------------------------------------------------------------------
(* The steps.                                                              *)

LEMMA ConnectStep ==
  ASSUME RoomInv, NEW s \in Sockets, Connect(s)
  PROVE  RoomInv'
<1> DEFINE p == SeatFor(ClientOf[s])
<1>1. /\ TypeOK /\ PlayerConnection(s) /\ s \notin DOMAIN bound
      /\ UNCHANGED <<game, timers>> /\ ClientOf[s] \in Clients
  BY RoomAssumption DEF RoomInv, Connect, PlayerConnection
<1>2. /\ DOMAIN players' = DOMAIN players \cup {p}
      /\ \A q \in DOMAIN players \ {p} : players'[q] = players[q]
      /\ players'[p] \in Seats
      /\ players'[p].socket = s
      /\ players'[p].clientPlayerId = ClientOf[s]
      /\ players'[p].connected = TRUE
      /\ DOMAIN bound' = DOMAIN bound \cup {s}
      /\ \A t \in DOMAIN bound \ {s} : bound'[t] = bound[t]
      /\ bound'[s] = p
      /\ \/ gone' = gone /\ waiting' = waiting \ {p}
         \/ gone' = gone \cup {s} /\ waiting' \subseteq waiting \cup {p}
  BY <1>1, Seated
<1>3. p \in Players /\ (SeatsOf(ClientOf[s]) # {} => p \in SeatsOf(ClientOf[s]))
  BY <1>1, SeatForKnown
<1> HIDE DEF p
<1>4. TypeOK'
  BY <1>1, <1>2, <1>3 DEF TypeOK
<1>5. OneSeatEach'
  <2>1. \A q \in DOMAIN players \ {p} : players[q].clientPlayerId # ClientOf[s]
    BY <1>3 DEF RoomInv, OneSeatEach, SeatsOf
  <2>2. QED
    BY <1>2, <2>1 DEF RoomInv, OneSeatEach
<1>6. NoGhosts'
  BY <1>1, <1>2 DEF RoomInv, NoGhosts
<1>7. NothingWaits'
  BY <1>1, <1>2 DEF RoomInv, NothingWaits
<1>8. TimedSeats'
  BY <1>1, <1>2 DEF RoomInv, TimedSeats
<1>9. QED
  BY <1>4, <1>5, <1>6, <1>7, <1>8 DEF RoomInv

LEMMA JoinRoomStep ==
  ASSUME RoomInv, NEW p \in Players, JoinRoom(p), UNCHANGED <<bound, gone>>
  PROVE  RoomInv'
<1>1. CASE p \notin DOMAIN players
  BY <1>1 DEF JoinRoom, RoomInv, TypeOK, OneSeatEach, NoGhosts, NothingWaits, TimedSeats
<1>2. CASE p \in DOMAIN players
  <2>1. /\ players' = [players EXCEPT ![p].joined = TRUE]
        /\ Broadcast /\ game' = StartGame(players') /\ timers' = timers
    BY <1>2 DEF JoinRoom
  <2>2. players[p] \in Seats
    BY <1>2 DEF RoomInv, TypeOK
  <2>3. players'[p] = [players[p] EXCEPT !.joined = TRUE]
    BY <1>2, <2>1
  <2>4. /\ DOMAIN players' = DOMAIN players
        /\ \A q \in DOMAIN players \ {p} : players'[q] = players[q]
    BY <2>1
  <2>5. /\ players'[p] \in Seats
        /\ players'[p].socket = players[p].socket
        /\ players'[p].clientPlayerId = players[p].clientPlayerId
        /\ players'[p].connected = players[p].connected
    BY <2>2, <2>3 DEF Seats
  <2>6. \A q \in DOMAIN players :
          /\ players'[q] \in Seats
          /\ players'[q].socket = players[q].socket
          /\ players'[q].clientPlayerId = players[q].clientPlayerId
          /\ players'[q].connected = players[q].connected
    BY <2>4, <2>5 DEF RoomInv, TypeOK
  <2>7. game' \in [Players -> Clients] \cup {NoGame}
    <3>1. CASE DOMAIN players' = Players
      <4>1. \A q \in Players : players'[q].clientPlayerId \in Clients
        BY <2>4, <2>6, <3>1 DEF Seats
      <4>2. QED
        BY <2>1, <4>1 DEF StartGame, RoomInv, TypeOK
    <3>2. CASE DOMAIN players' # Players
      BY <2>1, <3>2 DEF StartGame, RoomInv, TypeOK
    <3>3. QED
      BY <3>1, <3>2
  <2>8. /\ waiting' \subseteq Players
        /\ \A q \in waiting' : q \in waiting \/ Away(q) \/ Broken(q)
    BY <2>1, SentWaits DEF Broadcast, RoomInv, TypeOK
  <2>9. TypeOK'
    BY <2>1, <2>4, <2>6, <2>7, <2>8 DEF RoomInv, TypeOK
  <2>10. OneSeatEach'
    BY <2>4, <2>6 DEF RoomInv, OneSeatEach
  <2>11. NoGhosts'
    BY <2>4, <2>6 DEF RoomInv, NoGhosts
  <2>12. NothingWaits'
    BY <2>4, <2>6, <2>8 DEF RoomInv, NothingWaits, Away, Broken
  <2>13. TimedSeats'
    BY <2>1, <2>4, <2>6 DEF RoomInv, TimedSeats
  <2>14. QED
    BY <2>9, <2>10, <2>11, <2>12, <2>13 DEF RoomInv
<1>3. QED
  BY <1>1, <1>2

LEMMA CommandStep ==
  ASSUME RoomInv, NEW p \in Players, Command(p), UNCHANGED <<bound, gone>>
  PROVE  RoomInv'
<1>1. UNCHANGED <<players, game, timers>>
  BY DEF Command
<1>2. Sent({p}) \/ Sent(DOMAIN players \cup {p})
  BY DEF Command, Answered
<1>3. TypeOK /\ DOMAIN players \cup {p} \in SUBSET Players /\ {p} \in SUBSET Players
  BY DEF RoomInv, TypeOK
<1>4. /\ waiting' \subseteq Players
      /\ \A q \in waiting' : q \in waiting \/ Away(q) \/ Broken(q)
  BY <1>2, <1>3, SentWaits
<1>5. QED
  BY <1>1, <1>4 DEF RoomInv, TypeOK, OneSeatEach, NoGhosts, NothingWaits, TimedSeats,
     Away, Broken

\* A player goes, by leaving or by the close of a socket, which then is lost.
LEMMA DisconnectStep ==
  ASSUME RoomInv, NEW p \in Players, PlayerDisconnect(p),
         DOMAIN bound' \subseteq DOMAIN bound,
         \A t \in DOMAIN bound' : bound'[t] = bound[t],
         \A t \in DOMAIN bound \ DOMAIN bound' : bound[t] = p,
         gone' \subseteq DOMAIN bound', gone \cap DOMAIN bound' \subseteq gone'
  PROVE  RoomInv'
<1>1. CASE p \notin DOMAIN players
  <2>1. UNCHANGED <<players, game, waiting, timers>>
    BY <1>1 DEF PlayerDisconnect
  <2>2. TypeOK' /\ OneSeatEach' /\ NoGhosts' /\ TimedSeats'
    BY <1>1, <2>1 DEF RoomInv, TypeOK, OneSeatEach, NoGhosts, TimedSeats
  <2>3. NothingWaits'
    BY <1>1, <2>1 DEF RoomInv, NoGhosts, NothingWaits
  <2>4. QED
    BY <2>2, <2>3 DEF RoomInv
<1>2. CASE p \in DOMAIN players
  <2>1. /\ DOMAIN players' = DOMAIN players
        /\ \A q \in DOMAIN players :
             /\ players'[q] \in Seats
             /\ players'[q].socket = players[q].socket
             /\ players'[q].clientPlayerId = players[q].clientPlayerId
        /\ \A q \in DOMAIN players \ {p} : players'[q] = players[q]
        /\ players'[p].connected = FALSE
        /\ timers' \in [Players -> 0..MaxTimers]
        /\ timers'[p] > 0
        /\ \A q \in Players \ {p} : timers'[q] = timers[q]
        /\ waiting' \subseteq Players
        /\ \A q \in waiting' : q \in waiting \/ Away(q) \/ Broken(q)
        /\ game' = NoGame
    BY <1>2, Left DEF RoomInv
  <2>2. TypeOK'
    BY <2>1 DEF RoomInv, TypeOK
  <2>3. OneSeatEach'
    BY <2>1 DEF RoomInv, OneSeatEach
  <2>4. NoGhosts'
    BY <2>1 DEF RoomInv, NoGhosts
  <2>5. NothingWaits'
    BY <2>1 DEF RoomInv, NothingWaits, NoGhosts, Away, Broken
  <2>6. TimedSeats'
    BY <2>1 DEF RoomInv, TypeOK, TimedSeats
  <2>7. QED
    BY <2>2, <2>3, <2>4, <2>5, <2>6 DEF RoomInv
<1>3. QED
  BY <1>1, <1>2

LEMMA MessageStep ==
  ASSUME RoomInv, NEW s \in Sockets, NEW message \in Messages, Message(s, message)
  PROVE  RoomInv'
<1>1. bound[s] \in Players /\ UNCHANGED <<bound, gone>> /\ gone \subseteq DOMAIN bound
  BY DEF Message, RoomInv, TypeOK
<1>2. JoinRoom(bound[s]) \/ PlayerDisconnect(bound[s]) \/ Command(bound[s])
  BY DEF Message, Messages
<1>3. QED
  BY <1>1, <1>2, JoinRoomStep, DisconnectStep, CommandStep

LEMMA SocketClosedStep ==
  ASSUME RoomInv, NEW s \in Sockets, SocketClosed(s)
  PROVE  RoomInv'
<1>1. s \in DOMAIN bound /\ bound[s] \in Players /\ PlayerDisconnect(bound[s])
  BY DEF SocketClosed, RoomInv, TypeOK
<1>2. DOMAIN bound' = DOMAIN bound \ {s} /\ \A t \in DOMAIN bound' : bound'[t] = bound[t]
  BY DEF SocketClosed, Without, Restrict
<1>3. gone' \subseteq DOMAIN bound' /\ gone \cap DOMAIN bound' \subseteq gone'
  BY <1>2 DEF SocketClosed, RoomInv, TypeOK
<1>4. QED
  BY <1>1, <1>2, <1>3, DisconnectStep

LEMMA TimeoutStep ==
  ASSUME RoomInv, NEW p \in Players, Timeout(p)
  PROVE  RoomInv'
<1>1. /\ DOMAIN players' = IF Freed(p) THEN DOMAIN players \ {p} ELSE DOMAIN players
      /\ \A q \in DOMAIN players' : q \in DOMAIN players /\ players'[q] = players[q]
      /\ p \in DOMAIN players' => players'[p].connected
  BY DEF Timeout, Freed, Without, Restrict
<1>2. /\ timers' \in [Players -> 0..MaxTimers]
      /\ \A q \in Players \ {p} : timers'[q] = timers[q]
  BY RoomAssumption DEF Timeout, RoomInv, TypeOK
<1>3. UNCHANGED <<bound, gone, game>> /\ waiting' \subseteq waiting
  BY DEF Timeout
<1>4. TypeOK'
  BY <1>1, <1>2, <1>3 DEF RoomInv, TypeOK
<1>5. OneSeatEach'
  BY <1>1 DEF RoomInv, OneSeatEach
<1>6. NoGhosts'
  BY <1>1, <1>3 DEF RoomInv, NoGhosts
<1>7. NothingWaits'
  BY <1>1, <1>3 DEF RoomInv, NothingWaits
<1>8. TimedSeats'
  BY <1>1, <1>2 DEF RoomInv, TypeOK, TimedSeats
<1>9. QED
  BY <1>4, <1>5, <1>6, <1>7, <1>8 DEF RoomInv

LEMMA RestartStep ==
  ASSUME RoomInv, Restart
  PROVE  RoomInv'
<1>1. /\ DOMAIN players' = {} /\ DOMAIN bound' = {} /\ gone' = {} /\ waiting' = {}
      /\ game' = game
  BY DEF Restart
<1>2. timers' \in [Players -> 0..MaxTimers]
  BY RoomAssumption DEF Restart
<1>3. QED
  BY <1>1, <1>2 DEF RoomInv, TypeOK, OneSeatEach, NoGhosts, NothingWaits, TimedSeats

-----------------------------------------------------------------------------
(* Seats are held once, by those who are there or for as long as a timer   *)
(* is pending, and what waits for a connected player waits for the close   *)
(* of a broken connection.                                                 *)
THEOREM RoomInvariant == Spec => []RoomInv
<1>1. Init => RoomInv
  <2>1. ASSUME Init PROVE DOMAIN players = {} /\ DOMAIN bound = {}
    BY <2>1 DEF Init
  <2>2. ASSUME Init PROVE timers \in [Players -> 0..MaxTimers]
    BY <2>2, RoomAssumption DEF Init
  <2>3. QED
    BY <2>1, <2>2 DEF Init, RoomInv, TypeOK, OneSeatEach, NoGhosts, NothingWaits, TimedSeats
<1>2. RoomInv /\ [Next]_vars => RoomInv'
  <2> SUFFICES ASSUME RoomInv, [Next]_vars
               PROVE  RoomInv'
    OBVIOUS
  <2>1. ASSUME NEW s \in Sockets, Connect(s)
        PROVE  RoomInv'
    BY <2>1, ConnectStep
  <2>2. ASSUME NEW s \in Sockets, NEW message \in Messages, Message(s, message)
        PROVE  RoomInv'
    BY <2>2, MessageStep
  <2>3. ASSUME NEW s \in Sockets, Break(s)
        PROVE  RoomInv'
    BY <2>3 DEF Break, RoomInv, TypeOK, OneSeatEach, NoGhosts, NothingWaits, TimedSeats
  <2>4. ASSUME NEW s \in Sockets, SocketClosed(s)
        PROVE  RoomInv'
    BY <2>4, SocketClosedStep
  <2>5. ASSUME NEW p \in Players, Timeout(p)
        PROVE  RoomInv'
    BY <2>5, TimeoutStep
  <2>6. CASE Restart
    BY <2>6, RestartStep
  <2>7. CASE UNCHANGED vars
    BY <2>7 DEF vars, RoomInv, TypeOK, OneSeatEach, NoGhosts, NothingWaits, TimedSeats
  <2>8. QED
    BY <2>1, <2>2, <2>3, <2>4, <2>5, <2>6, <2>7 DEF Next
<1>3. QED
  BY <1>1, <1>2, PTL DEF Spec

=============================================================================
