----------------------------- MODULE DurableRoom -----------------------------
(***************************************************************************)
(* A room of apps/server/src/room.ts, a Durable Object, and the sockets of *)
(* those who find it.  The object handles one event at a time; it may be   *)
(* restarted, and then has what it stored: the game, not the seats.        *)
(*                                                                         *)
(* A client has a client id and dials anew whenever it likes; the server   *)
(* learns of the end of a socket later.  Until then messages may still     *)
(* come from it, and what is sent on it is lost or queued.  What clients   *)
(* send is not constrained.                                                *)
(*                                                                         *)
(* The room reads publicState of the engine's state, which has no such     *)
(* field: what it sends as a state is empty, and naming its phase throws.  *)
(* So a command the engine accepts is stored and announced by an empty     *)
(* stateSync, and then its sender gets an error.  The moves do not matter  *)
(* to the room; a game is the pair of clients it was set up for, which the *)
(* engine keeps as its players' socketId.  Storage calls hold back further *)
(* events and messages, so a handler and its writes are one step.          *)
(***************************************************************************)
EXTENDS Naturals, FiniteSets, Functions

CONSTANTS
  Clients,       \* client ids: one for each tab
  Sockets,       \* the WebSockets that may be there at one time
  ClientOf,      \* whose socket it is
  MaxTimers      \* bound: thirty-second timers pending for one seat

ASSUME RoomAssumption ==
  /\ ClientOf \in [Sockets -> Clients]
  /\ MaxTimers \in Nat \ {0}

Players == {"p1", "p2"}
Nobody == "nobody"
NoGame == [p \in Players |-> Nobody]

\* Whatever else a client sends is a command: drawCard, playAction, ping...
Messages == {"joinRoom", "command", "leaveRoom"}

VARIABLES
  players,       \* the seats: a PlayerConnection for each seat taken
  bound,         \* bound[s]: the seat the handlers of an open socket act for
  gone,          \* the sockets broken whose close has not been handled
  game,          \* engineState, also in storage; isGameStarted if not NoGame
  waiting,       \* the players with messages in messageQueue
  timers         \* timers[p]: pending timeouts of handlePlayerDisconnect

vars == <<players, bound, gone, game, waiting, timers>>

Seats == [socket : Sockets, clientPlayerId : Clients,
          connected : BOOLEAN, joined : BOOLEAN]

TypeOK ==
  /\ DOMAIN players \subseteq Players
  /\ \A p \in DOMAIN players : players[p] \in Seats
  /\ DOMAIN bound \subseteq Sockets
  /\ \A s \in DOMAIN bound : bound[s] \in Players
  /\ gone \subseteq DOMAIN bound
  /\ game \in [Players -> Clients] \cup {NoGame}
  /\ waiting \subseteq Players
  /\ timers \in [Players -> 0..MaxTimers]

Init ==
  /\ players = <<>>
  /\ bound = <<>>
  /\ gone = {}
  /\ game = NoGame
  /\ waiting = {}
  /\ timers = [p \in Players |-> 0]

-----------------------------------------------------------------------------
Put(f, x, y) == [z \in DOMAIN f \cup {x} |-> IF z = x THEN y ELSE f[z]]
Without(f, S) == Restrict(f, DOMAIN f \ S)

Started == game # NoGame

Away(p) == p \in DOMAIN players => ~players[p].connected

\* readyState may tell of it already, or send may throw, or neither.
Broken(p) == ~Away(p) /\ players[p].socket \in gone

(* sendToPlayer to each of the recipients: the queue is for those who are  *)
(* away, and for those whose connection is seen to be broken.              *)
Sent(recipients) ==
  \E seen \in SUBSET {p \in recipients : Broken(p)} :
    waiting' = waiting \cup {p \in recipients : Away(p)} \cup seen

Broadcast == Sent(DOMAIN players)

\* sendError, and any other answer to p alone
Answered(p) == Sent({p})

SeatsOf(id) == {p \in DOMAIN players : players[p].clientPlayerId = id}

(* What handlePlayerConnection sends and flushMessageQueue: roomJoined,    *)
(* then all that waited, then the state.  On a connection that is broken   *)
(* already it may all go into the queue, or part of it, or nothing.        *)
Greeted(p, s) ==
  \/ gone' = gone /\ waiting' = waiting \ {p}
  \/ gone' = gone \cup {s} /\ waiting' \in {waiting, waiting \cup {p}, waiting \ {p}}

\* notifyOtherPlayers
Others(p) == DOMAIN players \ {p}

\* Seated again in the seat it has, or by how many are there.
SeatFor(id) ==
  IF SeatsOf(id) # {} THEN CHOOSE p \in SeatsOf(id) : TRUE
  ELSE IF DOMAIN players = {} THEN "p1" ELSE "p2"

Full(id) == Cardinality(DOMAIN players) >= 2 /\ SeatsOf(id) = {}

\* Mutant: a player who comes back keeps the old socket.
ConnectionKeepingSocket(s) ==
  LET p == SeatFor(ClientOf[s])
      known == SeatsOf(ClientOf[s]) # {}
  IN  /\ bound' = Put(bound, s, p)
      /\ players' = Put(players, p,
           [socket |-> IF known THEN players[p].socket ELSE s,
            clientPlayerId |-> ClientOf[s], connected |-> TRUE,
            joined |-> known /\ players[p].joined])
      /\ Greeted(p, s)
      /\ UNCHANGED <<game, timers>>

(* handlePlayerConnection: the seat is s's now, whoever had it, and what   *)
(* waited for it is flushed.                                               *)
PlayerConnection(s) ==
  LET p == SeatFor(ClientOf[s])
  IN  /\ bound' = Put(bound, s, p)
      /\ players' = Put(players, p,
           [socket |-> s, clientPlayerId |-> ClientOf[s], connected |-> TRUE,
            joined |-> SeatsOf(ClientOf[s]) # {} /\ players[p].joined])
      /\ Greeted(p, s)
      /\ UNCHANGED <<game, timers>>

(* startGame, once both have joined: the game of those who are seated.  It *)
(* ends in an exception when it names the phase, and the sender is told of *)
(* an error.                                                               *)
StartGame(seated) ==
  IF DOMAIN seated = Players /\ ~Started /\ \A q \in Players : seated[q].joined
  THEN [q \in Players |-> seated[q].clientPlayerId]
  ELSE game

\* handleJoinRoom
JoinRoom(p) ==
  IF p \notin DOMAIN players THEN UNCHANGED <<players, game, waiting, timers>>
  ELSE /\ players' = [players EXCEPT ![p].joined = TRUE]
       /\ Broadcast
       /\ game' = StartGame(players')
       /\ UNCHANGED timers

(* handleDrawCard, handlePlayAction, handleResolveAction: if the engine    *)
(* accepts, all are sent the state and then the sender an error; if not,   *)
(* or if there is no game, the sender alone is answered, as to a ping.     *)
Command(p) ==
  /\ \/ Answered(p)
     \/ Started /\ Sent(DOMAIN players \cup {p})
  /\ UNCHANGED <<players, game, timers>>

\* Mutant: no timer is set when a game has been broken off.
DisconnectWithoutTimer(p) ==
  IF p \notin DOMAIN players THEN UNCHANGED <<players, game, waiting, timers>>
  ELSE /\ timers[p] < MaxTimers
       /\ players' = [players EXCEPT ![p].connected = FALSE, ![p].joined = FALSE]
       /\ Sent(Others(p))
       /\ timers' = [timers EXCEPT ![p] = IF Started THEN @ ELSE @ + 1]
       /\ game' = NoGame

(* handlePlayerDisconnect: the seat is kept for thirty seconds, the game   *)
(* is not kept at all.                                                     *)
PlayerDisconnect(p) ==
  IF p \notin DOMAIN players THEN UNCHANGED <<players, game, waiting, timers>>
  ELSE /\ timers[p] < MaxTimers
       /\ players' = [players EXCEPT ![p].connected = FALSE, ![p].joined = FALSE]
       /\ Sent(Others(p))
       /\ timers' = [timers EXCEPT ![p] = @ + 1]
       /\ game' = NoGame

-----------------------------------------------------------------------------
\* fetch: a socket is accepted unless the room is full (429).
Connect(s) ==
  /\ s \notin DOMAIN bound
  /\ ~Full(ClientOf[s])
  /\ PlayerConnection(s)

\* handleMessage
Message(s, message) ==
  /\ s \in DOMAIN bound
  /\ CASE message = "joinRoom" -> JoinRoom(bound[s])
       [] message = "leaveRoom" -> PlayerDisconnect(bound[s])
       [] OTHER -> Command(bound[s])
  /\ UNCHANGED <<bound, gone>>

\* A client or the network breaks a connection.
Break(s) ==
  /\ s \in DOMAIN bound \ gone
  /\ gone' = gone \cup {s}
  /\ UNCHANGED <<players, bound, game, waiting, timers>>

\* onclose, whoever holds the seat by now
SocketClosed(s) ==
  /\ s \in gone
  /\ gone' = gone \ {s}
  /\ bound' = Without(bound, {s})
  /\ PlayerDisconnect(bound[s])

Freed(p) == p \in DOMAIN players /\ ~players[p].connected

\* Thirty seconds after some disconnection, not necessarily the last one.
Timeout(p) ==
  /\ timers[p] > 0
  /\ timers' = [timers EXCEPT ![p] = @ - 1]
  /\ players' = IF Freed(p) THEN Without(players, {p}) ELSE players
  /\ waiting' = IF Freed(p) THEN waiting \ {p} ELSE waiting
  /\ UNCHANGED <<bound, gone, game>>

\* The object is evicted or crashes; the constructor reads engineState back.
Restart ==
  /\ players' = <<>>
  /\ bound' = <<>>
  /\ gone' = {}
  /\ waiting' = {}
  /\ timers' = [p \in Players |-> 0]
  /\ UNCHANGED game

Next ==
  \/ \E s \in Sockets :
       \/ Connect(s)
       \/ \E message \in Messages : Message(s, message)
       \/ Break(s)
       \/ SocketClosed(s)
  \/ \E p \in Players : Timeout(p)
  \/ Restart

Spec == Init /\ [][Next]_vars

(* The server learns of a broken connection sooner or later, and timers go *)
(* off; clients need do nothing.                                           *)
FairSpec ==
  /\ Spec
  /\ \A s \in Sockets : WF_vars(SocketClosed(s))
  /\ \A p \in Players : WF_vars(Timeout(p))

-----------------------------------------------------------------------------
(* A client never has both seats, and so never plays itself: not by coming *)
(* back while its old connection lingers, not after a restart.             *)
OneSeatEach ==
  \A p, q \in DOMAIN players :
    players[p].clientPlayerId = players[q].clientPlayerId => p = q

(* A player who counts as connected is, as far as the server can know: the *)
(* seat's socket has not been reported closed, it is its client's and it   *)
(* acts for that seat.  Otherwise the seat would be taken for ever.        *)
NoGhosts ==
  \A p \in DOMAIN players : players[p].connected =>
    LET s == players[p].socket
    IN  /\ s \in DOMAIN bound /\ bound[s] = p
        /\ ClientOf[s] = players[p].clientPlayerId

(* Messages keep their order: once a connection has been greeted, nothing  *)
(* is left in the queue of its player for later messages to overtake, as   *)
(* long as it lives.  What waits for a connected player waits for the      *)
(* close of a broken connection, which leaves the player disconnected.     *)
(* Only the greeting itself goes out before what waited for it.            *)
NothingWaits ==
  \A p \in waiting \cap DOMAIN players :
    players[p].connected => players[p].socket \in gone

(* Every seat of somebody who has gone has a timer that will free it,      *)
(* whatever leaving, late closes and older timers came in between.         *)
TimedSeats == \A p \in DOMAIN players : players[p].connected \/ timers[p] > 0

(* The inductive invariant: these things depend on each other.             *)
RoomInv ==
  /\ TypeOK
  /\ OneSeatEach
  /\ NoGhosts
  /\ NothingWaits
  /\ TimedSeats

(* Once everyone has gone and nobody dials any more, the room becomes free *)
(* for good: no seat stays taken, whatever late closes, older timers and   *)
(* restarts come in between, and nobody is told for ever that it is full.  *)
Deserted == DOMAIN bound \subseteq gone

Dials == \E s \in Sockets : Connect(s)

RoomBecomesFree ==
  <>[]Deserted /\ <>[][~Dials]_vars => <>[](DOMAIN players = {})
=============================================================================
