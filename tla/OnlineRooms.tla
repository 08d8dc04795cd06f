---------------------------- MODULE OnlineRooms ----------------------------
(***************************************************************************)
(* The online server: RoomStore and the Socket.io gateway of               *)
(* packages/server/src, with the sessions the browsers keep.               *)
(*                                                                         *)
(* A socket is one connection of a browser (a tab, or what is left of it   *)
(* after a reconnection: the server may notice the end of an old socket    *)
(* long after a new one has resumed the seat).  Every handler runs to its  *)
(* end, so a handler is one action.  The game is its stage and the fields  *)
(* SET_CONNECTED writes; the moves are those of HanamikojiEngine.  Time is *)
(* a choice: a room may have been idle for any time whenever the sweep     *)
(* comes round.                                                            *)
(***************************************************************************)
EXTENDS Naturals, FiniteSets, Sequences, Functions

CONSTANTS
  Sockets,
  Browsers,
  BrowserOf,     \* the browser a socket belongs to
  Rooms,         \* room ids
  MaxTokens      \* bound: how many seats are ever taken

ASSUME OnlineAssumption ==
  /\ BrowserOf \in [Sockets -> Browsers]
  /\ MaxTokens \in Nat

Players == {"p1", "p2"}

VARIABLES
  rooms,         \* RoomStore.rooms: a RoomCtx for each room id in use
  conn,          \* the server's view of each socket
  context,       \* ClientContext of the sockets that have a seat
  session,       \* what the browsers keep in localStorage
  issued,        \* issued[token]: the browser a reconnect token was given to
  \* History, which no action reads:
  since,         \* since[s]: how many tokens there were when s got its context
  forsaken       \* tokens of the seats whose socket has taken another

history == <<since, forsaken>>
vars == <<rooms, conn, context, session, issued, since, forsaken>>

Tokens == 1..MaxTokens
Seats == [socket : Sockets, token : Tokens]
\* Map.set: f with x mapped to y
Put(f, x, y) == [z \in DOMAIN f \cup {x} |-> IF z = x THEN y ELSE f[z]]

PartialOn(f, S, T) == DOMAIN f \subseteq S /\ \A x \in DOMAIN f : f[x] \in T

IsRoomCtx(room) ==
  /\ DOMAIN room = {"seat", "stage", "online", "addr"}
  /\ PartialOn(room.seat, Players, Seats)
  /\ room.stage \in {"waiting", "playing", "finished"}
  /\ room.online \subseteq Players                  \* players[p].connected of the game
  /\ PartialOn(room.addr, Players, Sockets)         \* players[p].socketId of the game
  /\ DOMAIN room.addr = IF room.stage = "waiting" THEN {} ELSE Players
  /\ room.stage = "waiting" => room.online = {}

TypeOK ==
  /\ DOMAIN rooms \subseteq Rooms /\ \A r \in DOMAIN rooms : IsRoomCtx(rooms[r])
  /\ conn \in [Sockets -> {"unused", "open", "closed"}]
  /\ PartialOn(context, Sockets, [room : Rooms, player : Players])
  /\ PartialOn(session, Browsers, [room : Rooms, player : Players, token : Tokens])
  /\ issued \in Seq(Browsers) /\ Len(issued) <= MaxTokens
  /\ since \in [Sockets -> 0..Len(issued)]
  /\ forsaken \subseteq Tokens

Init ==
  /\ rooms = <<>>
  /\ conn = [s \in Sockets |-> "unused"]
  /\ context = <<>>
  /\ session = <<>>
  /\ issued = <<>>
  /\ since = [s \in Sockets |-> 0]
  /\ forsaken = {}

-----------------------------------------------------------------------------
Without(f, S) == Restrict(f, DOMAIN f \ S)

Bound(s, r, p) ==
  s \in DOMAIN context /\ context[s].room = r /\ context[s].player = p

Attended(r) == \E s \in Sockets, p \in Players : conn[s] = "open" /\ Bound(s, r, p)

NewRoom == [seat |-> <<>>, stage |-> "waiting", online |-> {}, addr |-> <<>>]

IsRoomFull(room) == DOMAIN room.seat = Players

\* Mutant: the game starts whoever is there.
StartGameAnyway(room) ==
  [room EXCEPT !.stage = "playing",
               !.online = Players,
               !.addr = [p \in DOMAIN room.seat |-> room.seat[p].socket]]

\* startGameIfReady
StartGameIfReady(room) ==
  IF IsRoomFull(room) /\ room.stage = "waiting"
  THEN [room EXCEPT !.stage = "playing",
                    !.online = Players,
                    !.addr = [p \in Players |-> room.seat[p].socket]]
  ELSE room

(* gameStarted carries to each player the token that its browser stores.   *)
(* It may be lost on a connection that is about to close; of two players   *)
(* in tabs of one browser the last to be told is remembered.               *)
SessionsSaved(r, room) ==
  IF room.stage = "waiting" THEN session' = session
  ELSE \E told \in SUBSET DOMAIN room.addr :
         /\ Cardinality({BrowserOf[room.addr[p]] : p \in told}) = Cardinality(told)
         /\ session' =
              [b \in DOMAIN session \cup {BrowserOf[room.addr[p]] : p \in told} |->
                 IF \E p \in told : BrowserOf[room.addr[p]] = b
                 THEN LET p == CHOOSE q \in told : BrowserOf[room.addr[q]] = b
                      IN  [room |-> r, player |-> p, token |-> room.seat[p].token]
                 ELSE session[b]]

\* createStoredPlayer: a seat for s, with a token nobody has had
StoredPlayer(s) == [socket |-> s, token |-> Len(issued) + 1]

\* The seat s acts for, if its socket is s.
HeldBy(s) ==
  {rooms[context[t].room].seat[context[t].player].token :
     t \in {u \in {s} \cap DOMAIN context :
              /\ context[u].room \in DOMAIN rooms
              /\ context[u].player \in DOMAIN rooms[context[u].room].seat
              /\ rooms[context[u].room].seat[context[u].player].socket = u}}

(* attachToRoom: whatever s acted for before, it does not any more; that   *)
(* seat is not told.                                                       *)
AttachToRoom(s, r, p) ==
  /\ context' = Put(context, s, [room |-> r, player |-> p])
  /\ since' = [since EXCEPT ![s] = Len(issued')]
  /\ forsaken' = forsaken \cup HeldBy(s)

\* The end of the joinRoom handler: s has seat p in a room that looks like room.
SeatTaken(s, r, p, room) ==
  LET next == StartGameIfReady([room EXCEPT !.seat = Put(@, p, StoredPlayer(s))])
  IN  /\ rooms' = Put(rooms, r, next)
      /\ issued' = Append(issued, BrowserOf[s])
      /\ AttachToRoom(s, r, p)
      /\ SessionsSaved(r, next)
      /\ UNCHANGED conn

(* A join is taken from any socket.  The lobby offers one to a user whose  *)
(* stored session is being resumed, and anew after every error message,    *)
(* while an earlier join is under way or its player waits.                 *)
MayJoin(s) == conn[s] = "open" /\ Len(issued) < MaxTokens

Joinable(r) == rooms[r].stage = "waiting" /\ "p2" \notin DOMAIN rooms[r].seat

\* joinRoom into a waiting room: by its id, or because a player waits there.
JoinRoom(s, r) ==
  /\ MayJoin(s)
  /\ r \in DOMAIN rooms
  /\ Joinable(r)
  /\ SeatTaken(s, r, "p2", rooms[r])

(* generateRoomId: an id that no room has now.  A room that is gone may    *)
(* have had it, and sessions and contexts may still name it.               *)
GeneratesRoomId(r) == r \notin DOMAIN rooms

\* joinRoom without a room id when nobody waits
CreateRoom(s, r) ==
  /\ MayJoin(s)
  /\ \A q \in DOMAIN rooms : ~(Joinable(q) /\ "p1" \in DOMAIN rooms[q].seat)
  /\ GeneratesRoomId(r)
  /\ SeatTaken(s, r, "p1", NewRoom)

\* Mutant: the reconnect token is not compared.
TokenAny(r, p, token) == r \in DOMAIN rooms /\ p \in DOMAIN rooms[r].seat

TokenMatches(r, p, token) ==
  /\ r \in DOMAIN rooms
  /\ p \in DOMAIN rooms[r].seat
  /\ rooms[r].seat[p].token = token

\* Mutant: the game is not told the new socket.
SetConnectedOnly(room, p, s) == [room EXCEPT !.online = @ \cup {p}]

\* SET_CONNECTED true with a socket id
SetConnected(room, p, s) ==
  [room EXCEPT !.online = @ \cup {p}, !.addr = Put(@, p, s)]

(* resumeGame of the session a browser kept: RoomStore hands the seat over  *)
(* before the gateway looks for a game.                                    *)
ResumeGame(s, r, p) ==
  LET resumed == [rooms[r] EXCEPT !.seat[p].socket = s]
  IN  IF resumed.stage = "waiting"
      THEN /\ rooms' = [rooms EXCEPT ![r] = resumed]
           /\ UNCHANGED <<context, history>>
      ELSE /\ rooms' = [rooms EXCEPT ![r] = SetConnected(resumed, p, s)]
           /\ AttachToRoom(s, r, p)

\* A browser that remembers a session tries to resume it as soon as it connects.
Connect(s) ==
  /\ conn[s] = "unused"
  /\ conn' = [conn EXCEPT ![s] = "open"]
  /\ UNCHANGED <<session, issued>>
  /\ LET kept == session[BrowserOf[s]]
     IN  IF BrowserOf[s] \in DOMAIN session /\ TokenMatches(kept.room, kept.player, kept.token)
         THEN ResumeGame(s, kept.room, kept.player)
         ELSE UNCHANGED <<rooms, context, history>>

\* A command of s, whoever else holds the seat, that the engine accepts and
\* that ends the match.
FinishGame(s) ==
  /\ conn[s] = "open" /\ s \in DOMAIN context
  /\ context[s].room \in DOMAIN rooms
  /\ rooms[context[s].room].stage = "playing"
  /\ rooms' = [rooms EXCEPT ![context[s].room].stage = "finished"]
  /\ UNCHANGED <<conn, context, session, issued, history>>

\* removeWaitingPlayer
RemoveWaitingPlayer(r, p) ==
  LET left == [rooms[r] EXCEPT !.seat = Without(@, {p})]
  IN  IF DOMAIN left.seat = {} THEN Without(rooms, {r}) ELSE [rooms EXCEPT ![r] = left]

\* Mutant: a player who leaves keeps a waiting seat.
HandleLeaveKeepsSeat(s) ==
  /\ IF s \in DOMAIN context /\ context[s].room \in DOMAIN rooms
        /\ rooms[context[s].room].stage # "waiting"
     THEN rooms' = [rooms EXCEPT ![context[s].room].online = @ \ {context[s].player}]
     ELSE UNCHANGED rooms
  /\ context' = Without(context, {s})

\* Mutant: a game is not told that a player has gone.
HandleLeaveUnnoticed(s) ==
  /\ IF s \in DOMAIN context /\ context[s].room \in DOMAIN rooms
        /\ rooms[context[s].room].stage = "waiting"
     THEN rooms' = RemoveWaitingPlayer(context[s].room, context[s].player)
     ELSE UNCHANGED rooms
  /\ context' = Without(context, {s})

(* handleLeave: of a game, the player goes offline, whether or not another *)
(* socket holds the seat by now; of a waiting room, the seat is given up.  *)
HandleLeave(s) ==
  /\ IF s \in DOMAIN context /\ context[s].room \in DOMAIN rooms
     THEN LET r == context[s].room
              p == context[s].player
          IN  rooms' = IF rooms[r].stage = "waiting"
                       THEN RemoveWaitingPlayer(r, p)
                       ELSE [rooms EXCEPT ![r].online = @ \ {p}]
     ELSE UNCHANGED rooms
  /\ context' = Without(context, {s})

(* leaveRoom, when the player closes the final score on its page, which is *)
(* not that of the context if s has joined again; the browser forgets its  *)
(* session.                                                                *)
LeaveRoom(s) ==
  /\ conn[s] = "open" /\ s \in DOMAIN context
  /\ HandleLeave(s)
  /\ session' = Without(session, {BrowserOf[s]})
  /\ UNCHANGED <<conn, issued, history>>

Disconnect(s) ==
  /\ conn[s] = "open"
  /\ conn' = [conn EXCEPT ![s] = "closed"]
  /\ HandleLeave(s)
  /\ UNCHANGED <<session, issued, history>>

\* Mutant: finished matches are kept for ever.
ExpiresUnlessFinished(r) ==
  /\ rooms[r].stage # "finished"
  /\ rooms[r].stage = "playing" => rooms[r].online = {}

\* getCleanupReason: r goes once it has been idle for long enough.
Expires(r) == rooms[r].stage = "playing" => rooms[r].online = {}

\* cleanupExpiredRooms: of the rooms that may expire, the long idle ones go.
CleanupExpiredRooms(idle) ==
  /\ idle # {} /\ \A r \in idle : Expires(r)
  /\ rooms' = Without(rooms, idle)
  /\ UNCHANGED <<conn, context, session, issued, history>>

Next ==
  \/ \E s \in Sockets :
       \/ Connect(s)
       \/ \E r \in Rooms : JoinRoom(s, r) \/ CreateRoom(s, r)
       \/ FinishGame(s)
       \/ LeaveRoom(s)
       \/ Disconnect(s)
  \/ \E idle \in SUBSET DOMAIN rooms : CleanupExpiredRooms(idle)

(* The sweep runs every minute, and a room nobody attends is not touched   *)
(* any more, so it does become idle for long enough.                       *)
SweepReaches(r) ==
  ~Attended(r) /\ \E idle \in SUBSET DOMAIN rooms : r \in idle /\ CleanupExpiredRooms(idle)

Spec == Init /\ [][Next]_vars

FairSpec == Spec /\ \A r \in Rooms : WF_vars(SweepReaches(r))

-----------------------------------------------------------------------------
(* Whoever can act for a seat sits at the browser its token was issued to: *)
(* no stored session, contended join or resumption lets one player into    *)
(* the seat of another.  The one exception is a connection with a context  *)
(* older than the room (than its first seat, which is p1's): that of a     *)
(* room which expired under it and whose id has been drawn again.          *)
SeatHolders ==
  \A s \in DOMAIN context :
    LET r == context[s].room
        p == context[s].player
    IN  r \in DOMAIN rooms =>
          \/ /\ p \in DOMAIN rooms[r].seat
             /\ issued[rooms[r].seat[p].token] = BrowserOf[s]
          \/ since[s] < rooms[r].seat["p1"].token

(* A newcomer is never matched with a player who is gone: at most one room *)
(* waits, and in it p1, alone, on an open connection that holds the seat.  *)
WaitingRooms ==
  \A r \in DOMAIN rooms : rooms[r].stage = "waiting" =>
    /\ DOMAIN rooms[r].seat = {"p1"}
    /\ LET s == rooms[r].seat["p1"].socket IN conn[s] = "open" /\ Bound(s, r, "p1")
    /\ \A q \in DOMAIN rooms : rooms[q].stage = "waiting" => q = r

(* The store and the game keep a socket id each for a player; through      *)
(* joins, resumptions and late disconnections they name the same socket.   *)
AddressesAgree ==
  \A r \in DOMAIN rooms : rooms[r].stage # "waiting" =>
    \A p \in Players : rooms[r].addr[p] = rooms[r].seat[p].socket

(* The seat was left by a join of its own socket, which nobody noticed.    *)
Forsaken(r, p) == rooms[r].seat[p].token \in forsaken

(* A player who counts as connected is: the socket the game sends to is    *)
(* open and acts for the seat, through late disconnections, resumptions    *)
(* and repeated ids.  Only a join by the seat's own socket leaves a ghost. *)
NoGhosts ==
  \A r \in DOMAIN rooms : \A p \in rooms[r].online :
    \/ conn[rooms[r].addr[p]] = "open" /\ Bound(rooms[r].addr[p], r, p)
    \/ Forsaken(r, p)

(* What these rest on.  A token belongs to one seat, of the browser it was *)
(* issued to; browsers keep tokens of their own, and none of a room that   *)
(* is waiting; who has a context is connected.                             *)
TokensKnown ==
  /\ \A r \in DOMAIN rooms : \A p \in DOMAIN rooms[r].seat :
       LET seat == rooms[r].seat[p]
       IN  /\ seat.token \in DOMAIN issued
           /\ issued[seat.token] = BrowserOf[seat.socket]
  /\ \A b \in DOMAIN session :
       session[b].token \in DOMAIN issued /\ issued[session[b].token] = b

TokensDiffer ==
  \A r, q \in DOMAIN rooms : \A p \in DOMAIN rooms[r].seat, o \in DOMAIN rooms[q].seat :
    rooms[r].seat[p].token = rooms[q].seat[o].token => r = q /\ p = o

WaitersUntold ==
  \A r \in DOMAIN rooms : rooms[r].stage = "waiting" =>
    \A p \in DOMAIN rooms[r].seat, b \in DOMAIN session :
      session[b].token # rooms[r].seat[p].token

GamesFull ==
  \A r \in DOMAIN rooms : rooms[r].stage # "waiting" => IsRoomFull(rooms[r])

ContextsOpen == \A s \in DOMAIN context : conn[s] = "open"

(* The inductive invariant.                                                *)
OnlineInv ==
  /\ TypeOK
  /\ SeatHolders
  /\ WaitingRooms
  /\ AddressesAgree
  /\ NoGhosts
  /\ TokensKnown
  /\ TokensDiffer
  /\ WaitersUntold
  /\ GamesFull
  /\ ContextsOpen

(* A game that a ghost keeps in the store.                                 *)
Haunted(r) ==
  rooms[r].stage = "playing" /\ \E p \in rooms[r].online : Forsaken(r, p)

(* Every room nobody attends any more is removed sooner or later, unless   *)
(* someone comes back to it or a player's socket went off to another room, *)
(* whose game is kept for ever: lost connections, in whatever order they   *)
(* are noticed, leave nothing behind.                                      *)
ReleasedRoomsGo ==
  \A r \in Rooms :
    (r \in DOMAIN rooms /\ ~Attended(r) /\ ~Haunted(r))
      ~> (r \notin DOMAIN rooms \/ Attended(r))

(* What docs/SECOND_PASS_OPTIMIZATION.md says of games in progress: they   *)
(* are removed when both sides have been disconnected for two hours.  The  *)
(* late disconnection of a socket already replaced marks a player who is   *)
(* back as disconnected, and the game that player attends can go.          *)
GamesRemovedWhenBothGone ==
  [][\A r \in DOMAIN rooms \ DOMAIN rooms' :
        rooms[r].stage = "playing" => ~Attended(r)]_vars
=============================================================================
