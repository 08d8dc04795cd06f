# Hanamikoji: a verification development

TLA+ specifications of the Hanamikoji code base: the game engine and the page
it is played on, the online server and the browser's socket, the Durable Object
room and the offline peer-to-peer mode, with TLC configurations that check them
on small instances and TLAPS proofs of what holds of every instance. Paths below
are relative to `src/`.

## 1. The system

Hanamikoji is a two-player card game over up to three rounds. Seven geishas are
courted with 21 item cards; a player wins with four geishas or eleven charm
points at the end of a round. The repository plays it in several ways over one
engine.

| Part | State it keeps | Operations | Talks to |
|---|---|---|---|
| **Game engine** `packages/engine`, `packages/shared` | one immutable `EngineState`: deck, hands, secrets, used actions, items at the geishas, discards, the pending offer, owners, scores, round, phase, winner | `reducer`: draw, play (secret, discard, gift, competition), resolve a choice, set connected | called synchronously by every host of a game |
| **Online gateway** `packages/server/src/socket`, `game` | `RoomStore.rooms`, a `ClientContext` for each socket, a `GameRoom` for each match; in browsers the stored session | `joinRoom`, `resumeGame`, `leaveRoom`, `gameAction`, `disconnect`, the sweep of every minute | browsers by Socket.io; the engine |
| **Offline P2P session** `packages/p2p`, `packages/client/src/p2p` | `HostRuntime` (two tables of players, ready flags, engine state, event log), its snapshot in localStorage; `ClientRuntime` of each player, its session in localStorage; a data channel | join and resume, ready, start, intents, synchronisation, presence, restoring a host | host and guest over a WebRTC data channel, host's player in memory |
| **Invite relay** `packages/server/src/signaling`, `packages/client/src/p2p/signalingClient.ts` | invites with at most one answer and an expiry; the host's polling | create, get, submit, read-and-delete, delete, expiry | HTTP, polled by the host's page |
| **Game page** `packages/client/src/pages/Game.tsx` and its panels and dialogs; `packages/shared/src/playerView.ts` | the cards and the action selected, which dialogs are open, the last view | select, confirm, choose, close; states and hints from the server | the gateway or the offline session, over one connection at a time |
| **Durable Object room** `apps/server/src/room.ts` | engine state (persisted), seats and sockets (not persisted), queues, timers of thirty seconds | connect, join, draw, play, resolve, leave, close, timeout | WebSocket |
| **Client socket** `packages/client/src/network` | the current socket, the address it was dialed at, a send queue | join (always on a new connection), emit, disconnect, events of sockets present and past | WebSocket |
| **Legacy WebSocket server** `packages/server/src/core` | rooms and players | as the gateway, older | ws |
| **Deck and random numbers** `packages/engine/src/rules` | a 32-bit seed | shuffle, deal | engine |
| **Codecs, user interface, deployment** | none of interest | | |

What is hard in each, and what would make it correct:

* *Engine.* Sequential, but a match is a hundred commands deep. A card doubled
  or lost shows rounds later; a turn that passes wrongly after a choice, a deal
  one card short, a last round counted twice, two players at a goal at once.
  Correct: cards are conserved, the turns alternate, the deal pays for the
  actions, scores are those of the owners, every match ends, and the whole
  implements a simple account of rounds and owners.
* *Online gateway.* Handlers run to the end, so the interleaving is of events:
  a browser may reconnect and resume its seat before the server notices that the
  old socket is gone; room ids are reused; sessions outlive rooms; the sweep
  comes at any time. Correct: a seat is acted for only from the browser that
  was given its token; nobody is matched with a player who has gone; a player who
  counts as connected is, unless its socket went off to another room; rooms nobody
  attends go.
* *Offline session.* Real concurrency of two pages, a channel that dies with
  what is in flight, an ICE state that is taken for presence although the
  channel may work, requests that are repeated until answered, storage that may
  refuse to store, and restarts of the host from what it stored. Correct: the
  tables agree, the guest sees the host's game and nothing else, no move is
  played that was not made on the present game, seats survive failures, and
  there is one game that only grows.
* *Invite relay.* Reading an answer deletes it, over a network that loses
  responses; polls in flight outlive `stop()`; answers come from the relay and
  from pasted text at once. Correct: of the guests of a link at most one is
  promised a connection, the connection gets an answer to its own offer and keeps
  the first it gets, and an accepted answer arrives or its host hears what became
  of it.
* *Game page.* It acts on the last view it was sent while the game moves on; the
  hints that open and close its dialogs are sent once and may be lost with the
  connection; commands in a connection given up may still arrive, a resumption
  among them, which takes the game's address away. Correct: a page that has the
  address and has heard all there is to hear shows the game as it is and offers
  the choice that is awaited of its player; no stale click breaks the game.
* *Durable Object room.* Seats by arrival, late closes of sockets already
  replaced, sends that fail before the close is heard of, timers that outlive
  their reason, a restart that keeps the game and forgets seats and timers.
  Correct: one seat for a client, nobody counts as connected who is known to be
  gone, no message but the greeting overtakes those that wait, and a deserted room
  becomes free.
* *Client socket.* Switching rooms gives up a socket that may be connecting, open
  or failing, and its last events come later; listeners of `connect` emit before
  the queue is flushed. Correct: one live connection, messages once and in order
  but for what those listeners emit, a status that tells how things stand, and no
  attempt that hangs.

`PROJECT.json` lists every component, and under `hazards` each of these at its
line with the properties that cover it.

## 2. The modules

| Module | Models | State |
|---|---|---|
| `HanamikojiRules` | `winCheck.ts`: majorities, scores, victory, as pure operators | – |
| `HanamikojiMatch` | abstract: a match is a succession of scored rounds | owners, round, result |
| `HanamikojiEngine` | `reducer.ts`, `roundFlow.ts`, `actionEffects.ts`, `deck.ts` | 14 variables, one for each field of `EngineState` that matters |
| `HanamikojiMatch_proofs` | theorems about `HanamikojiMatch` and the rules | |
| `HanamikojiEngine_proofs` | theorems about `HanamikojiEngine`: types, card accounting, turns, termination, cards that stay down, scores, the refinement, the deal | |
| `GamePage` | `Game.tsx`, `ActionPanel`, `PlayerHand` and the dialogs, `playerView.ts`, and the events of `socket/index.ts` and `SocketContext.tsx` for one player; EXTENDS `HanamikojiEngine` | the page, its connection, commands and events on their way, the connections given up |
| `GamePage_proofs` | theorems about `GamePage` | |
| `OnlineRooms` | `socket/index.ts`, `RoomStore.ts`, and `SocketContext.tsx`, `App.tsx`, `Lobby.tsx` for what browsers send and keep | rooms, sockets, contexts, sessions |
| `OnlineRooms_proofs` | theorems about `OnlineRooms` | |
| `DurableRoom` | `apps/server/src/room.ts` | seats, sockets and what they act for, the game, queues, timers |
| `DurableRoom_proofs` | theorems about `DurableRoom` | |
| `SocketClient` | `createSocketClient.ts` | the current socket, all sockets' states, queue, what was sent |
| `SocketClient_proofs` | theorems about `SocketClient` | |
| `SharedGame` | abstract: one game that only grows | the history |
| `P2PSession` | `HostRuntime.ts`, `ClientRuntime.ts`, the data channel transport, `offlineSession.ts`, `storage.ts` | host, guest, snapshot, session, channel |
| `P2PSession_proofs` | theorems about `P2PSession` | |
| `InviteRelay` | `InviteStore.ts`, `routes.ts`, `signalingClient.ts`, and of `offlineSession.ts` and the WebRTC transport how an answer is read and applied | invites, polls, imports, what hosts and guests were told |
| `InviteRelay_proofs` | theorems about `InviteRelay` | |
| `MCMatch`, `MCEngine`, `MCGamePage`, `MCOnlineRooms`, `MCDurableRoom`, `MCP2PSession`, `MCInviteRelay` | instances for TLC (`SocketClient` needs none) | |

`HanamikojiEngine` EXTENDS the rules and instantiates `HanamikojiMatch` with a
refinement mapping (`MatchResult`); `GamePage` composes the engine with a page
and the connection between them; `P2PSession` instantiates `SharedGame`.

### Engine

A state is the fields of `GameState`. Piles are sets of cards, since nothing
depends on their order but the deck's, which is a sequence with its top last.
Items at a geisha are derived: a card lies at the geisha its id names
(`getCharmFromCardId`), so `placed[p]` with `CharmOf` is
`geishas[g].items[p]`. `Draw`, `PlaySecret`, `PlayDiscard`, `PlayOffer`,
`Resolve` are the accepted commands. A command that completes an action builds
the table it leaves and goes through `AdvanceAfterCompletedAction`, which
scores and ends the match or deals the next round when all actions are used,
all within the step as in the code. A rejected command throws and leaves the
old state with the caller, so it is no step. The shuffle is a choice from the
constant `Shuffles`. `APPLY_ROUND_SETUP` is accepted only while
`meta.needsRoundSetup`, which nothing in the repository sets: it is left out.
`SET_CONNECTED` writes only connection fields, which `OnlineRooms` has.

### Online gateway

`rooms[r]` is a `RoomCtx` (seats with socket and token) and what the gateway
knows of its game: the stage, `players[p].connected` (`online`) and
`players[p].socketId` (`addr`). A socket is one connection of a browser.
`Connect` includes the attempt to resume that `SocketContext` makes at once.
`Disconnect` is when the *server* notices, at any later time; that is where the
interesting interleavings come from. `CleanupExpiredRooms` takes any rooms that
`getCleanupReason` lets go, since any of them may have been idle for long
enough. A join is taken from any socket, one that has a seat or is in its own
waiting room included (`MayJoin`): neither the server nor the lobby, whose buttons
are enabled while a stored session is being resumed, keeps it from that.
`AttachToRoom` then overwrites the context, and the seat left behind is never
told; the history variable `forsaken` remembers it. A generated room id (2^24 of
them) may be that of a room long gone which browsers still remember and live
connections still have as their context (`GeneratesRoomId`); the history variable
`since` tells contexts that are older than the room. A room is left only from the
final score. The event `startGame`, which no client sends, is left out.

### Game page

The page of one player over the engine: every engine step is a command of that
player that the server has read (`HandleCommand`, `HandleStray`) or a move of the
opponent (`OpponentActs`), and is followed within the step by the events
`emitPostDispatchEvents` sends him. `page` holds React's states of `Game.tsx` and
the last view; `Dialogs` is the effect on `[pendingAction, currentAction]`, which
runs on every new state because every state brings a new `pendingAction` object.
A dialog covers the page: `Covered` keeps what lies under it from being clicked.
`Drop` may come at any time, also before a resumption has been read: it loses the
events on their way but leaves the old connection's commands to the server, which
may read them (`HandleStray`) long after the page has resumed on a new one. If
what it reads is a resumption, the old connection gets the game's address
(`conn = "astray"`): the page's own commands still count and are answered, but
states and hints go to the old one. A page that is loaded anew comes up in the
lobby until the first state. A choice is sent as an index: one that was meant for
an earlier offer takes some group of the present one (`Performs`).
`createPlayerView` is `MyView`.

### Durable Object room

`players` maps the seats taken to `PlayerConnection`s; `bound` is the closure of
each socket's handlers, which keep the seat they were given whoever holds it by
now. `PlayerConnection` seats by client id, else by how many are there, and greets
the newcomer before it flushes what waited for the seat. A send on a connection
that is broken, though its close has not been heard of, may be queued or lost
(`Sent`), and a flush on one may break off anywhere (`Greeted`). `Message` takes
any message from any socket at any time. `SocketClosed` is the close event, after
`Break` and perhaps after the client is back. `timers[p]`
counts the pending thirty-second timeouts of a seat; each frees the seat if its
player is not connected, whatever set it. `Restart` keeps the game only. The
room reads `publicState` of an engine state that has no such field any more, so
states it sends are empty and naming a phase throws: the model has that, a
command is either answered to its sender or followed by a broadcast and an error.

### Client socket

`sockets[s]` is a WebSocket's `readyState`; a socket that is closed stays
"closing" until its close event has been heard, and its number is then free for
another. A current connection that the network takes down is "ending" first: the
browser's `CLOSING`, in which `connected` is still true and messages are queued.
The attempt token of the code and its test `ws !== socket` ask one question here.
A join is always emitted on a new connection, by way of the queue. When that
opens, the listeners of `connect` run before the queue is flushed: they may emit
(`Opened`; the history variable `hasty` tells these messages), join or
disconnect. `FailBeforeOpen` goes on to the next address or reports `connect_error`.

### Offline session

The host's own player sits on `MemoryTransport`, whose delivery is a nested
call: its operations are single steps (`HostReady`, `StartGame`, `HostPlays`).
The guest's messages travel in `toHost` and `toGuest`. A game is the *history*
of its moves; a history stands for the state, for a player's view and for the
view's hash, and its length for `stateVersion`. So two states of the same
version on different lines are told apart exactly as hashes would tell them
apart. `Saved` is a write to localStorage that may be refused silently
(`safeSet`) when `SavesFail`. `HostRestart` is the host's page closed or killed
and opened again from the snapshot, at any moment between two handlers, with or
without the host's own session (both roles share one storage key). `Dial` is
the guest's page that takes the new offer, with its session or as a stranger.
`HostSeesGuest` and `HostMissesGuest` are the ICE state's changes as the host
endpoint sees them, independent of the channel itself as in
`WebRTCDataChannelTransport`. Tokens are reused once nobody holds them, which
keeps the instance finite; random ones never collide. The first save of a new
room is assumed to work. Messages that only inform the user are left out.

### Invite relay

A room stands for one call of `createHostOfflineSession`: its peer connection, its
offer and its invite have no other names. A guest stands for one call of
`createPlayerOfflineSession` and for the answer it makes. `invites` is the store
(a room in its domain has an unexpired invite, whose value is the answer or
`Nobody`). Every request is split where the code awaits it: `posts` and `deletes`
are requests on their way; `poll[r]` is the poll in flight and then its response,
read by `PollReturns` whether or not the polling has been stopped meanwhile, as in
`tick`; a guest's submission is accepted by the relay first (`RelayAccepts`) and
the guest told later (`Submitted`), or never. A request that is lost, answered
with 429 or failed looks the same to the code that sent it. `importing` holds the
answers between `readPlayerAnswerSignal` and `setRemoteDescription`, at the two
awaits of that path; pasted texts (`Texts`) and polled answers go the same way.
Setting an answer may fail, which the host is told if it has none yet. `Dispose`
leaves the poll in flight, `Kill` (the page closed) does not; a restored session
may be disposed of before its offer has been made (`DisposeEarly`), and then polls
for a page that is gone. An invite lives at least thirty seconds
(`normalizeTtlMs`) and its host waits two and a half for it, so it does not expire
before. The server of this repository does not mount the signaling router (only
its tests do), so deployments put it in place; the model is of the routes as
written.

## 3. The runs

| Run | Instance | Shows |
|---|---|---|
| `match` | the real seven geishas, values, goals, three rounds | An undecided match has nobody at a goal (so the perfect tie of `checkVictory` is unreachable); charm decides first. Exhaustive over every outcome of every round of the real game. |
| `engine_rounds` | 3 geishas, actions secret, discard and gift, 2 rounds | Turns, stored scores, hands that pay for the actions, termination, cards that stay down, and refinement of `HanamikojiMatch`. |
| `game_page` | 3 geishas, gift and competition, 1 round; one connection given up at a time, one command and one batch of events on their way | The page offers the choice that is awaited, and cards are conserved, whatever stale or stray commands arrive; the inductive invariant `PageInv`, with the types and that a selection fits its action. |
| `online_rooms` | 2 browsers, one with 2 connections, 2 room ids, 4 seats taken | Seats, matching, addresses, no ghosts but those of seats left by a second join; every other room nobody attends goes (liveness). |
| `online_late_disconnect` | 2 browsers with 2 connections each | *Violated*: see section 5. |
| `p2p_session` | 3 moves, 2 requests in flight, storage works | Tables agree, no gaps in views, seats survive, refinement of `SharedGame`; the inductive invariant `SessionInv`, types included; a connected guest sees every state (liveness). |
| `p2p_forks` | 2 moves, 1 request in flight, storage may fail | The guest sees the host's game whatever line it is on; every move was made on the game it was added to (`InformedMoves`). |
| `invite_relay` | 2 rooms, 2 guests, room for 1 invite, any text pasted | Promises, answers that fit and stay, and expiry; the inductive invariant `RelayInv`. |
| `invite_arrives` | 1 room, 2 guests, nothing pasted | An accepted answer arrives, or expiry or its refusal is told (liveness). |
| `invite_bad_paste` | 1 room, 1 guest, texts that are no answers | *Violated*: see section 5. |
| `durable_room` | 3 clients, 4 sockets, 2 timers for a seat | `RoomInv`; a deserted room becomes free (liveness). |
| `socket_client` | 4 sockets, 3 addresses, 5 messages | One connection, messages once and in order but for those of `connect`'s listeners, status, no attempt hangs (liveness). |

Why the bounds are enough. *Engine:* the hand, the deck and the number of cards
follow from the action types (`DealAssumption`) exactly as 6, 8 and 21 follow from
the four, so a deal that is short by one is short in every instance. Every action
type occurs in some run, immediate ones and offers together; two rounds have each
player open one; three geishas worth 1, 1, 3 have one that meets the charm goal
alone and ties between the others, but no conflict of count against charm: that is
left to `match`, which covers the real values and the real three rounds. The
proofs cover every other size. *Page:* gift and competition are the actions that
need a choice, and in `game_page` they use the dialogs one after the other and
both at once; of cards alike to the page one is tried (`Considered`). One command
in flight already meets a game that has moved on, and one connection given up at a
time, lost before or after it has resumed, already strands the page; more are left
to the proofs, which bound neither. `MaxEvents` bounds when another batch may
start, not its length. *Durable room:* a third client is the newcomer, a second
socket of one client the replaced one, two timers the one that outlives its
reason. *Client socket:* one current socket and three on their way out; three
addresses are a first, a middle and a last one. *Online:* two browsers are the
fewest with a stranger; a second connection of one gives the replaced socket; two
rooms and four seats give a second match under an old id, or after a seat was
left. *Offline:* the real number of players; two moves are enough for two lines of
the game to part and a third for a stale move after it; two requests in flight for
duplicated joins and an intent behind a join. *Relay:* two guests race for a link;
a second room gives the stranger's answer and fills the store. Restarts, deaths of
the channel and changes of presence are not bounded.

Deadlock is checked for the offline session. The engine, the match and the page
end when the match does, `OnlineRooms` when every connection of the instance has
been used, `InviteRelay` when all is told, and the client socket when all messages
are emitted; a Durable Object room may stand still. Those runs allow it.

## 4. Fairness

`ReleasedRoomsGo` assumes `WF(SweepReaches(r))`: the sweep is a `setInterval` of
one minute, and a room nobody is connected to is not touched by any handler, so
its idle time passes every limit. Nothing is assumed of rooms that are attended.

`GuestCatchesUp` assumes `WF(HostReceive)` and `WF(GuestReceive)`: an open SCTP
channel delivers, and handlers are synchronous. Nothing is assumed of players,
of presence, of restarts or of the channel staying up.

`AnswerArrives` assumes `WF(Tick)` (an interval of one second that is cleared
only by `stop`), `SF(RelayPoll)` and `SF(PollReturns)`: a host that asks over
and over is not answered with a failure for ever (the rate limit of 120 polls a
minute is above the sixty it makes); and that imports settle (`WF`), as promises
of the browser do. Nothing is assumed of guests, of the creation and deletion of
invites or of expiry.

`RoomBecomesFree` assumes `WF(SocketClosed(s))`: the runtime reports every
broken connection, a TCP timeout at the latest; and `WF(Timeout(p))`: timers go
off. Nothing is assumed of clients or of restarts but what the property itself
says, that nobody dials any more.

`AttemptsSettle` assumes that a socket which is dialed opens or fails and that
one which is closed gets its close event, as the WebSocket standard has it.
Nothing is assumed of the server or of the user.

## 5. Findings

`online_late_disconnect`. `docs/SECOND_PASS_OPTIMIZATION.md` says that a game in
progress is removed once *both* sides are disconnected for two hours. A socket
keeps its `ClientContext` when its seat is resumed from a new socket, and its
late `disconnect` marks the player, who is back, disconnected
(`packages/server/src/socket/index.ts:292`). If the opponent is away, the game
this player attends counts as fully disconnected and may be removed.

`invite_bad_paste`. The host's `applyAnswer` stops the relay polling before it
reads the pasted text (`offlineSession.ts:271`). If the text is refused, nothing
polls again: a guest who submits then is told to wait for the host to connect
(`offlineSession.ts:395`), and neither its answer nor the expiry of the invite
reaches the host.

Further things seen while modelling, which no run states. All but the first are
of a kind the repository says nothing about. The models do all of them.

*Gateway:* `joinRoom` is taken from a socket that has a seat already, and
`attachToRoom` overwrites its context (`socket/index.ts:183`). Nobody tells the
first room: the seat stays `connected: true`, no disconnection will ever name it,
and `getCleanupReason` keeps the game for ever though both sides are gone
(`RoomStore.ts:186`) where the document gives it two hours. The shortest way there
is a socket that creates a room, joins it itself as the second player and
disconnects. The lobby can send such joins: its buttons are enabled while the
stored session is being resumed, and every `error` enables them again while a join
is under way (`Lobby.tsx:62`). `NoGhosts` and `ReleasedRoomsGo` except these seats
(`forsaken`) and no others. A room id that is drawn again while a connection still
has the old room as its context lets that connection act for a seat of the new
one.

*Relay:* `tick` tests `stopped` for answers only, so a poll that was in flight
when an answer was pasted reports the deleted invite as expired to a host whose
room has its guest (`signalingClient.ts:175`), and if it brings the answer of
another guest of the link, that is consumed and dropped (`signalingClient.ts:170`)
while the guest waits; a session that is disposed of before its invite has been
made goes on to poll for it (`offlineSession.ts:244`); and `applyAnswer` of the
transport takes the failure of a second answer's `setRemoteDescription` for
success, whosever answer it was (`WebRTCDataChannelTransport.ts:144`).

*Durable Object room:* the seat of a newcomer is found by counting, so once p1's
seat has been freed a newcomer is put on p2 over the player who sits there
(`room.ts:85`) and gets the messages that were queued for him; the late close of a
socket that a reconnection has replaced ends the game of a player who is there
(`room.ts:115`); after a restart the game is back and the seats go by order of
arrival, not to those it was set up for (`room.ts:34`).

*Client socket:* neither a switch of rooms nor `disconnect()` empties the queue,
so a message meant for one room may be sent on another's connection
(`createSocketClient.ts:203`); what a listener of `connect` emits overtakes the
queue (`createSocketClient.ts:245`); `connected` stays true while a switch is
under way.

*Page:* a resumption that was still in a connection given up, and is read after
the page has resumed on a new one, moves the game's address to the dead connection
(`socket/index.ts:268`), and the page hears no more of the game until it resumes
once again; the competition dialog may be left open with fewer than four cards
selected when the `phaseChanged` that would have closed it is lost; a `gameOver`
that is lost never opens the final score, which is the page's only way out; a
choice sent twice, or late, may settle a later offer by its index.

## 6. Proofs

All are checked by `tlapm` to the last leaf and hold for every value of the
constants that satisfies the assumptions named in the modules. What these ask:

| Assumption | Asks | In the code |
|---|---|---|
| `RulesAssumption`, `EngineAssumption` | finite sets, natural numbers, shuffles that are permutations of the cards | `gameRules.ts`, `deck.ts` |
| `DealAssumption` | hands and deck are as large as the actions need | six cards, eight draws, 21 cards for the four actions |
| `GoalsAssumption` | the goals are majorities: twice a goal is more than there is | four of seven geishas, eleven of 21 charm points (`VICTORY_CONDITIONS`) |
| `TokensAssumption` | there are more tokens than can be held at once | random tokens do not run out |
| `ConsideredAssumption` | the picks explored are among the possible ones | a bound of the instance, not of the code |

The others (`MatchAssumption`, `PageAssumption`, `OnlineAssumption`, ...) only say
that constants are sets and numbers. Every run's TLC evaluates those of its
module.

**`HanamikojiMatch_proofs`.** `NoGoalWhileUndecided` and `CharmGoalAlwaysWins`,
from the inductive invariant `Decided` (`DecidedHolds`): a
result that names a player is what `VictoryOf` makes of the owners, and without
one nobody has won. The work is in the rules. That `VictoryOf` names somebody as
soon as anybody meets a goal (`VictoryDecides`) needs that two players cannot both
have eleven of 21 points, nor both four of seven geishas, so that the one with
more points is not tied with the other; and that the points of two disjoint sets
of geishas add up to at most all points there are. The sum over a set is a
recursion in the community modules, whose value depends on an order of the
elements, so additivity is an induction over the size of the set. The library's
induction rules take an operator and cannot be used here, but the *set* of the
sizes for which the claim holds can be named, and that a set of numbers which
holds 0 and successors holds all (`AllNumbers`) follows from its complement having
a least element. `EngineImplementsMatch` carries both over to the engine.

**`HanamikojiEngine_proofs`, cards.** `TypeCorrect`: `Spec => []TypeOK`, by
induction, one lemma per command; the commands that complete an action share
`AdvanceType`. `CardsAccounted`: `Spec => []CardAccounting`. Card accounting is
not inductive by itself: laying down a secret overwrites `secret[p]`, and offering
overwrites `pending`, which loses cards unless these were empty. Hence
`AccountingInv` adds `SecretsPlayed` (a secret lies only where the secret action
is used) and `ChoicePhase` (an offer is pending exactly in the select phases). The
argument for a step: each command moves a set of cards from one pile to another
(`MovedAccounted`: such a move keeps the piles disjoint and their union), a choice
is two such moves, revealing the secrets two more, and a new round deals afresh
(`DealAccounted`: an injective, onto shuffle gives two hands, a deck and one
hidden card that partition the cards; the hands take the even and odd places from
the top).

**`HanamikojiEngine_proofs`, turns and scores.** `TurnsDoAlternate`,
`EveryMoveDoesCount`, `CardsDoStayDown`, `ScoresDoFollowOwners` and
`EngineImplementsMatch`. The heart of the first is counting (`ActionCount`,
`AdvanceTurns`): whoever gets the turn has used as many actions as the opponent or
one less, so that if he had none left the round would be over. `MovesLeft` is
`Measure`, and `LeftAfter` says what a play takes off it; a new round costs the
six moves per action that `finishRound` brings back. The refinement is by steps: a
command that goes on maps to a stutter, one that completes a round to `EndRound`
(`AdvanceRefines`); the rules of the two instances are shown to be the same
(`SameRules`). That a fresh match scores nothing needs one value of the recursive
sum, that of the empty set (`CharmOfNone`).

**`HanamikojiEngine_proofs`, the deal.** `HandsDoCoverActions`: for every deal of
the size that `DealAssumption` requires, the real one included, hands and deck pay
for all actions left. Inductive is its first half (`Covers`), together with card
accounting: a card drawn is new to the hand, so the hand grows. The deal has the
right sizes because a shuffle is injective (`DealCovers`).

**`P2PSession_proofs`.** `InformedMovesHold`: `Spec => []InformedMoves`, for any
number of moves, requests and tokens, whether or not storage works. A game can go
back to an older line when the host is restored, so the induction needs that the
stored line is informed too, and that an intent in flight names a move that has
been made (its record of what was seen is what `IsFresh` compares): this is
`InformedInv`, one lemma per group of actions, all but two of which are "quiet"
(`QuietStep`: the game and the record stay, the snapshot is rewritten or not).
`LineGrows` is the heart: a move made looking at `g` may be added to `g`.
`OneGame`: if storage works, `Spec => ImplementsSharedGame`. The stored line is
then always the game, so a restoration is a stutter; and a move is never taken
twice because the game it was made on would be a proper beginning of itself
(`NotYetPlayed`).

`SessionInvHolds`: `Spec => [](SessionInv /\ InformedInv)`, and from it
`TypeCorrect`, `PeersAlwaysAgree`, `NeverAGap`, `GuestAlwaysSeesGame` and
`SeatsStayResumable`. What the guest shows depends on all that is on its way to
it, so the induction is over the queue: `Follows` says of a queue that the guest
hears who it is before it sees the game, that every view in it is a beginning of
the game and continues the one it will find (`ShowsBefore` is what the guest will
show when it comes to a place of the queue), and that the last of them is the
present game if the guest counts as present. Three facts about queues carry every
step: a queue goes on following the game as it grows, as a message is taken in,
and as one is sent. `Channels` says that messages die with their channel;
`Remembered`, for a storage that works, that the snapshot is the present state and
that every identity anybody keeps leads back to its seat, which is what lets a
restored host and a returning guest find each other again. The host's tables are
inverse to each other because `Joined` and `BindPeer` write them together.

**`GamePage_proofs`.** `PagePlaysTheGame`: `PageSpec => Spec`. Commands come late,
twice or from a connection given up, but every step either is a step of the engine
or leaves its variables alone; so all of the engine's theorems hold of a page's
game (`PageCardsAccounted` is one). This and `PageTypeCorrect` rest on
`PageTypes`, where what matters is that what a connection given up holds is for
the engine or resumes the session, and never leaves the room. `PageDoesOffer`:
`PageSpec => []PageOffers`, from `PageInv` (`PageInvHolds`), the part of it called
`PageFollows`. A page that is behind may have any dialog open or shut, so that
speaks of the latest state: the last one on its way and what comes after it show
the game as it is (`LatestIsTrue`), a choice is asked for right after the state
that has it (`ChoicesFollow`), and when no state is on its way, a choice awaited
is offered or has been sent and not been read (`DialogsOpen`). The first and the
last are claimed only while the page has the game's address; without it the page
may still be told the end of the game and the answers to its own commands
(`Remarks`), which disturb neither. Two facts do most of the work: `ToldInv` (a
batch of events that begins with a state restores all of it, whatever went before)
and `ChoiceAccepted` (a choice of the offer that is pending is not turned away, by
`ChoicePhase` and `TurnsAlternate` of the engine, so that a choice that is dropped
was of an offer gone by, and a state is on its way that says so).

**`InviteRelay_proofs`.** `RelayInvHolds`: `Spec => []RelayInv`, and from it
`PromisesAreKept`, `AnswersFit`, `FirstAnswerIsKept`, `ExpiryIsFinal`, for any
rooms, guests, texts and capacity. None of the invariants is inductive alone. A
promise could be broken by an invite that is made twice, so `LifeCycle` says that
an invite is made once: while the request is under way there is no link and no
poll, and once a poll has taken the answer or found nothing, the invite is gone.
An answer fits because the offer a guest has opened does not change (`Answering`).
One lemma for each action; `Capacity` bounds the store whenever it shrinks.

**`OnlineRooms_proofs`.** `OnlineInvariant`: `Spec => []OnlineInv`, and from it
`SeatsStayWithTheirOwners`, `WaitersAreThere`, `OneAddressEach`, `GhostsAreForsaken`.
None is inductive alone: that a seat stays with its owner rests on tokens being
distinct over seats and sessions (`TokensDiffer`, `TokensKnown`), a waiting player
can only be absent if a departure has been told (`WaitersUntold`), and a game
knows the addresses of a full room only (`GamesFull`). One lemma for each handler,
`Connect` with the resumption it makes.

**`DurableRoom_proofs`.** `RoomInvariant`: `Spec => []RoomInv`. Its parts depend
on each other: a seat that somebody has left must have a timer, and a connected one
a socket that acts for it; messages may wait for a connected player only if that
socket is broken, so that its close, which is still to come, disconnects him.

**`SocketClient_proofs`.** `ClientInvariant`: `Spec => []ClientInv`, and from it
`NeverTwoConnections`, `SentOnceInOrder`, `StatusIsRight`. That no message but
those of `connect`'s listeners overtakes the queue needs `Flushed`: on an open
connection the queue is empty.

## 7. What is only model-checked

Every safety property of a passing run is a theorem. Liveness under fairness
(`ReleasedRoomsGo`, `GuestCatchesUp`, `AnswerArrives`, `RoomBecomesFree`,
`AttemptsSettle`) is beyond the prover and stays with TLC, on the instances above.
So do the two runs that show a violation, which are of instances by nature. What a
recursive operator computes is out of the prover's reach in general; of the one
recursion that the rules use, the sum of charm points, the theorems above
establish what they need (the value at the empty set, and additivity), not a
closed form.

## 8. Not modelled, and what is left

* *Legacy WebSocket server* (`packages/server/src/core`, `node/server.ts`,
  `worker/worker.ts`). The package's scripts start `src/index.ts`, which is the
  gateway. `node/server.ts` turns away the address the client dials, and
  `createNewGame` reads `publicState`, which the engine's state no longer has: it
  throws before a game is stored, so that no game ever begins. `worker.ts` echoes.
* *Random numbers and replay.* The engine model takes the shuffles as a constant
  set, so nothing depends on the generator but fairness of the deal; replay
  folds the reducer over a list and keeps no state.
* *Invite codec.* Compression and encoding of texts; the relay model has texts as
  values that are an answer or not.
* *User interface.* Rendering, layout and animation. The lobby keeps a user from
  nothing that `OnlineRooms` would have to know; what the game page lets him do is
  `GamePage`.
* *Commands nobody sends:* `APPLY_ROUND_SETUP`, `startGame`.
* *Messages that only inform:* heartbeats, lobby states and errors of the offline
  session, toasts.
* *Deployment* files and local databases.

What would come next: the page over the offline session instead of the gateway,
the host page's wiring of the relay into the session, and the measure of
`EveryMoveCounts` carried over to a page, whose player may also do nothing.
