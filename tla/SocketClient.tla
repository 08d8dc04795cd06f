---------------------------- MODULE SocketClient ----------------------------
(***************************************************************************)
(* createSocketClient of packages/client/src/network: the browser's end of *)
(* the WebSocket rooms.  A client keeps one current WebSocket and a queue  *)
(* of what could not be sent yet.  A join dials anew, trying one candidate *)
(* address after the other; the sockets it gives up live on until their    *)
(* last events have been heard, and those come at any time after.          *)
(*                                                                         *)
(* The server is whatever accepts, refuses and closes.  What it says only  *)
(* reaches the listeners of the client, and heartbeats leave no trace, so  *)
(* neither appears.  The attempt token and ws # socket ask one question    *)
(* here: an attempt is superseded exactly when ws is another socket.       *)
(***************************************************************************)
EXTENDS Naturals, Sequences

CONSTANTS
  Sockets,       \* the WebSocket objects that may be alive at one time
  Bases,         \* how many candidate addresses there are
  MaxEmits       \* bound: messages emitted

NoSocket == "none"

ASSUME ClientAssumption ==
  /\ NoSocket \notin Sockets
  /\ Bases \in Nat \ {0}
  /\ MaxEmits \in Nat

VARIABLES
  ws,            \* the current socket, NoSocket for null
  baseIndex,     \* the address it was dialed at
  sockets,       \* sockets[s]: its readyState; "closing" once it is given up
  connected,     \* what the client tells its user
  sendQueue,     \* messages, numbered as they were emitted
  sent,          \* the messages that went out on an open socket, in order
  emitted,       \* how many messages have been emitted
  hasty          \* history: those the listeners of 'connect' emitted

vars == <<ws, baseIndex, sockets, connected, sendQueue, sent, emitted, hasty>>

\* A socket is "ending" when its connection is lost and the event to come.
States == {"none", "connecting", "open", "ending", "closing"}

TypeOK ==
  /\ ws \in Sockets \cup {NoSocket}
  /\ baseIndex \in 1..Bases
  /\ sockets \in [Sockets -> States]
  /\ connected \in BOOLEAN
  /\ sendQueue \in Seq(1..MaxEmits)
  /\ sent \in Seq(1..MaxEmits)
  /\ emitted \in 0..MaxEmits
  /\ hasty \subseteq 1..MaxEmits

Init ==
  /\ ws = NoSocket
  /\ baseIndex = 1
  /\ sockets = [s \in Sockets |-> "none"]
  /\ connected = FALSE
  /\ sendQueue = <<>>
  /\ sent = <<>>
  /\ emitted = 0
  /\ hasty = {}

-----------------------------------------------------------------------------
Live(s) == sockets[s] \in {"connecting", "open"}

\* ws.close(), if there is anything to close
CurrentClosed ==
  [s \in Sockets |-> IF s = ws /\ Live(s) THEN "closing" ELSE sockets[s]]

Superseded(s) == ws # s

\* Mutant: the socket left behind stays open.
ConnectLeavingOld(b) ==
  \E s \in Sockets \ {ws}, i \in b..Bases :
    /\ sockets[s] = "none"
    /\ ws' = s
    /\ baseIndex' = i
    /\ sockets' = [sockets EXCEPT ![s] = "connecting"]

(* connectWithFallback from address b on.  The constructor throws for some *)
(* addresses, not for the last: that is the page's own origin.             *)
ConnectWithFallback(b) ==
  \E s \in Sockets \ {ws}, i \in b..Bases :
    /\ sockets[s] = "none"
    /\ ws' = s
    /\ baseIndex' = i
    /\ sockets' = [CurrentClosed EXCEPT ![s] = "connecting"]

SendOrQueue ==
  /\ emitted < MaxEmits
  /\ emitted' = emitted + 1
  /\ IF ws' # NoSocket /\ sockets'[ws'] = "open"
     THEN sent' = Append(sent, emitted') /\ UNCHANGED sendQueue
     ELSE sendQueue' = Append(sendQueue, emitted') /\ UNCHANGED sent
  /\ UNCHANGED hasty

\* emit('joinRoom'): always on a new connection, and so by way of the queue.
EmitJoin == ConnectWithFallback(1) /\ SendOrQueue /\ UNCHANGED connected

\* emit of anything else; before the first joinRoom it is ignored.
Emit ==
  /\ ws # NoSocket
  /\ UNCHANGED <<ws, baseIndex, sockets, connected>>
  /\ SendOrQueue

\* disconnect(): the queue stays.
Disconnect ==
  /\ ws # NoSocket
  /\ ws' = NoSocket
  /\ sockets' = CurrentClosed
  /\ connected' = FALSE
  /\ UNCHANGED <<baseIndex, sendQueue, sent, emitted, hasty>>

\* Mutant: the queue is flushed from its other end.
FlushBackwards(out) ==
  /\ sent' = out \o [i \in DOMAIN sendQueue |-> sendQueue[Len(sendQueue) + 1 - i]]
  /\ sendQueue' = <<>>

\* What the queue holds goes out after the messages in out.
FlushQueue(out) == sent' = out \o sendQueue /\ sendQueue' = <<>>

(* onopen of the socket that was dialed.  The listeners of 'connect' hear  *)
(* of it before the queue is flushed: what they emit, here the messages up *)
(* to n, goes out at once, and they may join or disconnect in their turn,  *)
(* so that nothing is flushed.                                             *)
Opened(s) ==
  /\ sockets[s] = "connecting"
  /\ \E n \in emitted..MaxEmits :
       LET out == sent \o [i \in 1..(n - emitted) |-> emitted + i]
       IN  /\ hasty' = hasty \cup (emitted + 1)..n
           /\ \/ /\ sockets' = [sockets EXCEPT ![s] = "open"]
                 /\ connected' = TRUE
                 /\ FlushQueue(out)
                 /\ emitted' = n
                 /\ UNCHANGED <<ws, baseIndex>>
              \/ /\ n < MaxEmits
                 /\ ConnectWithFallback(1)
                 /\ connected' = TRUE
                 /\ sent' = out /\ sendQueue' = Append(sendQueue, n + 1)
                 /\ emitted' = n + 1
              \/ /\ ws' = NoSocket
                 /\ sockets' = CurrentClosed
                 /\ connected' = FALSE
                 /\ sent' = out
                 /\ emitted' = n
                 /\ UNCHANGED <<baseIndex, sendQueue>>

\* The event may have been under way when the socket was closed for another.
OnOpen(s) ==
  \/ Opened(s)
  \/ sockets[s] = "closing" /\ Superseded(s) /\ UNCHANGED vars

\* Mutant: after a failure the same address is dialed again.
FailBeforeOpenRetries ==
  /\ connected' = FALSE
  /\ ConnectWithFallback(baseIndex)

\* The next address, or connect_error.
FailBeforeOpen ==
  /\ connected' = FALSE
  /\ IF baseIndex < Bases
     THEN ConnectWithFallback(baseIndex + 1)
     ELSE sockets' = CurrentClosed /\ UNCHANGED <<ws, baseIndex>>

\* onerror of a socket that does not open; its close event is still to come.
OnError(s) ==
  /\ sockets[s] = "connecting"
  /\ FailBeforeOpen
  /\ UNCHANGED <<sendQueue, sent, emitted, hasty>>

\* The connection is lost: the socket knows, its close event is to come.
ConnectionLost(s) ==
  /\ sockets[s] = "open"
  /\ sockets' = [sockets EXCEPT ![s] = "ending"]
  /\ UNCHANGED <<ws, baseIndex, connected, sendQueue, sent, emitted, hasty>>

\* Mutant: the last event of a socket given up is taken for the present one's.
OnCloseOfAny(s) ==
  /\ sockets[s] \in {"ending", "closing"}
  /\ sockets' = [sockets EXCEPT ![s] = "none"]
  /\ connected' = FALSE
  /\ UNCHANGED <<ws, baseIndex, sendQueue, sent, emitted, hasty>>

(* onclose: the end of the current connection is told to the user, and     *)
(* there is no attempt to restore it.                                      *)
OnClose(s) ==
  /\ sockets[s] \in {"ending", "closing"}
  /\ sockets' = [sockets EXCEPT ![s] = "none"]
  /\ connected' = IF Superseded(s) THEN connected ELSE FALSE
  /\ UNCHANGED <<ws, baseIndex, sendQueue, sent, emitted, hasty>>

Next ==
  \/ EmitJoin
  \/ Emit
  \/ Disconnect
  \/ \E s \in Sockets : OnOpen(s) \/ OnError(s) \/ ConnectionLost(s) \/ OnClose(s)

Spec == Init /\ [][Next]_vars

\* A socket that is dialed opens or fails, and one that is closed ends.
FairSpec ==
  /\ Spec
  /\ \A s \in Sockets :
       /\ WF_vars(sockets[s] = "connecting" /\ (OnOpen(s) \/ OnError(s)))
       /\ WF_vars(OnClose(s))

-----------------------------------------------------------------------------
(* Through switches, fallbacks and late events a client never has two      *)
(* connections of its own open or opening: the only one is the current one.*)
OneConnection == \A s \in Sockets : Live(s) => s = ws

(* Whatever connection a message has to wait for, and however many are     *)
(* given up meanwhile, it goes out once, and no later message overtakes it *)
(* but those that the listeners of 'connect' emit.                         *)
OnceInOrder ==
  LET all == sent \o sendQueue
  IN  /\ Len(all) = emitted
      /\ \A i \in DOMAIN all : all[i] \in 1..emitted
      /\ \A i, j \in DOMAIN all :
           i < j => all[i] # all[j] /\ (all[i] > all[j] => all[i] \in hasty)

(* Unless a switch is under way, connected says how things stand, as far   *)
(* as the socket's events have told; the late events of sockets given up   *)
(* do not disturb it.                                                      *)
Attempting == ws # NoSocket /\ sockets[ws] = "connecting"

StatusSettles ==
  ~Attempting => (connected <=> ws # NoSocket /\ sockets[ws] \in {"open", "ending"})

(* What makes that so: on an open connection nothing is left to overtake.  *)
Flushed == ws # NoSocket /\ sockets[ws] = "open" => sendQueue = <<>>

ClientInv ==
  /\ TypeOK
  /\ OneConnection
  /\ OnceInOrder
  /\ StatusSettles
  /\ Flushed

(* No attempt hangs: it ends in a connection or in an error, whatever      *)
(* addresses fail on the way, unless the user goes on to something else.   *)
AttemptsSettle ==
  \A n \in 0..MaxEmits : (Attempting /\ emitted = n) ~> (~Attempting \/ emitted # n)
=============================================================================
