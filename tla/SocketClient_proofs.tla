------------------------ MODULE SocketClient_proofs ------------------------
(***************************************************************************)
(* Proofs about SocketClient, for any number of sockets, addresses and     *)
(* messages: one connection at a time, a status that is right whenever no  *)
(* attempt is under way, and every message sent once, in an order that     *)
(* only what a listener of 'connect' emits departs from.                   *)
(***************************************************************************)
EXTENDS SocketClient, SequenceTheorems, TLAPS

-----------------------------------------------------------------------------
(* Sequences.                                                              *)

LEMMA Appended ==
  ASSUME NEW S, NEW a \in Seq(S), NEW b \in Seq(S), NEW x \in S
  PROVE  a \o Append(b, x) = Append(a \o b, x)
<1>1. a \o b \in Seq(S) /\ Append(b, x) \in Seq(S)
  BY ConcatProperties, AppendProperties
<1>2. Append(b, x) = b \o <<x>> /\ Append(a \o b, x) = (a \o b) \o <<x>>
  BY <1>1, AppendIsConcat
<1>3. QED
  BY <1>2, ConcatAssociative

\* OnceInOrder, of any messages.
Ordered(all, n, late) ==
  /\ Len(all) = n
  /\ \A i \in DOMAIN all : all[i] \in 1..n
  /\ \A i, j \in DOMAIN all :
       i < j => all[i] # all[j] /\ (all[i] > all[j] => all[i] \in late)

LEMMA OneMore ==
  ASSUME NEW n \in Nat, NEW all \in Seq(Nat), NEW late, Ordered(all, n, late)
  PROVE  Ordered(Append(all, n + 1), n + 1, late)
<1> DEFINE more == Append(all, n + 1)
<1>1. /\ Len(more) = n + 1 /\ DOMAIN more = 1..(n + 1) /\ DOMAIN all = 1..n
      /\ more[n + 1] = n + 1 /\ \A i \in 1..n : more[i] = all[i] /\ all[i] \in 1..n
  BY DEF Ordered
<1> HIDE DEF more
<1>2. \A i \in 1..(n + 1) : more[i] \in 1..(n + 1)
  BY <1>1
<1>3. ASSUME NEW i \in 1..(n + 1), NEW j \in 1..(n + 1), i < j
      PROVE  more[i] # more[j] /\ (more[i] > more[j] => more[i] \in late)
  <2>1. CASE j = n + 1
    BY <1>1, <1>3, <2>1
  <2>2. CASE j # n + 1
    <3>1. i \in 1..n /\ j \in 1..n /\ more[i] = all[i] /\ more[j] = all[j]
      BY <1>1, <1>3, <2>2
    <3>2. QED
      BY <1>1, <1>3, <3>1 DEF Ordered
  <2>3. QED
    BY <2>1, <2>2
<1>4. Ordered(more, n + 1, late)
  BY <1>1, <1>2, <1>3 DEF Ordered
<1>5. QED
  BY <1>4 DEF more

(* New messages that go between: they are late, and only they overtake.    *)
LEMMA Between ==
  ASSUME NEW n \in Nat, NEW m \in Nat, n <= m, NEW a \in Seq(Nat), NEW b \in Seq(Nat),
         NEW late, Ordered(a \o b, n, late)
  PROVE  Ordered((a \o [i \in 1..(m - n) |-> n + i]) \o b, m, late \cup (n + 1)..m)
<1> DEFINE e == [i \in 1..(m - n) |-> n + i]
           old == a \o b
           new == (a \o e) \o b
           k == Len(a)
           d == m - n
<1>1. /\ e \in Seq(Nat) /\ Len(e) = d /\ k \in Nat /\ d \in Nat /\ Len(b) \in Nat
      /\ \A i \in 1..d : e[i] = n + i
  OBVIOUS
<1> HIDE DEF e
<1> DEFINE f == a \o e
<1>2. /\ f \in Seq(Nat) /\ Len(f) = k + d
      /\ \A i \in 1..k : f[i] = a[i]
      /\ \A i \in (k + 1)..(k + d) : f[i] = n + (i - k)
  <2>1. /\ f \in Seq(Nat) /\ Len(f) = k + Len(e)
        /\ \A i \in 1..Len(f) : f[i] = IF i <= k THEN a[i] ELSE e[i - k]
    <3>1. e \in Seq(Nat)
      BY <1>1
    <3>2. QED
      BY <3>1, ConcatProperties
  <2> HIDE DEF f, k, d
  <2>2. ASSUME NEW i \in 1..k PROVE f[i] = a[i]
    <3>1. i \in 1..Len(f) /\ i <= k
      BY <1>1, <2>1
    <3>2. QED
      BY <2>1, <3>1
  <2>3. ASSUME NEW i \in (k + 1)..(k + d) PROVE f[i] = n + (i - k)
    <3>1. i \in 1..Len(f) /\ ~(i <= k) /\ i - k \in 1..d
      BY <1>1, <2>1
    <3>2. QED
      BY <1>1, <2>1, <3>1
  <2>4. QED
    BY <1>1, <2>1, <2>2, <2>3
<1> HIDE DEF f
<1>x. /\ old \in Seq(Nat) /\ Len(old) = k + Len(b)
      /\ \A i \in 1..Len(old) : old[i] = IF i <= k THEN a[i] ELSE b[i - k]
  BY ConcatProperties
<1>y. /\ new \in Seq(Nat) /\ Len(new) = k + d + Len(b)
      /\ \A i \in 1..Len(new) : new[i] = IF i <= k + d THEN f[i] ELSE b[i - (k + d)]
  BY <1>2, ConcatProperties DEF f
<1>z. Len(old) = n
  BY DEF Ordered
<1> HIDE DEF old, new, k
<1>3. /\ \A i \in 1..k : new[i] = old[i]
      /\ \A i \in (k + 1)..(k + d) : new[i] = n + (i - k)
      /\ \A i \in (k + d + 1)..m : new[i] = old[i - d]
  <2>1. ASSUME NEW i \in 1..k PROVE new[i] = old[i]
    <3>1. i \in 1..Len(new) /\ i \in 1..Len(old) /\ i <= k + d /\ i <= k
      BY <1>1, <1>x, <1>y
    <3>2. QED
      BY <3>1, <1>2, <1>x, <1>y
  <2>2. ASSUME NEW i \in (k + 1)..(k + d) PROVE new[i] = n + (i - k)
    <3>1. i \in 1..Len(new) /\ i <= k + d
      BY <1>1, <1>y
    <3>2. QED
      BY <3>1, <1>2, <1>y
  <2>3. ASSUME NEW i \in (k + d + 1)..m PROVE new[i] = old[i - d]
    <3>1. i \in 1..Len(new) /\ ~(i <= k + d) /\ i - d \in 1..Len(old) /\ ~(i - d <= k)
      BY <1>1, <1>x, <1>y, <1>z
    <3>2. (i - d) - k = i - (k + d)
      BY <1>1
    <3>3. QED
      BY <3>1, <3>2, <1>x, <1>y
  <2>4. QED
    BY <2>1, <2>2, <2>3
<1>4. /\ new \in Seq(Nat) /\ DOMAIN new = 1..m /\ Len(new) = m /\ DOMAIN old = 1..n
      /\ k \in 0..n /\ k + d <= m /\ d = m - n
  <2>1. Len(new) = m /\ k \in 0..n /\ k + d <= m
    <3>1. /\ Len(new) = k + d + Len(b) /\ k + Len(b) = n /\ d = m - n
          /\ k \in Nat /\ Len(b) \in Nat
      BY <1>1, <1>x, <1>y, <1>z
    <3>2. QED
      BY <3>1
  <2>2. DOMAIN new = 1..m /\ DOMAIN old = 1..n
    BY <1>x, <1>y, <1>z, <2>1
  <2>3. QED
    BY <1>y, <2>1, <2>2
<1>5. /\ \A i \in 1..n : old[i] \in 1..n
      /\ \A i, j \in 1..n :
           i < j => old[i] # old[j] /\ (old[i] > old[j] => old[i] \in late)
  BY <1>4 DEF Ordered, old
<1> HIDE DEF d
<1>6. \A i \in 1..m : new[i] \in 1..m
  <2>1. ASSUME NEW i \in 1..m PROVE new[i] \in 1..m
    <3>1. CASE i <= k
      BY <1>3, <1>4, <1>5, <3>1
    <3>2. CASE i > k /\ i <= k + d
      BY <1>1, <1>3, <1>4, <3>2
    <3>3. CASE i > k + d
      <4>1. i - d \in 1..n /\ i \in (k + d + 1)..m
        BY <1>1, <1>4, <3>3
      <4>2. QED
        BY <1>3, <1>5, <4>1
    <3>4. QED
      BY <1>1, <1>4, <3>1, <3>2, <3>3
  <2>2. QED
    BY <2>1
<1>7. ASSUME NEW i \in 1..m, NEW j \in 1..m, i < j
      PROVE  /\ new[i] # new[j]
             /\ new[i] > new[j] => new[i] \in late \cup (n + 1)..m
  <2> DEFINE x == IF i <= k THEN i ELSE i - d
             y == IF j <= k THEN j ELSE j - d
  <2>1. CASE i \in (k + 1)..(k + d)
    <3>1. new[i] = n + (i - k) /\ new[i] \in (n + 1)..m
      BY <1>1, <1>3, <1>4, <2>1
    <3>2. new[i] # new[j]
      <4>1. CASE j <= k + d
        BY <1>1, <1>3, <1>4, <1>7, <2>1, <3>1, <4>1
      <4>2. CASE j > k + d
        <5>1. j - d \in 1..n /\ j \in (k + d + 1)..m
          BY <1>1, <1>4, <4>2
        <5>2. new[j] \in 1..n
          BY <1>3, <1>5, <5>1
        <5>3. QED
          BY <3>1, <5>2
      <4>3. QED
        BY <1>1, <1>4, <4>1, <4>2
    <3>3. QED
      BY <3>1, <3>2
  <2>2. CASE i \notin (k + 1)..(k + d) /\ j \in (k + 1)..(k + d)
    <3>1. i \in 1..k /\ i \in 1..n
      BY <1>1, <1>4, <1>7, <2>2
    <3>2. new[i] \in 1..n /\ new[j] = n + (j - k) /\ j - k \in 1..d
      BY <1>1, <1>3, <1>4, <1>5, <2>2, <3>1
    <3>3. QED
      BY <1>1, <3>2
  <2>3. CASE i \notin (k + 1)..(k + d) /\ j \notin (k + 1)..(k + d)
    <3>1. /\ x \in 1..n /\ y \in 1..n /\ x < y
          /\ i <= k \/ i \in (k + d + 1)..m
          /\ j <= k \/ j \in (k + d + 1)..m
      BY <1>1, <1>4, <1>7, <2>3
    <3>2. new[i] = old[x]
      <4>1. CASE i <= k
        BY <1>3, <1>4, <4>1
      <4>2. CASE ~(i <= k)
        BY <1>3, <3>1, <4>2
      <4>3. QED
        BY <4>1, <4>2
    <3>4. new[j] = old[y]
      <4>1. CASE j <= k
        BY <1>3, <1>4, <4>1
      <4>2. CASE ~(j <= k)
        BY <1>3, <3>1, <4>2
      <4>3. QED
        BY <4>1, <4>2
    <3>3. QED
      BY <1>5, <3>1, <3>2, <3>4
  <2>4. QED
    BY <2>1, <2>2, <2>3
<1>8. Ordered(new, m, late \cup (n + 1)..m)
  BY <1>4, <1>6, <1>7 DEF Ordered
<1>9. QED
  BY <1>8 DEF new, f, e, d

-----------------------------------------------------------------------------
(* The steps: how the sockets move, and how the messages do.               *)

LEMMA Dialed ==
  ASSUME TypeOK, OneConnection, NEW b \in 1..Bases, ConnectWithFallback(b)
  PROVE  /\ ws' \in Sockets /\ baseIndex' \in 1..Bases
         /\ sockets' \in [Sockets -> States] /\ sockets'[ws'] = "connecting"
         /\ OneConnection'
<1>1. PICK s \in Sockets \ {ws}, i \in b..Bases :
        /\ sockets[s] = "none"
        /\ ws' = s
        /\ baseIndex' = i
        /\ sockets' = [CurrentClosed EXCEPT ![s] = "connecting"]
  BY DEF ConnectWithFallback
<1>2. CurrentClosed \in [Sockets -> States]
  BY DEF CurrentClosed, TypeOK, States
<1>3. \A t \in Sockets : CurrentClosed[t] \notin {"connecting", "open"}
  BY DEF CurrentClosed, OneConnection, Live
<1>4. sockets' \in [Sockets -> States] /\ sockets'[s] = "connecting"
  BY <1>1, <1>2 DEF States
<1>5. i \in 1..Bases
  BY <1>1, ClientAssumption
<1>6. OneConnection'
  BY <1>1, <1>2, <1>3 DEF OneConnection, Live
<1>7. QED
  BY <1>1, <1>4, <1>5, <1>6

LEMMA EmitStep ==
  ASSUME TypeOK, OnceInOrder, Flushed, SendOrQueue,
         ws' # NoSocket /\ sockets'[ws'] = "open"
           => ws # NoSocket /\ sockets[ws] = "open"
  PROVE  /\ sendQueue' \in Seq(1..MaxEmits) /\ sent' \in Seq(1..MaxEmits)
         /\ emitted' \in 0..MaxEmits /\ hasty' = hasty
         /\ OnceInOrder' /\ Flushed'
<1>1. /\ emitted' \in 1..MaxEmits /\ emitted \in Nat /\ emitted' = emitted + 1
      /\ sent \in Seq(1..MaxEmits) /\ sendQueue \in Seq(1..MaxEmits)
  BY ClientAssumption DEF TypeOK, SendOrQueue
<1>0. hasty' = hasty
  BY DEF SendOrQueue
<1>2. Ordered(Append(sent \o sendQueue, emitted'), emitted', hasty')
  <2>1. sent \o sendQueue \in Seq(Nat) /\ Ordered(sent \o sendQueue, emitted, hasty)
    <3>1. sent \o sendQueue \in Seq(1..MaxEmits)
      BY <1>1, ConcatProperties
    <3>2. QED
      BY <1>1, <3>1, ClientAssumption DEF OnceInOrder, Ordered
  <2>2. QED
    BY <1>0, <1>1, <2>1, OneMore
<1>3. CASE ws' # NoSocket /\ sockets'[ws'] = "open"
  <2>1. sendQueue = <<>> /\ sent' = Append(sent, emitted') /\ sendQueue' = sendQueue
    BY <1>3 DEF Flushed, SendOrQueue
  <2>2. sent' \in Seq(1..MaxEmits) /\ sendQueue' \in Seq(1..MaxEmits)
    BY <1>1, <2>1, AppendProperties
  <2>3. sent' \o sendQueue' = sent' /\ sent \o sendQueue = sent
    BY <1>1, <2>1, <2>2, ConcatEmptySeq
  <2>4. QED
    BY <1>0, <1>1, <1>2, <2>1, <2>2, <2>3 DEF OnceInOrder, Ordered, Flushed
<1>4. CASE ~(ws' # NoSocket /\ sockets'[ws'] = "open")
  <2>1. sent' = sent /\ sendQueue' = Append(sendQueue, emitted')
    BY <1>4 DEF SendOrQueue
  <2>2. sendQueue' \in Seq(1..MaxEmits)
    BY <1>1, <2>1, AppendProperties
  <2>3. sent' \o sendQueue' = Append(sent \o sendQueue, emitted')
    BY <1>1, <2>1, Appended
  <2>4. OnceInOrder'
    BY <1>2, <2>3 DEF OnceInOrder, Ordered
  <2>5. Flushed'
    BY <1>4 DEF Flushed
  <2>6. QED
    BY <1>0, <1>1, <2>1, <2>2, <2>4, <2>5
<1>5. QED
  BY <1>3, <1>4

LEMMA EmitJoinStep ==
  ASSUME ClientInv, EmitJoin
  PROVE  ClientInv'
<1>1. /\ ws' \in Sockets /\ baseIndex' \in 1..Bases
      /\ sockets' \in [Sockets -> States] /\ sockets'[ws'] = "connecting"
      /\ OneConnection' /\ connected' = connected
  BY Dialed, ClientAssumption DEF ClientInv, EmitJoin
<1>2. /\ sendQueue' \in Seq(1..MaxEmits) /\ sent' \in Seq(1..MaxEmits)
      /\ emitted' \in 0..MaxEmits /\ hasty' = hasty /\ OnceInOrder' /\ Flushed'
  BY <1>1, EmitStep DEF ClientInv, EmitJoin
<1>3. TypeOK'
  BY <1>1, <1>2 DEF ClientInv, TypeOK
<1>4. StatusSettles'
  BY <1>1, ClientAssumption DEF StatusSettles, Attempting
<1>5. QED
  BY <1>1, <1>2, <1>3, <1>4 DEF ClientInv

LEMMA EmitKeeps ==
  ASSUME ClientInv, Emit
  PROVE  ClientInv'
<1>1. UNCHANGED <<ws, baseIndex, sockets, connected>>
  BY DEF Emit
<1>2. /\ sendQueue' \in Seq(1..MaxEmits) /\ sent' \in Seq(1..MaxEmits)
      /\ emitted' \in 0..MaxEmits /\ hasty' = hasty /\ OnceInOrder' /\ Flushed'
  BY <1>1, EmitStep DEF ClientInv, Emit
<1>3. TypeOK' /\ OneConnection' /\ StatusSettles'
  BY <1>1, <1>2 DEF ClientInv, TypeOK, OneConnection, Live, StatusSettles, Attempting
<1>4. QED
  BY <1>2, <1>3 DEF ClientInv

LEMMA DisconnectStep ==
  ASSUME ClientInv, Disconnect
  PROVE  ClientInv'
<1>1. TypeOK'
  BY DEF ClientInv, TypeOK, Disconnect, CurrentClosed, States
<1>2. OneConnection'
  BY DEF ClientInv, TypeOK, OneConnection, Disconnect, CurrentClosed, Live
<1>3. OnceInOrder' /\ StatusSettles' /\ Flushed'
  BY DEF ClientInv, OnceInOrder, StatusSettles, Attempting, Flushed, Disconnect
<1>4. QED
  BY <1>1, <1>2, <1>3 DEF ClientInv

LEMMA OpenedStep ==
  ASSUME ClientInv, NEW s \in Sockets, Opened(s)
  PROVE  ClientInv'
<1>1. sockets[s] = "connecting" /\ s = ws /\ s # NoSocket
  BY ClientAssumption DEF Opened, ClientInv, OneConnection, Live
<1>2. PICK n \in emitted..MaxEmits :
        LET out == sent \o [i \in 1..(n - emitted) |-> emitted + i]
        IN  /\ hasty' = hasty \cup (emitted + 1)..n
            /\ \/ /\ sockets' = [sockets EXCEPT ![s] = "open"]
                  /\ connected' = TRUE
                  /\ FlushQueue(out)
                  /\ emitted' = n
                  /\ UNCHANGED <<ws, baseIndex>>
               \/ /\ n < MaxEmits
                  /\ ConnectWithFallback(1)
                  /\ connected' = TRUE
                  /\ sent' = out /\ sendQueue' = Append(sendQueue, n + 1)
                  /\ emitted' = n + 1
               \/ /\ ws' = NoSocket
                  /\ sockets' = CurrentClosed
                  /\ connected' = FALSE
                  /\ sent' = out
                  /\ emitted' = n
                  /\ UNCHANGED <<baseIndex, sendQueue>>
  BY DEF Opened
<1> DEFINE out == sent \o [i \in 1..(n - emitted) |-> emitted + i]
<1>3. /\ emitted \in 0..MaxEmits /\ n \in Nat /\ emitted \in Nat /\ MaxEmits \in Nat
      /\ sent \in Seq(1..MaxEmits) /\ sendQueue \in Seq(1..MaxEmits)
      /\ hasty' \subseteq 1..MaxEmits /\ n \in 0..MaxEmits
  BY <1>2, ClientAssumption DEF ClientInv, TypeOK
<1>4. out \in Seq(1..MaxEmits)
  <2>1. [i \in 1..(n - emitted) |-> emitted + i] \in Seq(1..MaxEmits)
    BY <1>3, <1>2
  <2>2. QED
    BY <1>3, <2>1, ConcatProperties
<1>5. Ordered(out \o sendQueue, n, hasty')
  <2>1. sent \in Seq(Nat) /\ sendQueue \in Seq(Nat) /\ Ordered(sent \o sendQueue, emitted, hasty)
    BY <1>3 DEF ClientInv, OnceInOrder, Ordered
  <2>2. QED
    <3> DEFINE n0 == emitted
    <3>1. /\ n0 \in Nat /\ n0 <= n
          /\ hasty' = hasty \cup (n0 + 1)..n
      BY <1>2, <1>3
    <3>2. Ordered((sent \o [i \in 1..(n - emitted) |-> emitted + i]) \o sendQueue, n,
                  hasty \cup (emitted + 1)..n)
      BY <1>3, <2>1, <3>1, Between
    <3>3. QED
      BY <3>1, <3>2
<1> HIDE DEF out
<1>6. CASE /\ sockets' = [sockets EXCEPT ![s] = "open"]
           /\ connected' = TRUE
           /\ FlushQueue(out)
           /\ emitted' = n
           /\ UNCHANGED <<ws, baseIndex>>
  <2>1. sockets' \in [Sockets -> States] /\ sockets'[ws] = "open"
    BY <1>1, <1>6 DEF ClientInv, TypeOK, States
  <2>2. sent' = out \o sendQueue /\ sendQueue' = <<>>
    BY <1>6 DEF FlushQueue
  <2>3. /\ sent' \in Seq(1..MaxEmits) /\ sendQueue' \in Seq(1..MaxEmits)
        /\ sent' \o sendQueue' = out \o sendQueue
    BY <1>3, <1>4, <2>2, ConcatProperties, ConcatEmptySeq
  <2>4. TypeOK'
    BY <1>3, <1>6, <2>1, <2>3 DEF ClientInv, TypeOK
  <2>5. OneConnection'
    BY <1>1, <1>6 DEF ClientInv, TypeOK, OneConnection, Live
  <2>6. OnceInOrder'
    BY <1>5, <1>6, <2>3 DEF OnceInOrder, Ordered
  <2>7. StatusSettles' /\ Flushed'
    BY <1>1, <1>6, <2>1, <2>2 DEF StatusSettles, Attempting, Flushed
  <2>8. QED
    BY <2>4, <2>5, <2>6, <2>7 DEF ClientInv
<1>7. CASE /\ n < MaxEmits
           /\ ConnectWithFallback(1)
           /\ connected' = TRUE
           /\ sent' = out /\ sendQueue' = Append(sendQueue, n + 1)
           /\ emitted' = n + 1
  <2>1. /\ ws' \in Sockets /\ baseIndex' \in 1..Bases
        /\ sockets' \in [Sockets -> States] /\ sockets'[ws'] = "connecting"
        /\ OneConnection'
    BY <1>7, Dialed, ClientAssumption DEF ClientInv
  <2>2. n + 1 \in 1..MaxEmits /\ n + 1 \in 0..MaxEmits
    BY <1>3, <1>7
  <2>3. sendQueue' \in Seq(1..MaxEmits)
    BY <1>3, <1>7, <2>2, AppendProperties
  <2>4. TypeOK'
    BY <1>3, <1>4, <1>7, <2>1, <2>2, <2>3 DEF TypeOK
  <2>5. OnceInOrder'
    <3>1. out \o sendQueue \in Seq(Nat)
      BY <1>3, <1>4, ConcatProperties
    <3>2. Ordered(Append(out \o sendQueue, n + 1), n + 1, hasty')
      BY <1>3, <1>5, <3>1, OneMore
    <3>3. sent' \o sendQueue' = Append(out \o sendQueue, n + 1)
      BY <1>3, <1>4, <1>7, <2>2, Appended
    <3>4. QED
      <4>1. Ordered(sent' \o sendQueue', emitted', hasty')
        BY <1>7, <3>2, <3>3
      <4>2. QED
        BY <4>1 DEF OnceInOrder, Ordered
  <2>6. StatusSettles' /\ Flushed'
    BY <2>1, ClientAssumption DEF StatusSettles, Attempting, Flushed
  <2>7. QED
    BY <2>1, <2>4, <2>5, <2>6 DEF ClientInv
<1>8. CASE /\ ws' = NoSocket
           /\ sockets' = CurrentClosed
           /\ connected' = FALSE
           /\ sent' = out
           /\ emitted' = n
           /\ UNCHANGED <<baseIndex, sendQueue>>
  <2>1. TypeOK'
    BY <1>3, <1>4, <1>8 DEF ClientInv, TypeOK, CurrentClosed, States
  <2>2. OneConnection'
    BY <1>8 DEF ClientInv, TypeOK, OneConnection, CurrentClosed, Live
  <2>3. OnceInOrder'
    BY <1>5, <1>8 DEF OnceInOrder, Ordered
  <2>4. StatusSettles' /\ Flushed'
    BY <1>8 DEF StatusSettles, Attempting, Flushed
  <2>5. QED
    BY <2>1, <2>2, <2>3, <2>4 DEF ClientInv
<1>9. QED
  BY <1>2, <1>6, <1>7, <1>8 DEF out

LEMMA OnOpenStep ==
  ASSUME ClientInv, NEW s \in Sockets, OnOpen(s)
  PROVE  ClientInv'
<1>1. CASE UNCHANGED vars
  BY <1>1 DEF ClientInv, TypeOK, OneConnection, Live, OnceInOrder, StatusSettles,
     Attempting, Flushed, vars
<1>2. QED
  BY <1>1, OpenedStep DEF OnOpen

LEMMA OnErrorStep ==
  ASSUME ClientInv, NEW s \in Sockets, OnError(s)
  PROVE  ClientInv'
<1>1. /\ s = ws /\ s # NoSocket /\ sockets[s] = "connecting"
      /\ connected' = FALSE /\ UNCHANGED <<sendQueue, sent, emitted, hasty>>
  BY ClientAssumption DEF ClientInv, OneConnection, Live, OnError, FailBeforeOpen
<1>2. OnceInOrder'
  BY <1>1 DEF ClientInv, OnceInOrder
<1>3. CASE baseIndex < Bases
  <2>1. baseIndex + 1 \in 1..Bases /\ ConnectWithFallback(baseIndex + 1)
    BY <1>3, ClientAssumption DEF ClientInv, TypeOK, OnError, FailBeforeOpen
  <2>2. /\ ws' \in Sockets /\ baseIndex' \in 1..Bases
        /\ sockets' \in [Sockets -> States] /\ sockets'[ws'] = "connecting"
        /\ OneConnection'
    BY <2>1, Dialed DEF ClientInv
  <2>3. TypeOK'
    BY <1>1, <2>2 DEF ClientInv, TypeOK
  <2>4. StatusSettles' /\ Flushed'
    BY <2>2, ClientAssumption DEF StatusSettles, Attempting, Flushed
  <2>5. QED
    BY <1>2, <2>2, <2>3, <2>4 DEF ClientInv
<1>4. CASE ~(baseIndex < Bases)
  <2>1. sockets' = CurrentClosed /\ UNCHANGED <<ws, baseIndex>>
    BY <1>4 DEF OnError, FailBeforeOpen
  <2>2. sockets' \in [Sockets -> States] /\ sockets'[ws] = "closing"
    BY <1>1, <2>1 DEF ClientInv, TypeOK, CurrentClosed, States, Live
  <2>3. TypeOK'
    BY <1>1, <2>1, <2>2 DEF ClientInv, TypeOK
  <2>4. OneConnection'
    BY <2>1 DEF ClientInv, TypeOK, OneConnection, CurrentClosed, Live
  <2>5. StatusSettles' /\ Flushed'
    BY <1>1, <2>1, <2>2 DEF StatusSettles, Attempting, Flushed
  <2>6. QED
    BY <1>2, <2>3, <2>4, <2>5 DEF ClientInv
<1>5. QED
  BY <1>3, <1>4

LEMMA ConnectionLostStep ==
  ASSUME ClientInv, NEW s \in Sockets, ConnectionLost(s)
  PROVE  ClientInv'
<1>1. s = ws /\ s # NoSocket /\ connected
  BY ClientAssumption
     DEF ClientInv, OneConnection, Live, StatusSettles, Attempting, ConnectionLost
<1>2. TypeOK' /\ OneConnection'
  BY DEF ClientInv, TypeOK, OneConnection, Live, ConnectionLost, States
<1>3. OnceInOrder'
  BY DEF ClientInv, OnceInOrder, ConnectionLost
<1>4. StatusSettles' /\ Flushed'
  BY <1>1 DEF ClientInv, TypeOK, StatusSettles, Attempting, Flushed, ConnectionLost
<1>5. QED
  BY <1>2, <1>3, <1>4 DEF ClientInv

LEMMA OnCloseStep ==
  ASSUME ClientInv, NEW s \in Sockets, OnClose(s)
  PROVE  ClientInv'
<1>1. TypeOK'
  BY DEF ClientInv, TypeOK, OnClose, States
<1>2. OneConnection'
  BY DEF ClientInv, TypeOK, OneConnection, OnClose, Live
<1>3. OnceInOrder' /\ Flushed'
  BY ClientAssumption DEF ClientInv, TypeOK, OnceInOrder, Flushed, OnClose
<1>4. StatusSettles'
  BY ClientAssumption DEF ClientInv, TypeOK, OneConnection, Live, StatusSettles, Attempting,
     OnClose, Superseded
<1>5. QED
  BY <1>1, <1>2, <1>3, <1>4 DEF ClientInv

-----------------------------------------------------------------------------
(* The invariant holds initially and is kept.                              *)
THEOREM ClientInvariant == Spec => []ClientInv
<1>1. Init => ClientInv
  <2>1. <<>> \o <<>> = <<>> /\ <<>> \in Seq({})
    BY ConcatEmptySeq, EmptySeq
  <2>3. Init => OnceInOrder
    BY <2>1 DEF Init, OnceInOrder
  <2>4. Init => TypeOK
    <3>1. <<>> \in Seq(1..MaxEmits) /\ 1 \in 1..Bases /\ 0 \in 0..MaxEmits
      BY ClientAssumption, EmptySeq
    <3>2. [s \in Sockets |-> "none"] \in [Sockets -> States]
      BY DEF States
    <3>3. QED
      BY <3>1, <3>2 DEF Init, TypeOK
  <2>5. Init => OneConnection /\ StatusSettles /\ Flushed
    BY DEF Init, OneConnection, Live, StatusSettles, Attempting, Flushed
  <2>6. QED
    BY <2>3, <2>4, <2>5 DEF ClientInv
<1>2. ClientInv /\ [Next]_vars => ClientInv'
  <2> SUFFICES ASSUME ClientInv, [Next]_vars
               PROVE  ClientInv'
    OBVIOUS
  <2>1. CASE EmitJoin
    BY <2>1, EmitJoinStep
  <2>2. CASE Emit
    BY <2>2, EmitKeeps
  <2>3. CASE Disconnect
    BY <2>3, DisconnectStep
  <2>4. ASSUME NEW s \in Sockets, OnOpen(s)
        PROVE  ClientInv'
    BY <2>4, OnOpenStep
  <2>5. ASSUME NEW s \in Sockets, OnError(s)
        PROVE  ClientInv'
    BY <2>5, OnErrorStep
  <2>6. ASSUME NEW s \in Sockets, OnClose(s)
        PROVE  ClientInv'
    BY <2>6, OnCloseStep
  <2>9. ASSUME NEW s \in Sockets, ConnectionLost(s)
        PROVE  ClientInv'
    BY <2>9, ConnectionLostStep
  <2>7. CASE UNCHANGED vars
    BY <2>7 DEF ClientInv, TypeOK, OneConnection, Live, OnceInOrder, StatusSettles,
       Attempting, Flushed, vars
  <2>8. QED
    BY <2>1, <2>2, <2>3, <2>4, <2>5, <2>6, <2>7, <2>9 DEF Next
<1>3. QED
  BY <1>1, <1>2, PTL DEF Spec

(* However many connections are given up, a client never has two that are  *)
(* open or opening: the ws of connectWithFallback is the only one.         *)
THEOREM NeverTwoConnections == Spec => []OneConnection
<1>1. ClientInv => OneConnection
  BY DEF ClientInv
<1>2. QED
  BY <1>1, ClientInvariant, PTL

(* What sendOrQueue is given goes out once.  On open the listeners of      *)
(* 'connect' run before flushQueue, and what they emit is all that ever    *)
(* goes out before an older message.                                       *)
THEOREM SentOnceInOrder == Spec => []OnceInOrder
<1>1. ClientInv => OnceInOrder
  BY DEF ClientInv
<1>2. QED
  BY <1>1, ClientInvariant, PTL

(* Whenever no attempt is under way, `connected` is what the socket is.    *)
THEOREM StatusIsRight == Spec => []StatusSettles
<1>1. ClientInv => StatusSettles
  BY DEF ClientInv
<1>2. QED
  BY <1>1, ClientInvariant, PTL
=============================================================================
