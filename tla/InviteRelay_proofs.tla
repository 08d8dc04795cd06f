------------------------ MODULE InviteRelay_proofs ------------------------
(***************************************************************************)
(* Proofs about InviteRelay, for any number of rooms, guests, texts pasted *)
(* and capacity of the store: of the guests who share a link at most one   *)
(* is told to wait, connections get answers to their own offer and keep    *)
(* the first, and an invite said to have expired has.                      *)
(***************************************************************************)
EXTENDS InviteRelay, FiniteSetTheorems, TLAPS

-----------------------------------------------------------------------------
\* A store with less in it is not too full either.
LEMMA Capacity ==
  ASSUME NEW S, NEW T, NEW n \in Nat, IsFiniteSet(S), Cardinality(S) <= n, T \subseteq S
  PROVE  Cardinality(T) <= n
<1>1. IsFiniteSet(T) /\ Cardinality(T) <= Cardinality(S)
  BY FS_Subset
<1>2. Cardinality(T) \in Nat /\ Cardinality(S) \in Nat
  BY <1>1, FS_CardinalityType
<1>3. QED
  BY <1>1, <1>2

-----------------------------------------------------------------------------
(* The steps.                                                              *)

LEMMA RelayCreateStep ==
  ASSUME RelayInv, NEW r \in Rooms, RelayCreate(r)
  PROVE  RelayInv'
<1>1. r \notin DOMAIN invites /\ r \notin linked /\ r \in posts
  BY DEF RelayInv, LifeCycle, RelayCreate
<1>2. /\ DOMAIN invites \subseteq DOMAIN invites'
      /\ DOMAIN invites' \subseteq DOMAIN invites \cup {r}
      /\ \A x \in DOMAIN invites : invites'[x] = invites[x]
      /\ r \in DOMAIN invites' => invites'[r] = Nobody
  BY <1>1 DEF RelayCreate, With
<1>3. Cardinality(DOMAIN invites') <= MaxInvites
  <2>1. IsFiniteSet(DOMAIN invites) /\ Cardinality(DOMAIN invites) \in Nat
    BY RelayAssumption, FS_Subset, FS_CardinalityType DEF RelayInv, TypeOK
  <2>2. CASE IsRoom
    <3>1. Cardinality(DOMAIN invites \cup {r}) = Cardinality(DOMAIN invites) + 1
      BY <1>1, <2>1, FS_AddElement
    <3>2. DOMAIN invites' = DOMAIN invites \cup {r}
      BY <2>2 DEF RelayCreate, With
    <3>3. QED
      BY <2>1, <2>2, <3>1, <3>2, RelayAssumption DEF IsRoom
  <2>3. CASE ~IsRoom
    BY <2>3 DEF RelayCreate, RelayInv, TypeOK
  <2>4. QED
    BY <2>2, <2>3
<1>4. TypeOK'
  BY <1>1, <1>2, <1>3 DEF RelayInv, TypeOK, PollStates, RelayCreate,
     hostVars
<1>5. LifeCycle'
  <2>1. page[r] # "none" /\ poll[r] \notin Guests \cup {"notFound"}
    BY <1>1, RelayAssumption DEF RelayInv, LifeCycle, PollStates
  <2>2. \A x \in Rooms : x \in DOMAIN invites' => x = r \/ x \in DOMAIN invites
    BY <1>2
  <2>3. /\ posts' = posts \ {r}
        /\ UNCHANGED <<page, linked, polling, importing, remote, expired, poll>>
    BY DEF RelayCreate, hostVars
  <2>4. posts \subseteq Rooms /\ LifeCycle
    BY DEF RelayInv, TypeOK
  <2>5. QED
    BY <2>1, <2>2, <2>3, <2>4 DEF LifeCycle
<1>6. Answering'
  BY <1>1, <1>2, <1>3 DEF RelayInv, Answering, RelayCreate, hostVars, Taken
<1>7. PromiseKept'
  BY <1>1, <1>2, <1>3, RelayAssumption DEF RelayInv, PromiseKept, TypeOK,
     Answering, RelayCreate, hostVars, Taken
<1>8. AnswerFits'
  BY <1>1, <1>2, <1>3 DEF RelayInv, AnswerFits, RelayCreate, hostVars
<1>10. ExpiredForGood'
  BY <1>1, <1>2, <1>3 DEF RelayInv, ExpiredForGood, LifeCycle, RelayCreate,
     hostVars
<1>11. QED
  BY <1>4, <1>5, <1>6, <1>7, <1>8, <1>10 DEF RelayInv

LEMMA ExpireStep ==
  ASSUME RelayInv, NEW r \in Rooms, Expire(r)
  PROVE  RelayInv'
<1>1. /\ DOMAIN invites' \subseteq DOMAIN invites
      /\ \A x \in DOMAIN invites' : invites'[x] = invites[x]
  BY DEF Expire, Without, Restrict
<1>2. Cardinality(DOMAIN invites') <= MaxInvites
  BY <1>1, RelayAssumption, FS_Subset, Capacity DEF RelayInv, TypeOK
<1>3. TypeOK'
  BY <1>1, <1>2 DEF RelayInv, TypeOK, PollStates, Expire, hostVars
<1>4. LifeCycle'
  BY <1>1, <1>2 DEF RelayInv, LifeCycle, Expire, hostVars
<1>5. Answering'
  BY <1>1, <1>2 DEF RelayInv, Answering, Expire, hostVars, Taken
<1>6. PromiseKept'
  BY <1>1, <1>2 DEF RelayInv, PromiseKept, Expire, hostVars, Taken
<1>7. AnswerFits'
  BY <1>1, <1>2 DEF RelayInv, AnswerFits, Expire, hostVars
<1>9. ExpiredForGood'
  BY <1>1, <1>2 DEF RelayInv, ExpiredForGood, Expire, hostVars
<1>10. QED
  BY <1>3, <1>4, <1>5, <1>6, <1>7, <1>9 DEF RelayInv

LEMMA RelayPollStep ==
  ASSUME RelayInv, NEW r \in Rooms, RelayPoll(r)
  PROVE  RelayInv'
<1>1. /\ DOMAIN invites' \subseteq DOMAIN invites
      /\ \A x \in DOMAIN invites' : invites'[x] = invites[x]
  BY DEF RelayPoll, PollResponse, HasInvite, Without, Restrict
<1>2. Cardinality(DOMAIN invites') <= MaxInvites
  BY <1>1, RelayAssumption, FS_Subset, Capacity DEF RelayInv, TypeOK
<1>3. /\ poll'[r] \in Guests \cup {"noContent", "notFound"}
      /\ poll'[r] \in Guests => r \in DOMAIN invites /\ poll'[r] = invites[r]
      /\ poll'[r] \in Guests \cup {"notFound"} => r \notin DOMAIN invites'
      /\ r \in linked
  BY RelayAssumption DEF RelayPoll, PollResponse, HasInvite, RelayInv, TypeOK,
     LifeCycle, PollStates,
     Without, Restrict
<1>4. TypeOK'
  BY <1>1, <1>2, <1>3 DEF RelayInv, TypeOK, PollStates, RelayPoll, PollResponse, HasInvite, hostVars
<1>5. LifeCycle'
  BY <1>1, <1>2, <1>3 DEF RelayInv, LifeCycle, PollStates, RelayPoll, PollResponse, HasInvite,
     hostVars
<1>6. Answering'
  BY <1>1, <1>2, <1>3 DEF RelayInv, Answering, RelayPoll, hostVars, Taken
<1>7. PromiseKept'
  BY <1>1, <1>2, <1>3 DEF RelayInv, PromiseKept, PollStates, RelayPoll, PollResponse, HasInvite,
     hostVars, Taken
<1>8. AnswerFits'
  BY <1>1, <1>2, <1>3 DEF RelayInv, AnswerFits, RelayPoll, hostVars
<1>10. ExpiredForGood'
  BY <1>1, <1>2, <1>3 DEF RelayInv, ExpiredForGood, PollStates, RelayPoll, PollResponse, HasInvite,
     hostVars
<1>11. QED
  BY <1>4, <1>5, <1>6, <1>7, <1>8, <1>10 DEF RelayInv

LEMMA RelayDeleteStep ==
  ASSUME RelayInv, NEW r \in Rooms, RelayDelete(r)
  PROVE  RelayInv'
<1>1. /\ DOMAIN invites' \subseteq DOMAIN invites
      /\ \A x \in DOMAIN invites' : invites'[x] = invites[x]
  BY DEF RelayDelete, Without, Restrict
<1>2. Cardinality(DOMAIN invites') <= MaxInvites
  BY <1>1, RelayAssumption, FS_Subset, Capacity DEF RelayInv, TypeOK
<1>3. TypeOK'
  BY <1>1, <1>2 DEF RelayInv, TypeOK, PollStates, RelayDelete, hostVars
<1>4. LifeCycle'
  BY <1>1, <1>2 DEF RelayInv, LifeCycle, RelayDelete, hostVars
<1>5. Answering'
  BY <1>1, <1>2 DEF RelayInv, Answering, RelayDelete, hostVars, Taken
<1>6. PromiseKept'
  BY <1>1, <1>2 DEF RelayInv, PromiseKept, RelayDelete, hostVars, Taken
<1>7. AnswerFits'
  BY <1>1, <1>2 DEF RelayInv, AnswerFits, RelayDelete, hostVars
<1>9. ExpiredForGood'
  BY <1>1, <1>2 DEF RelayInv, ExpiredForGood, RelayDelete, hostVars
<1>10. QED
  BY <1>3, <1>4, <1>5, <1>6, <1>7, <1>9 DEF RelayInv

LEMMA RequestLostStep ==
  ASSUME RelayInv, NEW r \in Rooms, RequestLost(r)
  PROVE  RelayInv'
<1>1. TypeOK'
  BY DEF RelayInv, TypeOK, PollStates, RequestLost, hostVars
<1>2. LifeCycle'
  BY DEF RelayInv, LifeCycle, RequestLost, hostVars
<1>3. Answering'
  BY DEF RelayInv, Answering, RequestLost, hostVars, Taken
<1>4. PromiseKept'
  BY DEF RelayInv, PromiseKept, RequestLost, hostVars, Taken
<1>5. AnswerFits'
  BY DEF RelayInv, AnswerFits, RequestLost, hostVars
<1>7. ExpiredForGood'
  BY DEF RelayInv, ExpiredForGood, RequestLost, hostVars
<1>8. QED
  BY <1>1, <1>2, <1>3, <1>4, <1>5, <1>7 DEF RelayInv

LEMMA CreateSessionStep ==
  ASSUME RelayInv, NEW r \in Rooms, CreateSession(r)
  PROVE  RelayInv'
<1>1. TypeOK'
  BY DEF RelayInv, TypeOK, PollStates, Pages, CreateSession
<1>2. LifeCycle'
  BY DEF RelayInv, LifeCycle, TypeOK, CreateSession
<1>3. Answering'
  BY DEF RelayInv, Answering, CreateSession, Taken
<1>4. PromiseKept'
  BY DEF RelayInv, PromiseKept, CreateSession, Taken
<1>5. AnswerFits'
  BY DEF RelayInv, AnswerFits, CreateSession
<1>7. ExpiredForGood'
  BY DEF RelayInv, ExpiredForGood, CreateSession
<1>8. QED
  BY <1>1, <1>2, <1>3, <1>4, <1>5, <1>7 DEF RelayInv

LEMMA OpenSessionStep ==
  ASSUME RelayInv, NEW r \in Rooms, NEW relayed \in BOOLEAN, OpenSession(r, relayed)
  PROVE  RelayInv'
<1>1. TypeOK'
  BY DEF RelayInv, TypeOK, PollStates, Pages, OpenSession
<1>2. LifeCycle'
  BY DEF RelayInv, LifeCycle, TypeOK, OpenSession
<1>3. Answering'
  BY DEF RelayInv, Answering, OpenSession, Taken
<1>4. PromiseKept'
  BY DEF RelayInv, PromiseKept, OpenSession, Taken
<1>5. AnswerFits'
  BY DEF RelayInv, AnswerFits, OpenSession
<1>7. ExpiredForGood'
  BY DEF RelayInv, ExpiredForGood, OpenSession
<1>8. QED
  BY <1>1, <1>2, <1>3, <1>4, <1>5, <1>7 DEF RelayInv

LEMMA TickStep ==
  ASSUME RelayInv, NEW r \in Rooms, Tick(r)
  PROVE  RelayInv'
<1>1. TypeOK'
  BY DEF RelayInv, TypeOK, PollStates, Tick, hostVars
<1>2. LifeCycle'
  BY RelayAssumption DEF RelayInv, LifeCycle, TypeOK, PollStates, Tick,
     hostVars
<1>3. Answering'
  BY DEF RelayInv, Answering, Tick, hostVars, Taken
<1>4. PromiseKept'
  BY RelayAssumption DEF RelayInv, PromiseKept, TypeOK, PollStates, Tick,
     hostVars, Taken
<1>5. AnswerFits'
  BY DEF RelayInv, AnswerFits, Tick, hostVars
<1>7. ExpiredForGood'
  BY DEF RelayInv, ExpiredForGood, PollStates, Tick, hostVars
<1>8. QED
  BY <1>1, <1>2, <1>3, <1>4, <1>5, <1>7 DEF RelayInv

LEMMA PollFailsStep ==
  ASSUME RelayInv, NEW r \in Rooms, PollFails(r)
  PROVE  RelayInv'
<1>1. TypeOK'
  BY DEF RelayInv, TypeOK, PollStates, PollFails, hostVars
<1>2. LifeCycle'
  BY RelayAssumption DEF RelayInv, LifeCycle, TypeOK, PollStates, PollFails,
     hostVars
<1>3. Answering'
  BY DEF RelayInv, Answering, PollFails, hostVars, Taken
<1>4. PromiseKept'
  BY RelayAssumption DEF RelayInv, PromiseKept, TypeOK, PollStates,
     PollFails, hostVars, Taken
<1>5. AnswerFits'
  BY DEF RelayInv, AnswerFits, PollFails, hostVars
<1>7. ExpiredForGood'
  BY DEF RelayInv, ExpiredForGood, PollStates, PollFails, hostVars
<1>8. QED
  BY <1>1, <1>2, <1>3, <1>4, <1>5, <1>7 DEF RelayInv

LEMMA PollReturnsStep ==
  ASSUME RelayInv, NEW r \in Rooms, PollReturns(r)
  PROVE  RelayInv'
<1>1. TypeOK'
  BY DEF RelayInv, TypeOK, PollStates, PollReturns, Stop, Stops,
     IsInviteNotFoundError, Reading
<1>2. LifeCycle'
  BY RelayAssumption DEF RelayInv, LifeCycle, TypeOK, PollStates,
     PollReturns, Stop, Stops, IsInviteNotFoundError, Reading
<1>3. Answering'
  BY DEF RelayInv, Answering, PollReturns, Stop, Stops, IsInviteNotFoundError,
     Reading, Taken
<1>4. PromiseKept'
  BY RelayAssumption DEF RelayInv, PromiseKept, TypeOK, PollStates,
     PollReturns, Stop, Stops, IsInviteNotFoundError, Reading, Taken
<1>5. AnswerFits'
  BY DEF RelayInv, AnswerFits, PollReturns, Stop, Stops, IsInviteNotFoundError,
     Reading
<1>7. ExpiredForGood'
  BY DEF RelayInv, ExpiredForGood, LifeCycle, PollStates, PollReturns, Stop,
     Stops, IsInviteNotFoundError, Reading
<1>8. QED
  BY <1>1, <1>2, <1>3, <1>4, <1>5, <1>7 DEF RelayInv

LEMMA PasteStep ==
  ASSUME RelayInv, NEW r \in Rooms, NEW text \in Texts, Paste(r, text)
  PROVE  RelayInv'
<1>1. TypeOK'
  BY RelayAssumption DEF RelayInv, TypeOK, PollStates, Paste, Stop, Reading
<1>2. LifeCycle'
  BY DEF RelayInv, LifeCycle, PollStates, Paste, Stop, Reading
<1>3. Answering'
  BY DEF RelayInv, Answering, Paste, Stop, Reading, Taken
<1>4. PromiseKept'
  BY DEF RelayInv, PromiseKept, PollStates, Paste, Stop, Reading, Taken
<1>5. AnswerFits'
  BY DEF RelayInv, AnswerFits, Paste, Stop, Reading
<1>7. ExpiredForGood'
  BY DEF RelayInv, ExpiredForGood, PollStates, Paste, Stop, Reading
<1>8. QED
  BY <1>1, <1>2, <1>3, <1>4, <1>5, <1>7 DEF RelayInv

LEMMA CheckAnswerStep ==
  ASSUME RelayInv, NEW i \in importing, CheckAnswer(i)
  PROVE  RelayInv'
<1>1. TypeOK'
  BY DEF RelayInv, TypeOK, PollStates, CheckAnswer, Belongs, Succeed
<1>2. LifeCycle'
  BY DEF RelayInv, LifeCycle, TypeOK, CheckAnswer, Belongs, Succeed
<1>3. Answering'
  BY DEF RelayInv, Answering, TypeOK, CheckAnswer, Belongs, Succeed, Taken
<1>4. PromiseKept'
  BY DEF RelayInv, PromiseKept, CheckAnswer, Belongs, Succeed, Taken
<1>5. AnswerFits'
  BY DEF RelayInv, AnswerFits, CheckAnswer, Belongs, Succeed
<1>7. ExpiredForGood'
  BY DEF RelayInv, ExpiredForGood, CheckAnswer, Belongs, Succeed
<1>8. QED
  BY <1>1, <1>2, <1>3, <1>4, <1>5, <1>7 DEF RelayInv

LEMMA SetRemoteStep ==
  ASSUME RelayInv, NEW i \in importing, SetRemote(i)
  PROVE  RelayInv'
<1>1. TypeOK'
  BY DEF RelayInv, TypeOK, PollStates, SetRemote, Succeed
<1>2. LifeCycle'
  BY DEF RelayInv, LifeCycle, TypeOK, PollStates, SetRemote, Succeed
<1>3. Answering'
  BY DEF RelayInv, Answering, SetRemote, Succeed, Taken
<1>4. PromiseKept'
  BY DEF RelayInv, PromiseKept, SetRemote, Succeed, Taken
<1>5. AnswerFits'
  BY RelayAssumption DEF RelayInv, AnswerFits, TypeOK, Answering, SetRemote,
     Succeed, Taken
<1>7. ExpiredForGood'
  BY DEF RelayInv, ExpiredForGood, SetRemote, Succeed
<1>8. QED
  BY <1>1, <1>2, <1>3, <1>4, <1>5, <1>7 DEF RelayInv

LEMMA CloseStep ==
  ASSUME RelayInv, NEW r \in Rooms, Dispose(r) \/ Kill(r)
  PROVE  RelayInv'
<1>1. TypeOK'
  BY DEF RelayInv, TypeOK, PollStates, Pages, Dispose, Kill, Close, Stop
<1>2. LifeCycle'
  BY RelayAssumption DEF RelayInv, LifeCycle, TypeOK, PollStates, Dispose,
     Kill, Close, Stop
<1>3. Answering'
  BY DEF RelayInv, Answering, Dispose, Kill, Close, Stop, Taken
<1>4. PromiseKept'
  <2>1. invites' = invites /\ guest' = guest
    BY DEF Dispose, Kill
  <2>2. \A x \in Rooms : poll'[x] \in Guests => poll'[x] = poll[x]
    <3>1. CASE Dispose(r)
      BY <3>1 DEF Dispose
    <3>2. CASE Kill(r)
      BY <3>2, RelayAssumption DEF Kill, RelayInv, TypeOK, PollStates
    <3>3. QED
      BY <3>1, <3>2
  <2>3. \A g \in Guests : guest[g].stage \in Taken => guest[g].room \in Rooms
    BY DEF RelayInv, TypeOK, Answering, Taken
  <2>4. QED
    BY <2>1, <2>2, <2>3 DEF RelayInv, PromiseKept, Taken
<1>5. AnswerFits'
  BY DEF RelayInv, AnswerFits, Dispose, Kill, Close, Stop
<1>7. ExpiredForGood'
  BY DEF RelayInv, ExpiredForGood, Dispose, Kill, Close, Stop
<1>8. QED
  BY <1>1, <1>2, <1>3, <1>4, <1>5, <1>7 DEF RelayInv

LEMMA DisposeEarlyStep ==
  ASSUME RelayInv, NEW r \in Rooms, DisposeEarly(r)
  PROVE  RelayInv'
<1>1. TypeOK'
  BY DEF RelayInv, TypeOK, Pages, DisposeEarly
<1>2. LifeCycle'
  BY DEF RelayInv, TypeOK, LifeCycle, DisposeEarly
<1>3. Answering' /\ PromiseKept' /\ AnswerFits' /\ ExpiredForGood'
  BY DEF RelayInv, Answering, PromiseKept, AnswerFits, ExpiredForGood, DisposeEarly, Taken
<1>4. QED
  BY <1>1, <1>2, <1>3 DEF RelayInv

LEMMA OpenLinkStep ==
  ASSUME RelayInv, NEW g \in Guests, NEW r \in Rooms, OpenLink(g, r)
  PROVE  RelayInv'
<1>1. TypeOK'
  BY DEF RelayInv, TypeOK, Stages, PollStates, OpenLink, HasInvite, hostVars
<1>2. LifeCycle'
  BY DEF RelayInv, LifeCycle, OpenLink, HasInvite, hostVars
<1>3. Answering'
  BY RelayAssumption DEF RelayInv, Answering, TypeOK, OpenLink, HasInvite, hostVars, Taken
<1>4. PromiseKept'
  BY DEF RelayInv, PromiseKept, OpenLink, HasInvite, hostVars, Taken
<1>5. AnswerFits'
  BY RelayAssumption DEF RelayInv, AnswerFits, TypeOK, Answering, OpenLink, HasInvite,
     hostVars, Taken
<1>7. ExpiredForGood'
  BY DEF RelayInv, ExpiredForGood, OpenLink, HasInvite, hostVars
<1>8. QED
  BY <1>1, <1>2, <1>3, <1>4, <1>5, <1>7 DEF RelayInv

LEMMA OpenTextStep ==
  ASSUME RelayInv, NEW g \in Guests, NEW r \in Rooms, OpenText(g, r)
  PROVE  RelayInv'
<1>1. TypeOK'
  BY DEF RelayInv, TypeOK, Stages, PollStates, OpenText, hostVars
<1>2. LifeCycle'
  BY DEF RelayInv, LifeCycle, OpenText, hostVars
<1>3. Answering'
  BY RelayAssumption DEF RelayInv, Answering, TypeOK, OpenText, hostVars, Taken
<1>4. PromiseKept'
  BY DEF RelayInv, PromiseKept, OpenText, hostVars, Taken
<1>5. AnswerFits'
  BY RelayAssumption DEF RelayInv, AnswerFits, TypeOK, Answering, OpenText,
     hostVars, Taken
<1>7. ExpiredForGood'
  BY DEF RelayInv, ExpiredForGood, OpenText, hostVars
<1>8. QED
  BY <1>1, <1>2, <1>3, <1>4, <1>5, <1>7 DEF RelayInv

LEMMA RelayAcceptsStep ==
  ASSUME RelayInv, NEW g \in Guests, RelayAccepts(g)
  PROVE  RelayInv'
<1>. DEFINE r == guest[g].room
<1>1. /\ r \in DOMAIN invites /\ invites[r] = Nobody /\ r \in Rooms
      /\ guest[g].stage = "submitting"
  BY DEF RelayAccepts, Accepts, RelayInv, TypeOK
<1>2. /\ DOMAIN invites' = DOMAIN invites
      /\ invites'[r] = g
      /\ \A x \in DOMAIN invites \ {r} : invites'[x] = invites[x]
  BY <1>1 DEF RelayAccepts, With
<1>3. guest' = [guest EXCEPT ![g].stage = "accepted"]
  BY DEF RelayAccepts
<1>. HIDE DEF r
<1>4. TypeOK'
  BY <1>1, <1>2, <1>3 DEF RelayInv, TypeOK, Stages, PollStates,
     RelayAccepts, hostVars
<1>5. LifeCycle'
  BY <1>1, <1>2, <1>3 DEF RelayInv, LifeCycle, RelayAccepts, hostVars
<1>6. Answering'
  BY <1>1, <1>2, <1>3 DEF RelayInv, Answering, RelayAccepts, hostVars, Taken
<1>7. PromiseKept'
  <2>1. poll[r] \notin Guests /\ g # Nobody
    BY <1>1, RelayAssumption DEF RelayInv, LifeCycle
  <2>2. \A h \in Guests : guest[h].stage \in Taken => guest[h].room # r
    BY <1>1, RelayAssumption DEF RelayInv, PromiseKept, Taken
  <2>3. /\ poll' = poll
        /\ guest'[g].room = r
        /\ \A h \in Guests \ {g} : guest'[h] = guest[h]
    BY <1>3 DEF RelayAccepts, hostVars, RelayInv, TypeOK, r
  <2>4. PromiseKept
    BY DEF RelayInv
  <2>5. QED
    BY <1>2, <2>1, <2>2, <2>3, <2>4 DEF PromiseKept, Taken
<1>8. AnswerFits'
  BY <1>1, <1>2, <1>3 DEF RelayInv, AnswerFits, RelayAccepts, hostVars
<1>10. ExpiredForGood'
  BY <1>1, <1>2, <1>3 DEF RelayInv, ExpiredForGood, RelayAccepts, hostVars
<1>11. QED
  BY <1>4, <1>5, <1>6, <1>7, <1>8, <1>10 DEF RelayInv

LEMMA SubmittedStep ==
  ASSUME RelayInv, NEW g \in Guests, Submitted(g)
  PROVE  RelayInv'
<1>1. TypeOK'
  BY DEF RelayInv, TypeOK, Stages, PollStates, Submitted, hostVars
<1>2. LifeCycle'
  BY DEF RelayInv, LifeCycle, Submitted, hostVars
<1>3. Answering'
  BY DEF RelayInv, Answering, Submitted, hostVars, Taken
<1>4. PromiseKept'
  BY DEF RelayInv, PromiseKept, Taken, Submitted, hostVars
<1>5. AnswerFits'
  BY DEF RelayInv, AnswerFits, Submitted, hostVars
<1>6. ExpiredForGood'
  BY DEF RelayInv, ExpiredForGood, Submitted, hostVars
<1>7. QED
  BY <1>1, <1>2, <1>3, <1>4, <1>5, <1>6 DEF RelayInv

LEMMA SubmitFailsStep ==
  ASSUME RelayInv, NEW g \in Guests, SubmitFails(g)
  PROVE  RelayInv'
<1>1. TypeOK'
  BY DEF RelayInv, TypeOK, Stages, PollStates, SubmitFails, hostVars
<1>2. LifeCycle'
  BY DEF RelayInv, LifeCycle, SubmitFails, hostVars
<1>3. Answering'
  BY DEF RelayInv, Answering, SubmitFails, hostVars, Taken
<1>4. PromiseKept'
  BY DEF RelayInv, PromiseKept, SubmitFails, hostVars, Taken
<1>5. AnswerFits'
  BY DEF RelayInv, AnswerFits, SubmitFails, hostVars
<1>7. ExpiredForGood'
  BY DEF RelayInv, ExpiredForGood, SubmitFails, hostVars
<1>8. QED
  BY <1>1, <1>2, <1>3, <1>4, <1>5, <1>7 DEF RelayInv

-----------------------------------------------------------------------------
(* The theorems.                                                           *)

LEMMA RelayInit ==
  ASSUME Init
  PROVE  RelayInv
<1>1. Cardinality(DOMAIN invites) <= MaxInvites
  BY FS_EmptySet, RelayAssumption DEF Init
<1>2. TypeOK
  BY <1>1 DEF Init, TypeOK, PollStates, Pages, Stages
<1>3. LifeCycle /\ Answering
  BY RelayAssumption DEF Init, LifeCycle, Answering, PollStates, Taken
<1>4. PromiseKept /\ AnswerFits /\ ExpiredForGood
  BY DEF Init, PromiseKept, AnswerFits, ExpiredForGood, Taken
<1>5. QED
  BY <1>2, <1>3, <1>4 DEF RelayInv

LEMMA RelayStep ==
  ASSUME RelayInv, [Next]_vars
  PROVE  RelayInv'
<1>1. ASSUME NEW r \in Rooms,
             \/ CreateSession(r) \/ \E relayed \in BOOLEAN : OpenSession(r, relayed)
             \/ Dispose(r) \/ DisposeEarly(r) \/ Kill(r) \/ \E text \in Texts : Paste(r, text)
      PROVE  RelayInv'
  BY <1>1, CreateSessionStep, OpenSessionStep, CloseStep, DisposeEarlyStep, PasteStep
<1>2. ASSUME NEW r \in Rooms,
             RelayCreate(r) \/ RelayDelete(r) \/ RequestLost(r) \/ Expire(r)
      PROVE  RelayInv'
  BY <1>2, RelayCreateStep, RelayDeleteStep, RequestLostStep, ExpireStep
<1>3. ASSUME NEW r \in Rooms,
             Tick(r) \/ RelayPoll(r) \/ PollReturns(r) \/ PollFails(r)
      PROVE  RelayInv'
  BY <1>3, TickStep, RelayPollStep, PollReturnsStep, PollFailsStep
<1>4. ASSUME NEW i \in importing, CheckAnswer(i) \/ SetRemote(i)
      PROVE  RelayInv'
  BY <1>4, CheckAnswerStep, SetRemoteStep
<1>5. ASSUME NEW g \in Guests,
             \/ \E r \in Rooms : OpenLink(g, r) \/ OpenText(g, r)
             \/ RelayAccepts(g) \/ Submitted(g) \/ SubmitFails(g)
      PROVE  RelayInv'
  BY <1>5, OpenLinkStep, OpenTextStep, RelayAcceptsStep, SubmittedStep, SubmitFailsStep
<1>6. CASE UNCHANGED vars
  <2>1. TypeOK' /\ LifeCycle'
    BY <1>6 DEF RelayInv, TypeOK, LifeCycle, vars
  <2>2. Answering' /\ PromiseKept' /\ AnswerFits' /\ ExpiredForGood'
    BY <1>6 DEF RelayInv, Answering, PromiseKept, AnswerFits, ExpiredForGood, vars, Taken
  <2>3. QED
    BY <2>1, <2>2 DEF RelayInv
<1>7. QED
  BY <1>1, <1>2, <1>3, <1>4, <1>5, <1>6 DEF Next

(* The relay, the host's polling and the import of answers keep the whole  *)
(* invariant, whatever is lost, expires, is pasted or goes away.           *)
THEOREM RelayInvHolds == Spec => []RelayInv
<1>1. Init => RelayInv
  BY RelayInit
<1>2. RelayInv /\ [Next]_vars => RelayInv'
  BY RelayStep
<1>3. QED
  BY <1>1, <1>2, PTL DEF Spec

(* At most one of the guests who share a link is told that its answer is   *)
(* with the relay, and the relay holds or hands over no other one          *)
(* (InviteStore.submitAnswer and getAnswer).                               *)
THEOREM PromisesAreKept == Spec => []PromiseKept
<1>1. RelayInv => PromiseKept
  BY DEF RelayInv
<1>2. QED
  BY <1>1, RelayInvHolds, PTL

(* A connection only ever has the answer of a guest of its own room        *)
(* (readPlayerAnswerSignal and applyAnswer of the transport).              *)
THEOREM AnswersFit == Spec => []AnswerFits
<1>1. RelayInv => AnswerFits
  BY DEF RelayInv
<1>2. QED
  BY <1>1, RelayInvHolds, PTL

(* Of several imports that run at once one prevails, and no later answer   *)
(* takes its place (applyAnswer of the transport).                         *)
THEOREM FirstAnswerIsKept == Spec => FirstAnswerStays
<1>1. RelayInv /\ [Next]_vars => [\A r \in Rooms : remote[r] # Nobody => remote'[r] = remote[r]]_vars
  <2> SUFFICES ASSUME RelayInv, Next, NEW r \in Rooms, remote[r] # Nobody
               PROVE  remote'[r] = remote[r]
    OBVIOUS
  <2>1. CASE \E i \in importing : SetRemote(i)
    BY <2>1 DEF SetRemote, RelayInv, TypeOK
  <2>2. CASE ~(\E i \in importing : SetRemote(i))
    <3>1. UNCHANGED remote
      BY <2>2 DEF Next, hostVars, CreateSession, OpenSession, RelayCreate, RelayDelete,
         RequestLost, Expire, Tick, RelayPoll, PollReturns, PollFails, Paste, Dispose,
         DisposeEarly, Kill, CheckAnswer, OpenLink, OpenText, RelayAccepts, Submitted,
         SubmitFails
    <3>2. QED
      BY <3>1
  <2>3. QED
    BY <2>1, <2>2
<1>2. QED
  BY <1>1, RelayInvHolds, PTL DEF Spec, FirstAnswerStays

(* An invite that its host was told has expired is not in the store again. *)
THEOREM ExpiryIsFinal == Spec => []ExpiredForGood
<1>1. RelayInv => ExpiredForGood
  BY DEF RelayInv
<1>2. QED
  BY <1>1, RelayInvHolds, PTL
=============================================================================
