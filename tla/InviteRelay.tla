----------------------------- MODULE InviteRelay -----------------------------
(***************************************************************************)
(* How the answer of a guest gets to the page of the host: the relay's     *)
(* InviteStore behind its HTTP routes (packages/server/src/signaling), the *)
(* polling of the host's page (packages/client/src/p2p/signalingClient.ts) *)
(* and the text a user may paste there instead (offlineSession.ts).        *)
(*                                                                         *)
(* A room stands for one call of createHostOfflineSession: a peer          *)
(* connection and its offer, and an invite at the relay that has no other  *)
(* name.  A guest stands for one call of createPlayerOfflineSession, and   *)
(* for the answer it makes.  Requests and responses may be lost, and a     *)
(* request that is lost, refused with 429 or failed looks the same.        *)
(***************************************************************************)
EXTENDS Naturals, FiniteSets, Functions

CONSTANTS
  Rooms,
  Guests,
  Texts,         \* what users paste: answers of guests, or Nobody's
  MaxInvites     \* the capacity of the store

Nobody == "nobody"
PollStates == {"none", "asked", "noContent", "notFound"}

ASSUME RelayAssumption ==
  /\ IsFiniteSet(Rooms)
  /\ Nobody \notin Guests \cup Rooms /\ Guests \cap PollStates = {}
  /\ Texts \subseteq Guests \cup {Nobody}
  /\ MaxInvites \in Nat

VARIABLES
  page,          \* the session of each room's host, see Pages
  posts,         \* rooms whose request to create an invite is under way
  invites,       \* the store: the answer (or Nobody) of the room of each invite
  deletes,       \* rooms whose request to delete the invite is under way
  linked,        \* rooms whose host has an invite, and shows its link
  polling,       \* rooms whose polling has not been stopped
  poll,          \* the poll in flight of each room, then its response
  importing,     \* answers on their way into the peer connection
  remote,        \* whose answer is the remote description of each room
  refused,       \* guests whose answers a connection would not take
  expired,       \* rooms whose host has been told that the invite expired
  guest          \* what each guest has been told, and whose offer it has

vars == <<page, posts, invites, deletes, linked, polling, poll,
          importing, remote, refused, expired, guest>>
hostVars == <<page, linked, polling, importing, remote, refused, expired>>

\* A session may be disposed of while it is created ("left"): it is opened
\* for nobody all the same ("orphan").
Pages == {"none", "creating", "left", "open", "orphan", "gone"}

\* The relay has "accepted" an answer before its guest hears that it was
\* "submitted".
Stages == {"idle", "submitting", "accepted", "submitted", "copy"}

TypeOK ==
  /\ page \in [Rooms -> Pages]
  /\ posts \subseteq Rooms /\ deletes \subseteq Rooms /\ linked \subseteq Rooms
  /\ DOMAIN invites \subseteq Rooms /\ Cardinality(DOMAIN invites) <= MaxInvites
  /\ \A r \in DOMAIN invites : invites[r] \in Guests \cup {Nobody}
  /\ polling \subseteq Rooms
  /\ poll \in [Rooms -> PollStates \cup Guests]
  /\ importing \subseteq [room : Rooms, of : Guests \cup {Nobody}, step : {"reading"}]
                    \cup [room : Rooms, of : Guests, step : {"setting"}]
  /\ remote \in [Rooms -> Guests \cup {Nobody}]
  /\ refused \subseteq Guests
  /\ expired \subseteq Rooms
  /\ guest \in [Guests -> [stage : Stages, room : Rooms \cup {Nobody}]]

Init ==
  /\ page = [r \in Rooms |-> "none"]
  /\ posts = {} /\ deletes = {} /\ linked = {}
  /\ invites = [r \in {} |-> Nobody]
  /\ polling = {} /\ poll = [r \in Rooms |-> "none"]
  /\ importing = {}
  /\ remote = [r \in Rooms |-> Nobody]
  /\ refused = {}
  /\ expired = {}
  /\ guest = [g \in Guests |-> [stage |-> "idle", room |-> Nobody]]

-----------------------------------------------------------------------------
(* The store.                                                              *)

With(store, r, answer) == [x \in DOMAIN store \cup {r} |-> IF x = r THEN answer ELSE store[x]]

Without(store, r) == Restrict(store, DOMAIN store \ {r})

\* Mutant: one invite too many.
IsRoomOver == Cardinality(DOMAIN invites) <= MaxInvites

IsRoom == Cardinality(DOMAIN invites) < MaxInvites

\* create, or InviteStoreFullError
RelayCreate(r) ==
  /\ r \in posts
  /\ posts' = posts \ {r}
  /\ invites' = IF IsRoom THEN With(invites, r, Nobody) ELSE invites
  /\ UNCHANGED <<hostVars, deletes, poll, guest>>

\* cleanupExpired; an invite lives at least for 30 seconds, which is longer
\* than its host waits for it.
Expire(r) ==
  /\ r \in DOMAIN invites /\ page[r] \notin {"creating", "left"}
  /\ invites' = Without(invites, r)
  /\ UNCHANGED <<hostVars, posts, deletes, poll, guest>>

\* Mutant: a later answer takes the place of an earlier one.
AcceptsAny(r) == r \in DOMAIN invites

\* submitAnswer accepts: otherwise 404, or InviteAnswerAlreadySubmittedError.
Accepts(r) == r \in DOMAIN invites /\ invites[r] = Nobody

\* get
HasInvite(r) == r \in DOMAIN invites

\* What the route answers to a poll
PollResponse(r) ==
  IF ~HasInvite(r) THEN "notFound"
  ELSE IF invites[r] = Nobody THEN "noContent" ELSE invites[r]

\* getAnswer, which deletes the invite whose answer it returns
RelayPoll(r) ==
  /\ poll[r] = "asked"
  /\ poll' = [poll EXCEPT ![r] = PollResponse(r)]
  /\ invites' = IF PollResponse(r) \in Guests THEN Without(invites, r) ELSE invites
  /\ UNCHANGED <<hostVars, posts, deletes, guest>>

\* delete
RelayDelete(r) ==
  /\ r \in deletes
  /\ deletes' = deletes \ {r}
  /\ invites' = Without(invites, r)
  /\ UNCHANGED <<hostVars, posts, poll, guest>>

RequestLost(r) ==
  /\ r \in posts \cup deletes
  /\ posts' = posts \ {r} /\ deletes' = deletes \ {r}
  /\ UNCHANGED <<hostVars, invites, poll, guest>>

-----------------------------------------------------------------------------
(* The host's page.                                                        *)

CreateSession(r) ==
  /\ page[r] = "none"
  /\ page' = [page EXCEPT ![r] = "creating"]
  /\ posts' = posts \cup {r}
  /\ UNCHANGED <<invites, deletes, linked, polling, poll, importing,
                 remote, refused, expired, guest>>

(* createRelayInviteOrFallback: the invite has been made, or the host goes *)
(* on without it, after 2.5 seconds perhaps and with the request still     *)
(* under way.  Nothing asks whether the session has been disposed of.      *)
OpenSession(r, relayed) ==
  /\ page[r] \in {"creating", "left"}
  /\ relayed => r \in DOMAIN invites
  /\ page' = [page EXCEPT ![r] = IF @ = "left" THEN "orphan" ELSE "open"]
  /\ linked' = IF relayed THEN linked \cup {r} ELSE linked
  /\ polling' = IF relayed THEN polling \cup {r} ELSE polling
  /\ UNCHANGED <<posts, invites, deletes, poll, importing, remote, refused, expired, guest>>

\* tick, up to its await
Tick(r) ==
  /\ r \in polling /\ poll[r] = "none"
  /\ poll' = [poll EXCEPT ![r] = "asked"]
  /\ UNCHANGED <<hostVars, posts, invites, deletes, guest>>

\* stop: the timer is cleared, a poll in flight goes on.
Stop(r) == polling' = polling \ {r}

\* Any error but 404 is reported and the polling goes on.
PollFails(r) ==
  /\ poll[r] # "none"
  /\ poll' = [poll EXCEPT ![r] = "none"]
  /\ UNCHANGED <<hostVars, posts, invites, deletes, guest>>

Reading(r, g) == [room |-> r, of |-> g, step |-> "reading"]

\* Mutant: whatever is not an answer means that the invite has expired.
IsInviteNotFoundErrorAny(response) == response \notin Guests

\* Mutant: a 404 is an error like any other.
IsInviteNotFoundErrorNever(response) == FALSE

IsInviteNotFoundError(response) == response = "notFound"

Stops(response) == response \in Guests \/ IsInviteNotFoundError(response)

(* tick after its await.  An answer that comes when the polling has been   *)
(* stopped is dropped; that the invite has gone is reported in any case.   *)
PollReturns(r) ==
  /\ poll[r] \notin {"none", "asked"}
  /\ poll' = [poll EXCEPT ![r] = "none"]
  /\ importing' = IF poll[r] \in Guests /\ r \in polling
                  THEN importing \cup {Reading(r, poll[r])} ELSE importing
  /\ expired' = IF IsInviteNotFoundError(poll[r]) THEN expired \cup {r} ELSE expired
  /\ IF Stops(poll[r]) THEN Stop(r) ELSE UNCHANGED polling
  /\ UNCHANGED <<page, posts, invites, deletes, linked, remote, refused, guest>>

\* applyAnswer of the session: whatever the text is, the polling is stopped.
Paste(r, text) ==
  /\ page[r] \in {"open", "orphan"}
  /\ text # Nobody => guest[text].stage # "idle"
  /\ Stop(r)
  /\ importing' = importing \cup {Reading(r, text)}
  /\ UNCHANGED <<page, posts, invites, deletes, linked, poll, remote, refused, expired, guest>>

\* Mutant: an answer to another room's offer will do.
BelongsAny(g, r) == g # Nobody

\* readPlayerAnswerSignal and the transport find no fault with the text.
Belongs(g, r) == g # Nobody /\ guest[g].room = r

\* The import succeeds: what is left of the invite is deleted.
Succeed(r) == deletes' = IF r \in linked THEN deletes \cup {r} ELSE deletes

\* readPlayerAnswerSignal, and applyAnswer of the transport up to its await.
\* The host is told of a text that is refused here, which leaves no trace.
CheckAnswer(i) ==
  /\ i \in importing /\ i.step = "reading"
  /\ LET fails == ~Belongs(i.of, i.room) \/ remote[i.room] \notin {Nobody, i.of}
         again == ~fails /\ remote[i.room] = i.of
     IN  /\ importing' = (importing \ {i}) \cup
              IF fails \/ again THEN {} ELSE {[i EXCEPT !.step = "setting"]}
         /\ IF again THEN Succeed(i.room) ELSE UNCHANGED deletes
  /\ UNCHANGED <<page, posts, invites, linked, polling, poll, remote, refused, expired, guest>>

\* Mutant: a connection takes one remote answer after another.
SetRemoteAnew(i) ==
  /\ i \in importing /\ i.step = "setting"
  /\ importing' = importing \ {i}
  /\ \/ remote' = [remote EXCEPT ![i.room] = i.of] /\ Succeed(i.room) /\ UNCHANGED refused
     \/ refused' = refused \cup {i.of} /\ UNCHANGED <<remote, deletes>>
  /\ UNCHANGED <<page, posts, invites, linked, polling, poll, expired, guest>>

(* setRemoteDescription.  It may fail, and does when the connection has    *)
(* got a remote answer meanwhile; applyAnswer takes a complaint about the  *)
(* stable state for a success.  Of a failure the host is told, by onError  *)
(* of the polling, which has been stopped and stays so, or by the paste.   *)
SetRemote(i) ==
  /\ i \in importing /\ i.step = "setting"
  /\ importing' = importing \ {i}
  /\ \/ /\ remote' = IF remote[i.room] = Nobody THEN [remote EXCEPT ![i.room] = i.of] ELSE remote
        /\ Succeed(i.room)
        /\ UNCHANGED refused
     \/ refused' = refused \cup {i.of} /\ UNCHANGED <<remote, deletes>>
  /\ UNCHANGED <<page, posts, invites, linked, polling, poll, expired, guest>>

\* The page is gone, and its imports with it.  (A page that goes while it is
\* creating the room leaves no more behind than one that has fallen back.)
Close(r) ==
  /\ page' = [page EXCEPT ![r] = "gone"]
  /\ Stop(r)
  /\ importing' = {i \in importing : i.room # r}

\* controllerDispose: a poll in flight is not cancelled.
Dispose(r) ==
  /\ page[r] = "open"
  /\ Close(r)
  /\ deletes' = IF r \in linked THEN deletes \cup {r} ELSE deletes
  /\ UNCHANGED <<posts, invites, linked, poll, remote, refused, expired, guest>>

\* A restored host with a game is ready, and may leave, before there is an
\* invite to delete or a polling to stop.
DisposeEarly(r) ==
  /\ page[r] = "creating"
  /\ page' = [page EXCEPT ![r] = "left"]
  /\ UNCHANGED <<posts, invites, deletes, linked, polling, poll, importing,
                 remote, refused, expired, guest>>

Kill(r) ==
  /\ page[r] \in {"open", "orphan"}
  /\ Close(r)
  /\ poll' = [poll EXCEPT ![r] = "none"]
  /\ UNCHANGED <<posts, invites, deletes, linked, remote, refused, expired, guest>>

-----------------------------------------------------------------------------
(* The guest's page.                                                       *)

\* From a link: getInvite, with or without an answer already at the relay.
OpenLink(g, r) ==
  /\ guest[g].stage = "idle"
  /\ r \in linked /\ HasInvite(r)
  /\ guest' = [guest EXCEPT ![g] = [stage |-> "submitting", room |-> r]]
  /\ UNCHANGED <<hostVars, posts, invites, deletes, poll>>

\* From the text of the invite, which the relay has no part in.
OpenText(g, r) ==
  /\ guest[g].stage = "idle"
  /\ page[r] \in {"open", "orphan", "gone"}
  /\ guest' = [guest EXCEPT ![g] = [stage |-> "copy", room |-> r]]
  /\ UNCHANGED <<hostVars, posts, invites, deletes, poll>>

\* submitAnswer at the relay: the answer is stored.
RelayAccepts(g) ==
  /\ guest[g].stage = "submitting"
  /\ Accepts(guest[g].room)
  /\ invites' = With(invites, guest[g].room, g)
  /\ guest' = [guest EXCEPT ![g].stage = "accepted"]
  /\ UNCHANGED <<hostVars, posts, deletes, poll>>

\* The guest hears of it, and is told to wait.
Submitted(g) ==
  /\ guest[g].stage = "accepted"
  /\ guest' = [guest EXCEPT ![g].stage = "submitted"]
  /\ UNCHANGED <<hostVars, posts, invites, deletes, poll>>

\* Refused, or the request or the response is lost: copy the answer.
SubmitFails(g) ==
  /\ guest[g].stage \in {"submitting", "accepted"}
  /\ guest' = [guest EXCEPT ![g].stage = "copy"]
  /\ UNCHANGED <<hostVars, posts, invites, deletes, poll>>

-----------------------------------------------------------------------------
Next ==
  \/ \E r \in Rooms :
       \/ CreateSession(r) \/ \E relayed \in BOOLEAN : OpenSession(r, relayed)
       \/ RelayCreate(r) \/ RelayDelete(r) \/ RequestLost(r) \/ Expire(r)
       \/ Tick(r) \/ RelayPoll(r) \/ PollReturns(r) \/ PollFails(r)
       \/ \E text \in Texts : Paste(r, text)
       \/ Dispose(r) \/ DisposeEarly(r) \/ Kill(r)
  \/ \E i \in importing : CheckAnswer(i) \/ SetRemote(i)
  \/ \E g \in Guests :
       \/ \E r \in Rooms : OpenLink(g, r) \/ OpenText(g, r)
       \/ RelayAccepts(g) \/ Submitted(g) \/ SubmitFails(g)

Spec == Init /\ [][Next]_vars

(* The timer ticks, and a host that goes on asking is answered in the end; *)
(* a promise is settled.                                                   *)
FairSpec ==
  /\ Spec
  /\ \A r \in Rooms :
       WF_vars(Tick(r)) /\ SF_vars(RelayPoll(r)) /\ SF_vars(PollReturns(r))
  /\ \A r \in Rooms, g \in Guests :
       /\ WF_vars(CheckAnswer(Reading(r, g)))
       /\ WF_vars(SetRemote([Reading(r, g) EXCEPT !.step = "setting"]))

-----------------------------------------------------------------------------
Taken == {"accepted", "submitted"}

(* Of the guests who share a link at most one is told to wait for the host *)
(* to connect, and it is this one's answer that the relay holds or is      *)
(* handing over, whatever requests and responses are lost.                 *)
PromiseKept ==
  \A g \in Guests : guest[g].stage \in Taken =>
    LET r == guest[g].room
    IN  /\ \A h \in Guests \ {g} : guest[h].stage \in Taken => guest[h].room # r
        /\ r \in DOMAIN invites => invites[r] = g
        /\ poll[r] \in Guests => poll[r] = g

(* The connection of a room only ever has the answer of a guest who was    *)
(* answering this room's offer, though any text can be pasted anywhere and *)
(* links and invites outlive their rooms.                                  *)
AnswerFits ==
  \A r \in Rooms : remote[r] # Nobody => guest[remote[r]].room = r

(* A connection keeps the first answer it is given: of imports that run at *)
(* once, pasted and polled, and have all found none there, one prevails,   *)
(* and no later one takes its place.                                       *)
FirstAnswerStays ==
  [][\A r \in Rooms : remote[r] # Nobody => remote'[r] = remote[r]]_vars

(* A host that is told its invite has expired gives up on it rightly: the  *)
(* relay accepts no answer for it any more.                                *)
ExpiredForGood ==
  expired \cap DOMAIN invites = {}

\* The order in which a room comes by its invite, its link and its polls
LifeCycle ==
  /\ \A r \in Rooms : page[r] = "none" => r \notin posts /\ r \notin DOMAIN invites
  /\ \A r \in Rooms : page[r] \in {"none", "creating", "left"} =>
       r \notin linked /\ remote[r] = Nobody /\ \A i \in importing : i.room # r
  /\ \A r \in posts : r \notin linked /\ r \notin DOMAIN invites
  /\ polling \subseteq linked /\ expired \subseteq linked
  /\ \A r \in Rooms : poll[r] # "none" => r \in linked
  /\ \A r \in Rooms : poll[r] \in Guests \cup {"notFound"} => r \notin DOMAIN invites

\* The offer a guest answers stays the one it has opened.
Answering ==
  /\ \A g \in Guests : guest[g].stage = "idle" <=> guest[g].room = Nobody
  /\ \A g \in Guests : guest[g].stage \in Taken \cup {"submitting"} =>
       guest[g].room \in linked
  /\ \A i \in importing : i.step = "setting" => guest[i.of].room = i.room

(* The inductive invariant behind these properties: an invite is made      *)
(* once, before its link is shown and before anybody polls for it.         *)
RelayInv ==
  TypeOK /\ LifeCycle /\ Answering
  /\ PromiseKept /\ AnswerFits /\ ExpiredForGood

(* An answer the relay has accepted gets to the host who stays on the page *)
(* or else the host is told: that the invite is gone, for a response was   *)
(* lost, or that the connection would not take this answer.                *)
AnswerArrives ==
  \A r \in Rooms, g \in Guests :
    (r \in linked /\ page[r] = "open" /\ r \in DOMAIN invites /\ invites[r] = g)
      ~> \/ remote[r] # Nobody \/ g \in refused
         \/ r \in expired \/ page[r] # "open"
=============================================================================
