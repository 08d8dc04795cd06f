--------------------------- MODULE GamePage_proofs ---------------------------
(***************************************************************************)
(* Proofs about GamePage, for any cards and deals, any number of commands  *)
(* and events on their way, of connections given up and any picks          *)
(* explored: a page plays a game of the engine, is well typed, and while   *)
(* it has the game's address, once it has heard all there is to hear,      *)
(* shows the game as it is and offers the choice awaited of its player.    *)
(***************************************************************************)
EXTENDS GamePage, HanamikojiEngine_proofs

LEMMA OpponentIs == Opponent \in Players /\ Opponent # Me /\ Me \in Players /\ Other(Opponent) = Me
BY PlayersFacts, PageAssumption DEF Opponent

\* The commands that ask the engine for something.
Moves == {"drawCard", "playAction", "resolveAction"}

LEMMA PerformsStep ==
  ASSUME NEW c \in Commands, c.type \in Moves, Performs(c)
  PROVE  Next
<1>0. Me \in Players
  BY PageAssumption
<1>1. CASE c.type = "drawCard"
  BY <1>0, <1>1 DEF Performs, Next
<1>2. CASE c.type = "playAction"
  <2>1. \/ PlaySecret(Me, c.cards)
        \/ PlayDiscard(Me, c.cards)
        \/ PlayOffer(Me, c.action, c.cards)
    BY <1>2 DEF Performs
  <2>2. c.cards \in SUBSET hand[Me]
    BY <2>1 DEF PlaySecret, PlayDiscard, PlayOffer, MayPlay
  <2>3. PlayOffer(Me, c.action, c.cards) => c.action \in {"gift", "competition"}
    BY DEF PlayOffer
  <2>4. QED
    BY <1>0, <2>1, <2>2, <2>3 DEF Next
<1>3. CASE c.type = "resolveAction"
  BY <1>0, <1>3 DEF Performs, Next
<1>4. QED
  BY <1>1, <1>2, <1>3 DEF Moves

LEMMA OpponentStep == OpponentActs => Next
<1>. SUFFICES ASSUME OpponentActs PROVE Next
  OBVIOUS
<1>0. Opponent \in Players
  BY OpponentIs
<1>1. CASE Draw(Opponent)
  BY <1>0, <1>1 DEF Next
<1>2. ASSUME NEW type \in ActionTypes \ used[Opponent], NEW cards \in HandsOf(type),
             \/ PlaySecret(Opponent, cards)
             \/ PlayDiscard(Opponent, cards)
             \/ PlayOffer(Opponent, type, cards)
      PROVE  Next
  <2>1. cards \in SUBSET hand[Opponent]
    BY <1>2 DEF PlaySecret, PlayDiscard, PlayOffer, MayPlay
  <2>2. PlayOffer(Opponent, type, cards) => type \in {"gift", "competition"}
    BY DEF PlayOffer
  <2>3. QED
    BY <1>0, <1>2, <2>1, <2>2 DEF Next
<1>3. ASSUME NEW chosen, Resolve(Opponent, chosen)
      PROVE  Next
  <2>1. chosen \in pending.groups
    BY <1>3 DEF Resolve
  <2>2. QED
    BY <1>0, <1>3, <2>1 DEF Next
<1>4. QED
  BY <1>1, <1>2, <1>3 DEF OpponentActs

LEMMA DispatchStep ==
  ASSUME NEW c \in Commands, c.type \in Moves, NEW asker, Dispatch(c, asker)
  PROVE  Next \/ UNCHANGED vars
BY PerformsStep DEF Dispatch

-----------------------------------------------------------------------------
(* Types.                                                                  *)

Pages ==
  [screen : {"game", "lobby", "left"}, view : Views, selectedCards : SUBSET Cards,
   currentAction : ActionTypes \cup {NoAction},
   showGift : BOOLEAN, showCompetition : BOOLEAN, showGameOver : BOOLEAN]

\* The cards selected are those of an action, and no more than it takes.
Fits(pg) ==
  IF pg.currentAction = NoAction THEN pg.selectedCards = {}
  ELSE Cardinality(pg.selectedCards) <= RequiredCount[pg.currentAction]

\* What the server asks the engine.
Asking == {c \in Commands : c.type \in Moves}

\* What a page sends before it leaves.
Staying == {c \in Commands : c.type # "leaveRoom"}

PageTypes ==
  /\ page \in Pages
  /\ Fits(page)
  /\ conn \in ConnStates
  /\ commands \in Seq(Commands)
  /\ page.screen # "left" => commands \in Seq(Staying)
  /\ events \in Seq(Events)
  /\ stray \in [Old -> [open : BOOLEAN, commands : Seq(Staying)]]
  /\ \A o \in Old : ~stray[o].open => stray[o].commands = <<>>

LEMMA ViewType == TypeOK => MyView \in Views
<1>. SUFFICES ASSUME TypeOK PROVE MyView \in Views
  OBVIOUS
<1>1. hand[Me] \in SUBSET Cards /\ hand[Opponent] \in SUBSET Cards /\ used[Me] \in SUBSET ActionTypes
  BY OpponentIs DEF TypeOK
<1>2. Cardinality(hand[Opponent]) \in Nat
  BY <1>1, CardsFinite, FS_CardinalityType
<1>3. QED
  BY <1>1, <1>2 DEF MyView, Views, TypeOK

LEMMA ViewTypeNext == (TypeOK => MyView \in Views)'
BY ViewType, PTL

\* Messages of one step of the server.
News(ms) ==
  /\ ms \in Seq(Events)
  /\ \A i \in 1 .. Len(ms) : ms[i].view = MyView'

\* They ask for no choice.
Remarks(ms) == News(ms) /\ \A i \in 1 .. Len(ms) : ~IsChoice(ms[i])

\* They begin with the state, and ask for a choice right after it if at all.
Batch(ms) ==
  /\ News(ms)
  /\ Len(ms) > 0
  /\ IsUpdate(ms[1])
  /\ \A i \in 1 .. Len(ms) : IsChoice(ms[i]) => i = 2

\* What a step of the server may say to the page.
Told ==
  \/ \E ms : Batch(ms) /\ Tell(ms)
  \/ conn' # "attached" /\ \E ms : Remarks(ms) /\ events' = events \o ms

LEMMA EventNews ==
  ASSUME TypeOK',
         NEW type \in {"gameStateUpdate", "phaseChanged", "actionRequired", "choiceRequired", "gameOver"}
  PROVE  /\ News(<<Event(type)>>) /\ Remarks(<<>>)
         /\ type # "choiceRequired" => Remarks(<<Event(type)>>)
<1>1. MyView' \in Views
  BY ViewTypeNext DEF Views
<1>2. Event(type) \in Events /\ Event(type).view = MyView' /\ Event(type).type = type
  BY <1>1 DEF Event, Events
<1>. HIDE DEF Event
<1>3. QED
  BY <1>2 DEF News, Remarks, IsChoice

LEMMA UpdateBatch == TypeOK' => Batch(Update)
<1>. SUFFICES ASSUME TypeOK' PROVE Batch(Update)
  OBVIOUS
<1>1. News(Update)
  BY EventNews DEF Update
<1>2. Len(Update) = 1 /\ IsUpdate(Update[1]) /\ ~IsChoice(Update[1])
  BY DEF Update, IsUpdate, IsChoice, Event
<1>3. QED
  BY <1>1, <1>2 DEF Batch

LEMMA UpdateRemarks == TypeOK' => Remarks(Update)
BY EventNews DEF Update

\* At most one hint is sent.
LEMMA HintsNews ==
  ASSUME TypeOK'
  PROVE  News(Hints) /\ Len(Hints) <= 1 /\ Remarks(GameOver)
<1>1. /\ News(<<>>) /\ News(<<Event("gameOver")>>) /\ News(<<Event("choiceRequired")>>)
      /\ News(<<Event("phaseChanged")>>) /\ Remarks(<<>>) /\ Remarks(<<Event("gameOver")>>)
  BY EventNews DEF Remarks
<1>2. Hints \in {<<>>, <<Event("gameOver")>>, <<Event("choiceRequired")>>, <<Event("phaseChanged")>>}
  BY DEF Hints, GameOver
<1>3. GameOver \in {<<>>, <<Event("gameOver")>>}
  BY DEF GameOver
<1>4. /\ Len(<<>>) = 0 /\ Len(<<Event("gameOver")>>) = 1
      /\ Len(<<Event("choiceRequired")>>) = 1 /\ Len(<<Event("phaseChanged")>>) = 1
  OBVIOUS
<1>. HIDE DEF Hints, GameOver, Event
<1>5. News(Hints)
  BY <1>1, <1>2, Zenon
<1>6. Len(Hints) <= 1
  <2>1. Len(Hints) \in {0, 1}
    BY <1>2, <1>4, Zenon
  <2>2. \A n \in {0, 1} : n <= 1
    OBVIOUS
  <2>3. QED
    BY <2>1, <2>2, Zenon
<1>7. Remarks(GameOver)
  BY <1>1, <1>3, Zenon
<1>8. QED
  BY <1>5, <1>6, <1>7

\* One message after another.
LEMMA TwoNews ==
  ASSUME NEW ms, NEW ns, News(ms), News(ns)
  PROVE  /\ News(ms \o ns)
         /\ Len(ms \o ns) = Len(ms) + Len(ns) /\ Len(ms) \in Nat /\ Len(ns) \in Nat
         /\ \A i \in 1 .. Len(ms \o ns) :
              \/ i \in 1 .. Len(ms) /\ (ms \o ns)[i] = ms[i]
              \/ i - Len(ms) \in 1 .. Len(ns) /\ (ms \o ns)[i] = ns[i - Len(ms)]
<1>1. ms \in Seq(Events) /\ ns \in Seq(Events)
  BY DEF News
<1>2. /\ ms \o ns \in Seq(Events)
      /\ Len(ms \o ns) = Len(ms) + Len(ns)
      /\ Len(ms) \in Nat /\ Len(ns) \in Nat
      /\ \A i \in 1 .. Len(ms) + Len(ns) :
           (ms \o ns)[i] = IF i <= Len(ms) THEN ms[i] ELSE ns[i - Len(ms)]
  BY <1>1
<1>3. \A i \in 1 .. Len(ms \o ns) :
        \/ i \in 1 .. Len(ms) /\ (ms \o ns)[i] = ms[i]
        \/ i - Len(ms) \in 1 .. Len(ns) /\ (ms \o ns)[i] = ns[i - Len(ms)]
  BY <1>2
<1>4. QED
  BY <1>2, <1>3 DEF News

LEMMA TwoRemarks ==
  ASSUME NEW ms, NEW ns, Remarks(ms), Remarks(ns)
  PROVE  Remarks(ms \o ns)
BY TwoNews DEF Remarks

LEMMA LongerBatch ==
  ASSUME NEW ms, NEW ns, Batch(ms), Remarks(ns)
  PROVE  Batch(ms \o ns)
<1>1. /\ News(ms \o ns)
      /\ Len(ms \o ns) = Len(ms) + Len(ns) /\ Len(ms) \in Nat /\ Len(ns) \in Nat /\ Len(ms) > 0
      /\ \A i \in 1 .. Len(ms \o ns) :
           \/ i \in 1 .. Len(ms) /\ (ms \o ns)[i] = ms[i]
           \/ i - Len(ms) \in 1 .. Len(ns) /\ (ms \o ns)[i] = ns[i - Len(ms)]
  BY TwoNews DEF Batch, Remarks
<1>2. (ms \o ns)[1] = ms[1] /\ Len(ms \o ns) > 0
  <2>1. 1 \in 1 .. Len(ms \o ns) /\ 1 - Len(ms) \notin 1 .. Len(ns)
    BY <1>1
  <2>2. QED
    BY <1>1, <2>1
<1>3. ASSUME NEW i \in 1 .. Len(ms \o ns), IsChoice((ms \o ns)[i]) PROVE i = 2
  BY <1>1, <1>3 DEF Batch, Remarks
<1>4. QED
  BY <1>1, <1>2, <1>3 DEF Batch

LEMMA StateAndHints ==
  ASSUME TypeOK'
  PROVE  Batch(Update \o Hints)
<1>1. News(Update) /\ Len(Update) = 1 /\ IsUpdate(Update[1]) /\ ~IsChoice(Update[1])
  BY UpdateBatch DEF Batch, Update, IsUpdate, IsChoice, Event
<1>2. News(Hints) /\ Len(Hints) <= 1
  BY HintsNews
<1>. HIDE DEF Update, Hints
<1>3. /\ News(Update \o Hints)
      /\ Len(Update \o Hints) = 1 + Len(Hints) /\ Len(Hints) \in Nat
      /\ \A i \in 1 .. Len(Update \o Hints) :
           \/ i \in 1 .. 1 /\ (Update \o Hints)[i] = Update[i]
           \/ i - 1 \in 1 .. Len(Hints) /\ (Update \o Hints)[i] = Hints[i - 1]
  BY <1>1, <1>2, TwoNews
<1>4. (Update \o Hints)[1] = Update[1] /\ Len(Update \o Hints) > 0
  BY <1>3
<1>5. ASSUME NEW i \in 1 .. Len(Update \o Hints), IsChoice((Update \o Hints)[i]) PROVE i = 2
  <2>1. i # 1
    BY <1>1, <1>4, <1>5
  <2>2. QED
    BY <1>2, <1>3, <2>1
<1>6. QED
  BY <1>1, <1>3, <1>4, <1>5 DEF Batch

LEMMA AnnounceTold ==
  ASSUME TypeOK', NEW answer, Remarks(answer), Announce(answer)
  PROVE  Told
<1>1. CASE conn' = "attached"
  <2>1. Batch(Update \o Hints \o answer)
    BY StateAndHints, LongerBatch
  <2>2. Tell(Update \o Hints \o answer)
    BY <1>1 DEF Announce, Tell
  <2>3. QED
    BY <2>1, <2>2 DEF Told
<1>2. CASE conn' = "astray"
  <2>1. Remarks(GameOver \o answer)
    BY HintsNews, TwoRemarks
  <2>2. events' = events \o (GameOver \o answer)
    BY <1>2 DEF Announce
  <2>3. QED
    BY <1>2, <2>1, <2>2 DEF Told
<1>3. CASE conn' \notin {"attached", "astray"}
  <2>1. events' = events \o <<>>
    BY <1>3 DEF Announce
  <2>2. QED
    BY <1>3, <2>1, EventNews DEF Told
<1>4. QED
  BY <1>1, <1>2, <1>3

LEMMA DispatchTold ==
  ASSUME TypeOK', NEW c \in Asking, NEW asker, Dispatch(c, asker)
  PROVE  \/ /\ UNCHANGED <<vars, events>>
            /\ ~Accepts(c) \/ (c.type = "resolveAction" /\ c.offer # pending)
         \/ Told
<1>. DEFINE asked == IF asker /\ c.type = "drawCard" THEN <<Event("actionRequired")>> ELSE <<>>
<1>1. Remarks(asked)
  BY EventNews
<1>. HIDE DEF asked
<1>2. Announce(asked) => Told
  BY <1>1, AnnounceTold
<1>3. QED
  BY <1>2 DEF Dispatch, asked

LEMMA ToldType ==
  ASSUME Told, events \in Seq(Events)
  PROVE  events' \in Seq(Events)
<1>1. ASSUME NEW ms, News(ms), events' = events \o ms PROVE events' \in Seq(Events)
  BY <1>1 DEF News
<1>2. \/ events' = events
      \/ \E ms : News(ms) /\ events' = events \o ms
  BY DEF Told, Tell, Batch, Remarks
<1>3. QED
  BY <1>1, <1>2

-----------------------------------------------------------------------------
LEMMA NoneSelected == Cardinality({}) = 0
BY FS_EmptySet

LEMMA MountedType ==
  ASSUME NEW v \in Views
  PROVE  Mounted(v) \in Pages /\ Fits(Mounted(v))
BY DEF Mounted, Pages, Fits, GiftForMe, CompetitionForMe

\* d is pg but for its dialogs.
ButDialogs(pg, d) ==
  /\ d \in Pages
  /\ d.screen = pg.screen
  /\ d.view = pg.view
  /\ d.selectedCards = pg.selectedCards
  /\ d.currentAction = pg.currentAction

LEMMA DialogsType ==
  ASSUME NEW old, NEW new \in Pages
  PROVE  ButDialogs(new, Dialogs(old, new, TRUE)) /\ ButDialogs(new, Dialogs(old, new, FALSE))
BY DEF Dialogs, ButDialogs, Pages, GiftForMe, CompetitionForMe

LEMMA ClearedType ==
  ASSUME NEW pg \in Pages
  PROVE  /\ Cleared(pg) \in Pages
         /\ Fits(Cleared(pg))
         /\ Cleared(pg).screen = pg.screen
         /\ Cleared(pg).view = pg.view
<1>. DEFINE new == [pg EXCEPT !.selectedCards = {}, !.currentAction = NoAction]
<1>1. /\ new \in Pages /\ new.screen = pg.screen /\ new.view = pg.view
      /\ new.selectedCards = {} /\ new.currentAction = NoAction
  BY DEF Pages
<1>. HIDE DEF new
<1>2. Cleared(pg) = Dialogs(pg, new, FALSE)
  BY DEF Cleared, new
<1>3. /\ Cleared(pg) \in Pages /\ Cleared(pg).screen = pg.screen /\ Cleared(pg).view = pg.view
      /\ Cleared(pg).selectedCards = {} /\ Cleared(pg).currentAction = NoAction
  <2>1. ButDialogs(new, Dialogs(pg, new, FALSE))
    BY <1>1, DialogsType
  <2>2. ButDialogs(new, Cleared(pg))
    BY <1>2, <2>1
  <2>3. QED
    BY <1>1, <2>2 DEF ButDialogs
<1>4. QED
  BY <1>3 DEF Fits

LEMMA ReceivedType ==
  ASSUME NEW pg \in Pages, Fits(pg), NEW e \in Events
  PROVE  /\ Received(pg, e) \in Pages
         /\ Fits(Received(pg, e))
         /\ Received(pg, e).screen = "left" <=> pg.screen = "left"
<1>0. e.view \in Views
  BY DEF Events
<1>1. CASE pg.screen = "left"
  BY <1>1 DEF Received
<1>2. CASE pg.screen = "lobby"
  <2>1. CASE e.type = "gameStateUpdate"
    <3>1. Received(pg, e) = Mounted(e.view)
      BY <1>2, <2>1 DEF Received
    <3>2. Mounted(e.view).screen = "game"
      BY DEF Mounted
    <3>3. QED
      BY <1>0, <1>2, <3>1, <3>2, MountedType
  <2>2. CASE e.type # "gameStateUpdate"
    BY <1>2, <2>2 DEF Received
  <2>3. QED
    BY <2>1, <2>2
<1>3. CASE pg.screen = "game"
  <2>1. CASE e.type = "gameStateUpdate"
    <3>. DEFINE new == [pg EXCEPT !.view = e.view]
    <3>1. /\ new \in Pages /\ new.screen = pg.screen
          /\ new.selectedCards = pg.selectedCards /\ new.currentAction = pg.currentAction
      BY <1>0 DEF Pages
    <3>2. Received(pg, e) = Dialogs(pg, new, TRUE)
      BY <1>3, <2>1 DEF Received
    <3>. HIDE DEF new
    <3>3. /\ Received(pg, e) \in Pages /\ Received(pg, e).screen = pg.screen
          /\ Received(pg, e).selectedCards = pg.selectedCards
          /\ Received(pg, e).currentAction = pg.currentAction
      <4>1. ButDialogs(new, Dialogs(pg, new, TRUE))
        BY <3>1, DialogsType
      <4>2. ButDialogs(new, Received(pg, e))
        BY <3>2, <4>1
      <4>3. QED
        BY <3>1, <4>2 DEF ButDialogs
    <3>4. QED
      BY <3>3 DEF Fits
  <2>2. CASE e.type \in {"actionRequired", "phaseChanged"}
    <3>1. Received(pg, e) = Cleared(pg)
      BY <1>3, <2>2 DEF Received
    <3>2. QED
      BY <3>1, ClearedType
  <2>3. CASE e.type = "choiceRequired"
    BY <1>3, <2>3 DEF Received, Pages, Fits, GiftForMe, CompetitionForMe
  <2>4. CASE e.type = "gameOver"
    BY <1>3, <2>4 DEF Received, Pages, Fits
  <2>5. QED
    BY <2>1, <2>2, <2>3, <2>4 DEF Events
<1>4. QED
  BY <1>1, <1>2, <1>3 DEF Pages

LEMMA HeadTail ==
  ASSUME NEW S, NEW q \in Seq(S), q # <<>>
  PROVE  /\ Head(q) \in S /\ Head(q) = q[1]
         /\ Len(q) \in Nat /\ Len(q) > 0
         /\ Tail(q) \in Seq(S) /\ Len(Tail(q)) = Len(q) - 1
         /\ \A i \in 1 .. Len(Tail(q)) : i + 1 \in 1 .. Len(q) /\ Tail(q)[i] = q[i + 1]
OBVIOUS

LEMMA StrayHead ==
  ASSUME PageTypes, NEW o \in Old, HandleStray(o)
  PROVE  /\ Head(stray[o].commands) \in Staying
         /\ Tail(stray[o].commands) \in Seq(Staying)
         /\ stray' = [stray EXCEPT ![o].commands = Tail(stray[o].commands)]
         /\ stray[o].open
<1>1. stray[o].commands \in Seq(Staying) /\ stray[o].commands # <<>> /\ stray[o].open \in BOOLEAN
  BY DEF HandleStray, PageTypes
<1>2. QED
  BY <1>1, HeadTail DEF HandleStray, PageTypes

LEMMA CommandKinds ==
  ASSUME NEW c \in Commands
  PROVE  c \in Asking <=> c.type \notin {"resumeGame", "leaveRoom"}
BY DEF Commands, Asking, Moves

-----------------------------------------------------------------------------
(* Whatever the page, its connections and the opponent do, the engine only *)
(* ever takes a step of its own.                                           *)
LEMMA PageStep ==
  ASSUME PageTypes, [PageNext]_<<vars, pageVars>>
  PROVE  [Next]_vars
<1>1. CASE OpponentActs
  BY <1>1, OpponentStep
<1>2. CASE HandleCommand
  <2>. DEFINE c == Head(commands)
  <2>0. c \in Commands
    BY <1>2, HeadTail DEF HandleCommand, PageTypes
  <2>1. CASE c.type \in {"resumeGame", "leaveRoom"}
    <3>1. UNCHANGED vars
      BY <1>2, <2>1 DEF HandleCommand
    <3>2. QED
      BY <3>1
  <2>2. CASE c.type \notin {"resumeGame", "leaveRoom"}
    <3>1. Dispatch(c, TRUE)
      BY <1>2, <2>2 DEF HandleCommand
    <3>2. c.type \in Moves
      BY <2>0, <2>2, CommandKinds DEF Asking
    <3>3. QED
      BY <2>0, <3>1, <3>2, DispatchStep
  <2>3. QED
    BY <2>1, <2>2
<1>3. ASSUME NEW o \in Old, HandleStray(o) PROVE [Next]_vars
  <2>. DEFINE c == Head(stray[o].commands)
  <2>1. c \in Staying
    BY <1>3, StrayHead
  <2>2. CASE c.type = "resumeGame"
    BY <1>3, <2>2 DEF HandleStray
  <2>3. CASE c.type # "resumeGame"
    <3>1. Dispatch(c, FALSE) /\ c \in Asking
      BY <1>3, <2>1, <2>3, CommandKinds DEF HandleStray, Staying
    <3>2. QED
      BY <3>1, DispatchStep DEF Asking
  <2>4. QED
    BY <2>2, <2>3
<1>4. CASE \/ OpponentFlickers \/ Deliver \/ Reconnect
           \/ \E o \in Old : OldConnectionCloses(o) \/ Drop(o)
  BY <1>4 DEF OpponentFlickers, OldConnectionCloses, Deliver, Drop, Reconnect
<1>5. CASE \/ HandleDrawCard \/ HandleCompetitionComplete \/ HandleChoice \/ HandleCloseGameOver
  BY <1>5 DEF HandleDrawCard, HandleCompetitionComplete, HandleChoice, HandleCloseGameOver, Send
<1>6. CASE \/ HandleActionSelect \/ HandleCardSelect \/ HandleCancelAction \/ HandleConfirmAction
  BY <1>6 DEF HandleActionSelect, HandleCardSelect, HandleCancelAction, HandleConfirmAction,
              OnScreen, Send
<1>7. CASE UNCHANGED <<vars, pageVars>>
  BY <1>7
<1>8. QED
  BY <1>1, <1>2, <1>3, <1>4, <1>5, <1>6, <1>7 DEF PageNext

-----------------------------------------------------------------------------
(* Type correctness of the page.                                           *)

LEMMA InitPageTypes == PageInit => PageTypes
<1>. SUFFICES ASSUME PageInit PROVE PageTypes
  OBVIOUS
<1>1. MyView \in Views
  BY InitType, ViewType DEF PageInit
<1>2. Mounted(MyView) \in Pages /\ Fits(Mounted(MyView))
  BY <1>1, MountedType
<1>3. QED
  BY <1>2 DEF PageInit, PageTypes, Closed, ConnStates

LEMMA SendType ==
  ASSUME PageTypes, NEW c \in Commands, Send(c)
  PROVE  /\ commands' \in Seq(Commands)
         /\ page.screen # "left" /\ c \in Asking => commands' \in Seq(Staying)
<1>1. c \in Asking => c \in Staying
  BY CommandKinds DEF Staying
<1>2. QED
  BY <1>1 DEF PageTypes, Send

\* What the server does to what is on its way to the page.
LEMMA ServerType ==
  ASSUME PageTypes, TypeOK', HandleCommand
  PROVE  PageTypes'
<1>. DEFINE c == Head(commands)
<1>1. c \in Commands /\ commands' = Tail(commands) /\ commands' \in Seq(Commands)
  BY HeadTail DEF HandleCommand, PageTypes
<1>2. page.screen # "left" => commands' \in Seq(Staying)
  BY HeadTail DEF HandleCommand, PageTypes
<1>3. events' \in Seq(Events) /\ conn' \in ConnStates
  <2>1. CASE c.type = "resumeGame"
    <3>1. Batch(Update \o Update)
      BY UpdateBatch, UpdateRemarks, LongerBatch
    <3>2. Tell(Update \o Update) /\ conn' = "attached"
      BY <2>1 DEF HandleCommand
    <3>3. QED
      BY <3>1, <3>2, ToldType DEF PageTypes, Told, ConnStates
  <2>2. CASE c.type = "leaveRoom"
    BY <2>2 DEF HandleCommand, PageTypes, ConnStates
  <2>3. CASE c.type \notin {"resumeGame", "leaveRoom"}
    <3>1. Dispatch(c, TRUE) /\ conn' = conn
      BY <2>3 DEF HandleCommand
    <3>2. c \in Asking
      BY <1>1, <2>3, CommandKinds
    <3>3. QED
      BY <3>1, <3>2, DispatchTold, ToldType DEF PageTypes
  <2>4. QED
    BY <2>1, <2>2, <2>3
<1>4. UNCHANGED <<page, stray>>
  BY DEF HandleCommand
<1>5. QED
  BY <1>1, <1>2, <1>3, <1>4 DEF PageTypes

LEMMA StrayType ==
  ASSUME PageTypes, TypeOK', NEW o \in Old, HandleStray(o)
  PROVE  PageTypes'
<1>. DEFINE c == Head(stray[o].commands)
<1>1. /\ c \in Staying /\ Tail(stray[o].commands) \in Seq(Staying)
      /\ stray' = [stray EXCEPT ![o].commands = Tail(stray[o].commands)] /\ stray[o].open
  BY StrayHead
<1>2. /\ stray' \in [Old -> [open : BOOLEAN, commands : Seq(Staying)]]
      /\ \A q \in Old : ~stray'[q].open => stray'[q].commands = <<>>
  BY <1>1 DEF PageTypes
<1>3. UNCHANGED <<page, commands>>
  BY DEF HandleStray
<1>4. events' \in Seq(Events) /\ conn' \in ConnStates
  <2>1. CASE c.type = "resumeGame"
    BY <2>1 DEF HandleStray, PageTypes, ConnStates
  <2>2. CASE c.type # "resumeGame"
    <3>1. Dispatch(c, FALSE) /\ c \in Asking /\ conn' = conn
      BY <1>1, <2>2, CommandKinds DEF HandleStray, Staying
    <3>2. QED
      BY <3>1, DispatchTold, ToldType DEF PageTypes
  <2>3. QED
    BY <2>1, <2>2
<1>5. QED
  BY <1>2, <1>3, <1>4 DEF PageTypes

LEMMA OldConnectionType ==
  ASSUME PageTypes, TypeOK', NEW o \in Old, OldConnectionCloses(o) \/ Drop(o)
  PROVE  PageTypes'
<1>1. CASE OldConnectionCloses(o)
  <2>1. /\ stray' = [stray EXCEPT ![o] = Closed]
        /\ UNCHANGED <<page, conn, commands>>
        /\ Tell(Update) \/ UNCHANGED events
    BY <1>1 DEF OldConnectionCloses
  <2>2. events' \in Seq(Events)
    BY <2>1, UpdateBatch, ToldType DEF PageTypes, Told
  <2>3. Closed \in [open : BOOLEAN, commands : Seq(Staying)] /\ Closed.commands = <<>>
    BY DEF Closed
  <2>4. /\ stray' \in [Old -> [open : BOOLEAN, commands : Seq(Staying)]]
        /\ \A q \in Old : ~stray'[q].open => stray'[q].commands = <<>>
    BY <2>1, <2>3 DEF PageTypes
  <2>5. QED
    BY <2>1, <2>2, <2>4 DEF PageTypes
<1>2. CASE Drop(o)
  <2>1. page.view \in Views
    BY DEF PageTypes, Pages
  <2>2. [Mounted(page.view) EXCEPT !.screen = "lobby"] \in Pages /\ Fits([Mounted(page.view) EXCEPT !.screen = "lobby"])
    BY <2>1, MountedType DEF Pages, Fits
  <2>3. page' \in Pages /\ Fits(page')
    BY <1>2, <2>2 DEF Drop, PageTypes
  <2>4. commands \in Seq(Staying)
    BY <1>2 DEF Drop, PageTypes
  <2>5. /\ stray' = [stray EXCEPT ![o] = [open |-> TRUE, commands |-> commands]]
        /\ commands' = <<>> /\ events' = <<>> /\ conn' = "down"
    BY <1>2 DEF Drop
  <2>6. /\ stray' \in [Old -> [open : BOOLEAN, commands : Seq(Staying)]]
        /\ \A q \in Old : ~stray'[q].open => stray'[q].commands = <<>>
    BY <2>4, <2>5 DEF PageTypes
  <2>7. commands' \in Seq(Commands) /\ commands' \in Seq(Staying) /\ events' \in Seq(Events)
    BY <2>5
  <2>8. QED
    BY <2>3, <2>5, <2>6, <2>7 DEF PageTypes, ConnStates
<1>3. QED
  BY <1>1, <1>2

LEMMA OthersType ==
  ASSUME PageTypes, TypeOK, TypeOK',
         OpponentActs \/ OpponentFlickers \/ Deliver \/ Reconnect
  PROVE  PageTypes'
<1>1. CASE OpponentActs
  <2>1. Announce(<<>>) /\ UNCHANGED <<page, conn, commands, stray>>
    BY <1>1 DEF OpponentActs
  <2>2. Told
    BY <2>1, AnnounceTold, EventNews
  <2>3. QED
    BY <2>1, <2>2, ToldType DEF PageTypes
<1>2. CASE OpponentFlickers
  BY <1>2, UpdateBatch, ToldType DEF OpponentFlickers, PageTypes, Told
<1>4. CASE Deliver
  <2>1. Head(events) \in Events /\ events' \in Seq(Events)
    BY <1>4, HeadTail DEF Deliver, PageTypes
  <2>2. /\ page' = Received(page, Head(events))
        /\ UNCHANGED <<conn, commands, stray>>
    BY <1>4 DEF Deliver
  <2>3. /\ page' \in Pages /\ Fits(page') /\ (page'.screen = "left" <=> page.screen = "left")
    BY <2>1, <2>2, ReceivedType DEF PageTypes
  <2>4. QED
    BY <2>1, <2>2, <2>3 DEF PageTypes
<1>6. CASE Reconnect
  <2>1. [type |-> "resumeGame"] \in Staying /\ [type |-> "resumeGame"] \in Commands
    BY DEF Commands, Staying
  <2>2. commands' = <<[type |-> "resumeGame"]>> /\ conn' = "resuming" /\ UNCHANGED <<page, events, stray>>
    BY <1>6 DEF Reconnect
  <2>3. commands' \in Seq(Commands) /\ commands' \in Seq(Staying)
    BY <2>1, <2>2
  <2>4. QED
    BY <2>2, <2>3 DEF PageTypes, ConnStates
<1>7. QED
  BY <1>1, <1>2, <1>4, <1>6

LEMMA OfferTypes ==
  ASSUME NEW cards \in SUBSET Cards, NEW type \in {"gift", "competition"},
         NEW grouping \in Offers(type, cards)
  PROVE  grouping \in SUBSET SUBSET Cards
BY DEF Offers

LEMMA Required ==
  ASSUME NEW a \in ActionTypes
  PROVE  /\ RequiredCount[a] \in Nat
         /\ 4 <= RequiredCount[a] => a = "competition"
         /\ a # NoAction
<1>1. a \in {"secret", "discard", "gift", "competition"}
  BY EngineAssumption
<1>2. QED
  BY <1>1 DEF RequiredCount, NoAction

LEMMA OneMoreOrLess ==
  ASSUME NEW S, IsFiniteSet(S), NEW x
  PROVE  /\ Cardinality(S) \in Nat
         /\ Cardinality(S \cup {x}) \in Nat /\ Cardinality(S \cup {x}) <= Cardinality(S) + 1
         /\ Cardinality(S \ {x}) \in Nat /\ Cardinality(S \ {x}) <= Cardinality(S)
<1>1. Cardinality(S) \in Nat
  BY FS_CardinalityType
<1>2. Cardinality(S \cup {x}) = IF x \in S THEN Cardinality(S) ELSE Cardinality(S) + 1
  BY FS_AddElement
<1>3. Cardinality(S \ {x}) = IF x \in S THEN Cardinality(S) - 1 ELSE Cardinality(S)
  BY FS_RemoveElement
<1>4. Cardinality(S \ {x}) \in Nat
  BY FS_RemoveElement, FS_CardinalityType
<1>5. QED
  BY <1>1, <1>2, <1>3, <1>4

LEMMA ClicksType ==
  ASSUME PageTypes,
         \/ HandleDrawCard \/ HandleActionSelect \/ HandleCardSelect \/ HandleCancelAction
         \/ HandleConfirmAction \/ HandleCompetitionComplete \/ HandleChoice \/ HandleCloseGameOver
  PROVE  PageTypes'
<1>0. page \in Pages /\ Fits(page) /\ page.view \in Views
  BY DEF PageTypes, Pages
<1>1. CASE HandleDrawCard
  <2>1. [type |-> "drawCard"] \in Asking
    BY DEF Asking, Commands, Moves
  <2>2. Send([type |-> "drawCard"]) /\ UNCHANGED page /\ page.screen = "game"
    BY <1>1 DEF HandleDrawCard, CanDraw, Playing
  <2>3. UNCHANGED <<conn, events, stray>>
    BY <2>2 DEF Send
  <2>4. QED
    BY <2>1, <2>2, <2>3, SendType DEF PageTypes, Asking
<1>2. CASE HandleActionSelect
  <2>1. PICK action \in ActionTypes :
          page' = Dialogs(page, [page EXCEPT !.currentAction = action, !.selectedCards = {}], FALSE)
    BY <1>2 DEF HandleActionSelect
  <2>. DEFINE new == [page EXCEPT !.currentAction = action, !.selectedCards = {}]
  <2>2. new \in Pages /\ new.screen = page.screen /\ new.selectedCards = {} /\ new.currentAction \in ActionTypes
    BY <1>0 DEF Pages
  <2>3. \A a \in ActionTypes : RequiredCount[a] \in Nat
    BY Required
  <2>4. Fits(new)
    BY <2>2, <2>3, NoneSelected DEF Fits
  <2>5. page' = Dialogs(page, new, FALSE)
    BY <2>1
  <2>. HIDE DEF new
  <2>6. ButDialogs(new, Dialogs(page, new, FALSE))
    BY <2>2, DialogsType
  <2>7. ButDialogs(new, page')
    BY <2>5, <2>6
  <2>8. page' \in Pages /\ Fits(page') /\ page'.screen = page.screen
    BY <2>2, <2>4, <2>7 DEF ButDialogs, Fits
  <2>9. UNCHANGED <<conn, commands, events, stray>>
    BY <1>2 DEF HandleActionSelect, OnScreen
  <2>10. QED
    BY <2>8, <2>9 DEF PageTypes
<1>3. CASE HandleCardSelect
  <2>1. UNCHANGED <<conn, commands, events, stray>> /\ page.currentAction # NoAction
    BY <1>3 DEF HandleCardSelect, OnScreen, Interactive
  <2>2. page.selectedCards \in SUBSET Cards /\ IsFiniteSet(page.selectedCards) /\ page.view.hand \in SUBSET Cards
    BY <1>0, CardsFinite DEF Pages, Views
  <2>3. Cardinality(page.selectedCards) <= RequiredCount[page.currentAction]
    BY <1>0, <2>1 DEF Fits
  <2>4. /\ page.currentAction \in ActionTypes /\ RequiredCount[page.currentAction] \in Nat
        /\ Cardinality(page.selectedCards) \in Nat
    BY <1>0, <2>1, <2>2, Required, FS_CardinalityType DEF Pages
  <2>5. CASE \E card \in page.selectedCards \cap page.view.hand :
               page' = [page EXCEPT !.selectedCards = @ \ {card}]
    <3>1. PICK card \in page.selectedCards : page' = [page EXCEPT !.selectedCards = @ \ {card}]
      BY <2>5
    <3>2. Cardinality(page.selectedCards \ {card}) <= Cardinality(page.selectedCards)
      BY <2>2, OneMoreOrLess
    <3>3. page' \in Pages /\ page'.currentAction = page.currentAction /\ page'.screen = page.screen
      BY <1>0, <3>1 DEF Pages
    <3>4. page'.selectedCards = page.selectedCards \ {card}
      BY <1>0, <3>1 DEF Pages
    <3>5. Cardinality(page'.selectedCards) <= RequiredCount[page.currentAction]
      <4>1. Cardinality(page'.selectedCards) \in Nat
        BY <2>2, <3>4, OneMoreOrLess
      <4>2. Cardinality(page'.selectedCards) <= Cardinality(page.selectedCards)
        BY <3>2, <3>4
      <4>3. QED
        BY <2>3, <2>4, <4>1, <4>2
    <3>6. Fits(page')
      BY <2>1, <3>3, <3>5 DEF Fits
    <3>7. QED
      BY <2>1, <3>3, <3>6 DEF PageTypes
  <2>6. CASE /\ Cardinality(page.selectedCards) < RequiredCount[page.currentAction]
             /\ \E card \in Considered(page.view.hand \ page.selectedCards) :
                  page' = [page EXCEPT !.selectedCards = @ \cup {card}]
    <3>1. PICK card \in Considered(page.view.hand \ page.selectedCards) :
                  page' = [page EXCEPT !.selectedCards = @ \cup {card}]
      BY <2>6
    <3>2. card \in Cards
      <4>1. page.view.hand \ page.selectedCards \in SUBSET Cards
        BY <2>2
      <4>2. QED
        BY <3>1, <4>1, ConsideredAssumption
    <3>3. /\ page' \in Pages /\ page'.currentAction = page.currentAction /\ page'.screen = page.screen
          /\ page'.selectedCards = page.selectedCards \cup {card}
      BY <1>0, <3>1, <3>2 DEF Pages
    <3>4. Cardinality(page.selectedCards \cup {card}) <= Cardinality(page.selectedCards) + 1
          /\ Cardinality(page.selectedCards \cup {card}) \in Nat
      BY <2>2, OneMoreOrLess
    <3>5. Cardinality(page.selectedCards) + 1 <= RequiredCount[page.currentAction]
      BY <2>4, <2>6
    <3>6. Fits(page')
      <4>1. Cardinality(page'.selectedCards) <= RequiredCount[page'.currentAction]
        BY <2>4, <3>3, <3>4, <3>5
      <4>2. QED
        BY <2>1, <3>3, <4>1 DEF Fits
    <3>7. QED
      BY <2>1, <3>3, <3>6 DEF PageTypes
  <2>7. QED
    BY <1>3, <2>5, <2>6 DEF HandleCardSelect
<1>4. CASE HandleCancelAction
  BY <1>0, <1>4, ClearedType DEF HandleCancelAction, OnScreen, PageTypes
<1>5. CASE HandleConfirmAction
  <2>1. page.screen = "game" /\ page.currentAction \in ActionTypes
    BY <1>0, <1>5 DEF HandleConfirmAction, CanConfirm, Playing, Pages
  <2>2. CASE page.currentAction = "competition"
    BY <1>0, <1>5, <2>2 DEF HandleConfirmAction, OnScreen, PageTypes, Pages, Fits
  <2>3. CASE page.currentAction # "competition"
    <3>. DEFINE c == [type |-> "playAction", action |-> page.currentAction,
                      cards |-> page.selectedCards, grouping |-> {}]
    <3>1. c \in Asking
      BY <1>0, <2>1 DEF Asking, Commands, Moves, Pages
    <3>2. page' = Cleared(page) /\ Send(c)
      BY <1>5, <2>3 DEF HandleConfirmAction
    <3>. HIDE DEF c
    <3>3. QED
      BY <1>0, <2>1, <3>1, <3>2, SendType, ClearedType DEF PageTypes, Asking, Send
  <2>4. QED
    BY <2>2, <2>3
<1>6. CASE HandleCompetitionComplete
  <2>1. PICK grouping \in Considered(GroupingOptions) :
          Send([type |-> "playAction", action |-> "competition",
                cards |-> page.selectedCards, grouping |-> grouping])
    BY <1>6 DEF HandleCompetitionComplete
  <2>2. page.screen = "game" /\ page' = Cleared([page EXCEPT !.showCompetition = FALSE])
    BY <1>6 DEF HandleCompetitionComplete
  <2>. DEFINE c == [type |-> "playAction", action |-> "competition",
                    cards |-> page.selectedCards, grouping |-> grouping]
              new == [page EXCEPT !.showCompetition = FALSE]
  <2>3. c \in Asking
    <3>1. page.selectedCards \in SUBSET Cards
      BY <1>0 DEF Pages
    <3>2. Considered({}) = {}
      BY ConsideredAssumption
    <3>3. GroupingOptions # {}
      BY <2>1, <3>2
    <3>4. Cardinality(page.selectedCards) = 4 /\ GroupingOptions = Offers("competition", page.selectedCards)
      BY <3>3 DEF GroupingOptions, GenerateGroupingOptions, RequiredCount
    <3>5. grouping \in Offers("competition", page.selectedCards)
      BY <2>1, <3>1, <3>4, ConsideredAssumption
    <3>6. grouping \in SUBSET SUBSET Cards
      BY <3>1, <3>5, OfferTypes
    <3>7. page.currentAction \in ActionTypes
      BY <1>0, <3>4, NoneSelected DEF Fits, Pages
    <3>8. page.currentAction = "competition"
      <4>1. Cardinality(page.selectedCards) <= RequiredCount[page.currentAction]
        BY <1>0, <3>7, Required DEF Fits
      <4>2. QED
        BY <3>4, <3>7, <4>1, Required
    <3>9. QED
      BY <3>1, <3>6, <3>7, <3>8 DEF Asking, Commands, Moves
  <2>4. new \in Pages /\ new.screen = page.screen
    BY <1>0 DEF Pages
  <2>5. Send(c) /\ page' = Cleared(new)
    BY <2>1, <2>2
  <2>. HIDE DEF c, new
  <2>6. QED
    BY <2>2, <2>3, <2>4, <2>5, SendType, ClearedType DEF PageTypes, Asking, Send
<1>7. CASE HandleChoice
  <2>1. PICK group \in GroupsOffered :
          Send([type |-> "resolveAction", offer |-> page.view.pending, chosen |-> group])
    BY <1>7 DEF HandleChoice
  <2>. DEFINE c == [type |-> "resolveAction", offer |-> page.view.pending, chosen |-> group]
  <2>2. page.view.pending \in PendingGames /\ group \in SUBSET Cards
    BY <1>0, <2>1 DEF Views, GroupsOffered, PendingGames
  <2>3. c \in Asking
    BY <2>2 DEF Asking, Commands, Moves
  <2>4. page' \in Pages /\ Fits(page') /\ page'.screen = page.screen /\ page.screen = "game"
    BY <1>0, <1>7 DEF HandleChoice, Pages, Fits
  <2>. HIDE DEF c
  <2>5. Send(c)
    BY <2>1 DEF c
  <2>6. QED
    BY <2>3, <2>4, <2>5, SendType DEF PageTypes, Asking, Send
<1>8. CASE HandleCloseGameOver
  <2>1. [type |-> "leaveRoom"] \in Commands
    BY DEF Commands
  <2>2. /\ page' \in Pages /\ Fits(page') /\ page'.screen = "left"
    BY <1>0, <1>8, MountedType DEF HandleCloseGameOver, Pages, Fits
  <2>3. Send([type |-> "leaveRoom"])
    BY <1>8 DEF HandleCloseGameOver
  <2>4. QED
    BY <2>1, <2>2, <2>3, SendType DEF PageTypes, Send
<1>9. QED
  BY <1>1, <1>2, <1>3, <1>4, <1>5, <1>6, <1>7, <1>8

LEMMA PageStepTypes ==
  ASSUME TypeOK, PageTypes, [PageNext]_<<vars, pageVars>>
  PROVE  TypeOK' /\ PageTypes'
<1>1. TypeOK'
  BY PageStep, StepType
<1>2. CASE UNCHANGED <<vars, pageVars>>
  BY <1>1, <1>2 DEF pageVars, PageTypes
<1>3. CASE PageNext
  BY <1>1, <1>3, ServerType, StrayType, OldConnectionType, OthersType, ClicksType DEF PageNext
<1>4. QED
  BY <1>1, <1>2, <1>3

LEMMA PageTypesHold == PageSpec => [](TypeOK /\ PageTypes)
<1>1. PageInit => TypeOK /\ PageTypes
  BY InitType, InitPageTypes DEF PageInit
<1>2. TypeOK /\ PageTypes /\ [PageNext]_<<vars, pageVars>> => (TypeOK /\ PageTypes)'
  BY PageStepTypes
<1>3. QED
  BY <1>1, <1>2, PTL DEF PageSpec

(* The game a page is played on is a game of the engine: whatever commands *)
(* are lost, late, repeated or sent on an old connection, its every step   *)
(* is a step of the reducer.                                               *)
THEOREM PagePlaysTheGame == PageSpec => Spec
<1>1. PageInit => Init
  BY DEF PageInit
<1>2. PageTypes /\ [PageNext]_<<vars, pageVars>> => [Next]_vars
  BY PageStep
<1>3. QED
  BY <1>1, <1>2, PageTypesHold, PTL DEF PageSpec, Spec

(* The page, its selection and all that is on its way are well typed: in   *)
(* particular no more cards are ever selected than the action takes.       *)
THEOREM PageTypeCorrect == PageSpec => []PageTypeOK
<1>1. TypeOK /\ PageTypes => PageTypeOK
  <2>. SUFFICES ASSUME TypeOK, PageTypes PROVE PageTypeOK
    OBVIOUS
  <2>1. /\ page.screen \in {"game", "lobby", "left"}
        /\ page.view \in Views
        /\ page.selectedCards \subseteq Cards
        /\ page.currentAction \in ActionTypes \cup {NoAction}
    BY DEF PageTypes, Pages
  <2>2. IF page.currentAction = NoAction THEN page.selectedCards = {}
        ELSE /\ page.currentAction \in ActionTypes
             /\ Cardinality(page.selectedCards) <= RequiredCount[page.currentAction]
    BY <2>1 DEF PageTypes, Fits
  <2>3. /\ \A i \in DOMAIN commands : commands[i] \in Commands
        /\ \A i \in DOMAIN events : events[i] \in Events
    BY DEF PageTypes
  <2>4. ASSUME NEW o \in Old
        PROVE  /\ \A i \in DOMAIN stray[o].commands : stray[o].commands[i] \in Commands
               /\ ~stray[o].open => stray[o].commands = <<>>
    <3>1. stray[o].commands \in Seq(Staying)
      BY DEF PageTypes
    <3>2. \A i \in DOMAIN stray[o].commands : stray[o].commands[i] \in Commands
      BY <3>1 DEF Staying
    <3>3. QED
      BY <3>2 DEF PageTypes
  <2>5. QED
    BY <2>1, <2>2, <2>3, <2>4 DEF PageTypes, PageTypeOK
<1>2. QED
  BY <1>1, PageTypesHold, PTL


-----------------------------------------------------------------------------
(* What the page offers.                                                   *)

LEMMA SameView ==
  ASSUME UNCHANGED vars
  PROVE  MyView' = MyView
BY DEF vars, MyView

\* A step of the server that sends the state, if the page is there to hear.
LEMMA BatchInv ==
  ASSUME PageTypes, PageFollows, NEW ms, Batch(ms), Tell(ms), UNCHANGED page
  PROVE  PageFollows'
<1>1. events \in Seq(Events) /\ Len(events) \in Nat /\ DOMAIN events = 1 .. Len(events)
  BY DEF PageTypes
<1>2. CASE conn' # "attached"
  <2>1. events' = events
    BY <1>2 DEF Tell
  <2>2. QED
    BY <1>2, <2>1 DEF PageFollows, ChoicesFollow, IsUpdate, IsChoice
<1>3. CASE conn' = "attached"
  <2>. DEFINE n == Len(events)
  <2>1. /\ ms \in Seq(Events) /\ Len(ms) \in Nat /\ Len(ms) > 0 /\ IsUpdate(ms[1])
        /\ \A i \in 1 .. Len(ms) : ms[i].view = MyView'
        /\ \A i \in 1 .. Len(ms) : IsChoice(ms[i]) => i = 2
    BY DEF Batch, News
  <2>2. events' = events \o ms
    BY <1>3 DEF Tell
  <2>3. /\ events' \in Seq(Events) /\ Len(events') = n + Len(ms)
        /\ DOMAIN events' = 1 .. n + Len(ms)
        /\ \A i \in 1 .. n : events'[i] = events[i]
        /\ \A i \in n + 1 .. n + Len(ms) : events'[i] = ms[i - n] /\ i - n \in 1 .. Len(ms)
    BY <1>1, <2>1, <2>2
  <2>4. \A i \in n + 1 .. n + Len(ms) : events'[i].view = MyView'
    BY <2>1, <2>3
  <2>5. n + 1 \in DOMAIN events' /\ IsUpdate(events'[n + 1])
    <3>1. n + 1 \in n + 1 .. n + Len(ms) /\ n + 1 \in 1 .. n + Len(ms) /\ (n + 1) - n = 1
      BY <1>1, <2>1
    <3>2. QED
      BY <2>1, <2>3, <3>1
  <2>6. StateComing'
    BY <2>5 DEF StateComing, IsUpdate
  <2>7. page.screen # "left" => ChoicesFollow'
    <3>1. SUFFICES ASSUME ChoicesFollow, NEW i \in DOMAIN events', IsChoice(events'[i])
                   PROVE  IF i = 1 THEN events'[i].view = page.view
                          ELSE IsUpdate(events'[i - 1]) /\ events'[i].view = events'[i - 1].view
      BY DEF ChoicesFollow, PageFollows, IsUpdate, IsChoice
    <3>2. CASE i \in 1 .. n
      <4>1. i # 1 => i - 1 \in 1 .. n
        BY <1>1, <3>2
      <4>2. QED
        BY <1>1, <2>3, <3>1, <3>2, <4>1 DEF ChoicesFollow
    <3>3. CASE i \notin 1 .. n
      <4>1. i \in n + 1 .. n + Len(ms)
        BY <1>1, <2>1, <2>3, <3>1, <3>3
      <4>2. i - n = 2
        BY <2>1, <2>3, <3>1, <4>1
      <4>3. i - 1 = n + 1 /\ i # 1 /\ n + 1 \in n + 1 .. n + Len(ms)
        BY <1>1, <2>1, <4>1, <4>2
      <4>4. QED
        BY <2>4, <2>5, <4>1, <4>3
    <3>4. QED
      BY <3>2, <3>3
  <2>8. LatestIsTrue'
    <3>1. SUFFICES ASSUME NEW i \in DOMAIN events',
                          \A j \in DOMAIN events' : j > i => ~IsUpdate(events'[j])
                   PROVE  events'[i].view = MyView'
      BY <2>6 DEF LatestIsTrue, IsUpdate
    <3>2. ~(n + 1 > i)
      BY <2>5, <3>1
    <3>3. i \in n + 1 .. n + Len(ms)
      BY <1>1, <2>1, <2>3, <3>2
    <3>4. QED
      BY <2>4, <3>3
  <2>9. QED
    BY <2>6, <2>7, <2>8 DEF PageFollows
<1>4. QED
  BY <1>2, <1>3

\* What else a page may hear that has not got the address.
LEMMA RemarksInv ==
  ASSUME PageTypes, PageFollows, conn' # "attached", NEW ms, Remarks(ms),
         events' = events \o ms, UNCHANGED page
  PROVE  PageFollows'
<1>. DEFINE n == Len(events)
<1>1. events \in Seq(Events) /\ n \in Nat /\ DOMAIN events = 1 .. n
  BY DEF PageTypes
<1>2. ms \in Seq(Events) /\ Len(ms) \in Nat /\ \A i \in 1 .. Len(ms) : ~IsChoice(ms[i])
  BY DEF Remarks, News
<1>3. /\ DOMAIN events' = 1 .. n + Len(ms)
      /\ \A i \in 1 .. n : events'[i] = events[i]
      /\ \A i \in n + 1 .. n + Len(ms) : events'[i] = ms[i - n] /\ i - n \in 1 .. Len(ms)
  BY <1>1, <1>2
<1>4. SUFFICES ASSUME ChoicesFollow PROVE ChoicesFollow'
  BY DEF PageFollows
<1>5. SUFFICES ASSUME NEW i \in DOMAIN events', IsChoice(events'[i])
               PROVE  IF i = 1 THEN events'[i].view = page.view
                      ELSE IsUpdate(events'[i - 1]) /\ events'[i].view = events'[i - 1].view
  BY DEF ChoicesFollow, IsUpdate, IsChoice
<1>6. i \in 1 .. n
  BY <1>1, <1>2, <1>3, <1>5
<1>7. i # 1 => i - 1 \in 1 .. n
  BY <1>1, <1>6
<1>8. QED
  BY <1>1, <1>3, <1>4, <1>5, <1>6, <1>7 DEF ChoicesFollow

LEMMA ToldInv ==
  ASSUME PageTypes, PageFollows, Told, UNCHANGED page
  PROVE  PageFollows'
BY BatchInv, RemarksInv DEF Told

\* A choice sent of the offer that is pending is accepted.
LEMMA ChoiceAccepted ==
  ASSUME ChoicePhase, TurnsAlternate, pending.chooser = Me, pending.type # "none",
         NEW c, c.type = "resolveAction"
  PROVE  Accepts(c)
<1>1. pending # NoPending
  BY DEF NoPending
<1>2. activePlayer = Me /\ \E p \in Players : phase = PhaseForSelect(p)
  BY <1>1 DEF ChoicePhase
<1>3. phase # "game_over"
  BY <1>2 DEF PhaseForSelect
<1>4. phase \in {PhaseForDraw(Me), PhaseForAction(Me), PhaseForSelect(Me)}
  BY <1>2, <1>3 DEF TurnsAlternate
<1>5. phase = PhaseForSelect(Me)
  BY <1>2, <1>4 DEF PhaseForDraw, PhaseForAction, PhaseForSelect
<1>6. QED
  BY <1>5 DEF Accepts

\* A command that is not accepted was not a choice still to be made.
LEMMA RejectedInv ==
  ASSUME TypeOK, PageTypes, ChoicePhase, TurnsAlternate, PageFollows, UNCHANGED <<vars, events, page, conn>>,
         commands # <<>>, commands' = Tail(commands), NEW c, c = Head(commands),
         ~Accepts(c) \/ (c.type = "resolveAction" /\ c.offer # pending)
  PROVE  PageFollows'
<1>1. MyView' = MyView
  BY SameView
<1>2. (StateComing' <=> StateComing) /\ (ChoicesFollow' <=> ChoicesFollow) /\ (LatestIsTrue' <=> LatestIsTrue)
  BY <1>1 DEF StateComing, ChoicesFollow, LatestIsTrue, IsUpdate, IsChoice
<1>3. ASSUME conn = "attached", page.screen = "game", ~StateComing,
             GiftForMe(page.view) \/ CompetitionForMe(page.view), Answered
      PROVE  Answered'
  <2>1. page.view = MyView
    BY <1>3 DEF PageFollows, LatestIsTrue
  <2>2. page.view.pending = pending
    BY <2>1 DEF MyView
  <2>3. pending.chooser = Me /\ pending.type # "none"
    BY <1>3, <2>2 DEF GiftForMe, CompetitionForMe
  <2>4. ~(c.type = "resolveAction" /\ c.offer = page.view.pending)
    BY <2>2, <2>3, ChoiceAccepted
  <2>5. PICK i \in DOMAIN commands :
          commands[i].type = "resolveAction" /\ commands[i].offer = page.view.pending
    BY <1>3 DEF Answered
  <2>6. commands \in Seq(Commands) /\ i # 1 /\ i \in 1 .. Len(commands)
    BY <2>4, <2>5, HeadTail DEF PageTypes
  <2>7. i - 1 \in DOMAIN commands' /\ i - 1 \in 1 .. Len(commands')
    BY <2>6, HeadTail
  <2>8. commands'[i - 1] = commands[i]
    BY <2>6, <2>7, HeadTail
  <2>9. QED
    BY <2>5, <2>7, <2>8 DEF Answered
<1>4. QED
  BY <1>2, <1>3 DEF PageFollows, DialogsOpen

\* Nothing changes that the page could see.
LEMMA UnseenInv ==
  ASSUME PageFollows, UNCHANGED <<vars, events, page, commands>>,
         conn' = "attached" => conn = "attached"
  PROVE  PageFollows'
<1>1. MyView' = MyView
  BY SameView
<1>2. /\ StateComing' <=> StateComing
      /\ ChoicesFollow' <=> ChoicesFollow
      /\ LatestIsTrue' <=> LatestIsTrue
      /\ DialogsOpen' <=> DialogsOpen
  BY <1>1 DEF StateComing, ChoicesFollow, LatestIsTrue, DialogsOpen, Answered, IsUpdate, IsChoice
<1>3. QED
  BY <1>2 DEF PageFollows

LEMMA CommandInv ==
  ASSUME TypeOK, TypeOK', PageTypes, ChoicePhase, TurnsAlternate, PageFollows, HandleCommand
  PROVE  PageFollows'
<1>. DEFINE c == Head(commands)
<1>1. c \in Commands /\ commands # <<>> /\ commands' = Tail(commands) /\ UNCHANGED <<page, stray>>
  BY HeadTail DEF HandleCommand, PageTypes
<1>2. CASE c.type = "resumeGame"
  <2>1. Batch(Update \o Update)
    BY UpdateBatch, UpdateRemarks, LongerBatch
  <2>2. Tell(Update \o Update)
    BY <1>2 DEF HandleCommand
  <2>3. QED
    BY <1>1, <2>1, <2>2, BatchInv
<1>3. CASE c.type = "leaveRoom"
  <2>1. conn' = "left" /\ UNCHANGED events
    BY <1>3 DEF HandleCommand
  <2>2. QED
    BY <1>1, <2>1 DEF PageFollows, ChoicesFollow, IsUpdate, IsChoice
<1>4. CASE c.type \notin {"resumeGame", "leaveRoom"}
  <2>1. Dispatch(c, TRUE) /\ UNCHANGED conn
    BY <1>4 DEF HandleCommand
  <2>2. c \in Asking
    BY <1>1, <1>4, CommandKinds
  <2>3. CASE Told
    BY <1>1, <2>3, ToldInv
  <2>4. CASE /\ UNCHANGED <<vars, events>>
             /\ ~Accepts(c) \/ (c.type = "resolveAction" /\ c.offer # pending)
    BY <1>1, <2>1, <2>4, RejectedInv
  <2>5. QED
    BY <2>1, <2>2, <2>3, <2>4, DispatchTold
<1>5. QED
  BY <1>2, <1>3, <1>4

LEMMA StrayInv ==
  ASSUME TypeOK', PageTypes, PageFollows, NEW o \in Old, HandleStray(o)
  PROVE  PageFollows'
<1>. DEFINE c == Head(stray[o].commands)
<1>1. c \in Staying /\ UNCHANGED <<page, commands>>
  BY StrayHead DEF HandleStray
<1>2. CASE c.type = "resumeGame"
  <2>1. UNCHANGED <<vars, events>> /\ conn' # "attached"
    BY <1>2 DEF HandleStray
  <2>2. QED
    BY <1>1, <2>1, UnseenInv
<1>3. CASE c.type # "resumeGame"
  <2>1. Dispatch(c, FALSE) /\ UNCHANGED conn /\ c \in Asking
    BY <1>1, <1>3, CommandKinds DEF HandleStray, Staying
  <2>2. CASE Told
    BY <1>1, <2>2, ToldInv
  <2>3. CASE UNCHANGED <<vars, events>>
    BY <1>1, <2>1, <2>3, UnseenInv
  <2>4. QED
    BY <2>1, <2>2, <2>3, DispatchTold
<1>4. QED
  BY <1>2, <1>3

-----------------------------------------------------------------------------
\* From pg to d no dialog that is due is closed.
Keeps(pg, d) ==
  /\ d.view = pg.view
  /\ d.showGift => pg.showGift \/ GiftForMe(pg.view)
  /\ GiftForMe(pg.view) /\ pg.showGift => d.showGift
  /\ CompetitionForMe(pg.view) /\ pg.showCompetition => d.showCompetition

LEMMA DialogsKeep ==
  ASSUME NEW old, NEW new \in Pages
  PROVE  Keeps(new, Dialogs(old, new, FALSE))
<1>1. ~(GiftForMe(new.view) /\ CompetitionForMe(new.view))
  BY DEF GiftForMe, CompetitionForMe
<1>2. CompetitionForMe(new.view) => new.view.pending.type = "competition"
  BY DEF CompetitionForMe
<1>3. GiftForMe(new.view) \in BOOLEAN /\ CompetitionForMe(new.view) \in BOOLEAN
  BY DEF GiftForMe, CompetitionForMe
<1>. HIDE DEF GiftForMe, CompetitionForMe
<1>4. QED
  BY <1>1, <1>2, <1>3 DEF Dialogs, Keeps, Pages

LEMMA ClearedKeeps ==
  ASSUME NEW pg \in Pages
  PROVE  Keeps(pg, Cleared(pg))
<1>. DEFINE new == [pg EXCEPT !.selectedCards = {}, !.currentAction = NoAction]
<1>1. /\ new \in Pages /\ new.view = pg.view /\ new.showGift = pg.showGift
      /\ new.showCompetition = pg.showCompetition
  BY DEF Pages
<1>2. Cleared(pg) = Dialogs(pg, new, FALSE)
  BY DEF Cleared
<1>. HIDE DEF new
<1>3. Keeps(new, Dialogs(pg, new, FALSE))
  BY <1>1, DialogsKeep
<1>4. Keeps(new, Cleared(pg))
  BY <1>2, <1>3
<1>5. QED
  BY <1>1, <1>4 DEF Keeps

\* A click that keeps the dialogs and sends at most a command.
LEMMA KeptInv ==
  ASSUME PageTypes, PageFollows, Keeps(page, page'), page'.screen = page.screen,
         UNCHANGED <<vars, conn, events, stray>>,
         UNCHANGED commands \/ \E c : Send(c)
  PROVE  PageFollows'
<1>1. MyView' = MyView /\ page'.view = page.view
  BY SameView DEF Keeps
<1>2. (StateComing' <=> StateComing) /\ (ChoicesFollow' <=> ChoicesFollow) /\ (LatestIsTrue' <=> LatestIsTrue)
  BY <1>1 DEF StateComing, ChoicesFollow, LatestIsTrue, IsUpdate, IsChoice
<1>3. conn = "attached" /\ Answered => Answered'
  <2>1. commands \in Seq(Commands)
    BY DEF PageTypes
  <2>2. conn = "attached" =>
          \A i \in DOMAIN commands : i \in DOMAIN commands' /\ commands'[i] = commands[i]
    BY <2>1 DEF Send
  <2>3. QED
    BY <1>1, <2>2 DEF Answered
<1>4. QED
  BY <1>1, <1>2, <1>3 DEF PageFollows, DialogsOpen, Keeps

LEMMA NoneForMe ==
  ASSUME NEW v, v.pending = NoPending
  PROVE  ~GiftForMe(v) /\ ~CompetitionForMe(v)
BY DEF GiftForMe, CompetitionForMe, NoPending

LEMMA UpdatedDialogs ==
  ASSUME NEW pg \in Pages, pg.showGift => GiftForMe(pg.view), pg.screen = "game",
         NEW e \in Events, IsUpdate(e), NEW d, d = Received(pg, e)
  PROVE  /\ d.view = e.view
         /\ d.showGift <=> GiftForMe(d.view)
         /\ CompetitionForMe(d.view) => d.showCompetition
<1>. DEFINE new == [pg EXCEPT !.view = e.view]
<1>1. /\ new \in Pages /\ new.view = e.view /\ new.showGift = pg.showGift
  BY DEF Pages, Events
<1>2. d = Dialogs(pg, new, TRUE)
  BY DEF Received, IsUpdate
<1>. HIDE DEF new
<1>3. CASE pg.view.pending = NoPending /\ e.view.pending = NoPending
  <2>1. ~GiftForMe(e.view) /\ ~CompetitionForMe(e.view) /\ ~GiftForMe(pg.view)
    BY <1>3, NoneForMe
  <2>2. (d.view = e.view /\ d.showGift = pg.showGift) \/ (d.view = e.view /\ d.showGift = GiftForMe(e.view))
    BY <1>1, <1>2 DEF Dialogs, Pages
  <2>3. ~d.showGift
    BY <2>1, <2>2
  <2>4. QED
    BY <2>1, <2>2, <2>3
<1>4. CASE ~(pg.view.pending = NoPending /\ e.view.pending = NoPending)
  <2>1. d = [new EXCEPT !.showGift = GiftForMe(new.view),
                        !.showCompetition =
                           IF new.view.pending.type = "competition" THEN CompetitionForMe(new.view)
                           ELSE @ /\ new.currentAction = "competition"]
    BY <1>1, <1>2, <1>4 DEF Dialogs
  <2>2. /\ d.view = e.view /\ d.showGift = GiftForMe(e.view)
        /\ e.view.pending.type = "competition" => d.showCompetition = CompetitionForMe(e.view)
    BY <1>1, <2>1 DEF Pages
  <2>3. QED
    BY <2>2 DEF CompetitionForMe
<1>5. QED
  BY <1>3, <1>4

LEMMA HintKeeps ==
  ASSUME NEW pg \in Pages, pg.screen = "game", NEW e \in Events, ~IsUpdate(e),
         IsChoice(e) => e.view = pg.view
  PROVE  Keeps(pg, Received(pg, e))
<1>1. CASE e.type \in {"actionRequired", "phaseChanged"}
  <2>1. Received(pg, e) = Cleared(pg)
    BY <1>1 DEF Received
  <2>2. QED
    BY <2>1, ClearedKeeps
<1>2. CASE e.type = "choiceRequired"
  <2>1. Received(pg, e) = [pg EXCEPT !.showGift = @ \/ GiftForMe(e.view),
                                     !.showCompetition = @ \/ CompetitionForMe(e.view)]
    BY <1>2 DEF Received
  <2>2. e.view = pg.view
    BY <1>2 DEF IsChoice
  <2>. HIDE DEF GiftForMe, CompetitionForMe
  <2>3. QED
    BY <2>1, <2>2 DEF Keeps, Pages
<1>3. CASE e.type = "gameOver"
  <2>1. Received(pg, e) = [pg EXCEPT !.showGameOver = TRUE]
    BY <1>3 DEF Received
  <2>2. QED
    BY <2>1 DEF Keeps, Pages
<1>4. QED
  BY <1>1, <1>2, <1>3 DEF Events, IsUpdate

LEMMA DeliverInv ==
  ASSUME PageTypes, PageFollows, Deliver
  PROVE  PageFollows'
<1>. DEFINE e == Head(events)
<1>1. /\ e \in Events /\ e = events[1] /\ page \in Pages
      /\ Len(events) \in Nat /\ Len(events) > 0 /\ DOMAIN events = 1 .. Len(events)
      /\ events' \in Seq(Events) /\ Len(events') = Len(events) - 1
      /\ DOMAIN events' = 1 .. Len(events) - 1
      /\ \A i \in 1 .. Len(events) - 1 : i + 1 \in 1 .. Len(events) /\ events'[i] = events[i + 1]
  BY HeadTail DEF Deliver, PageTypes
<1>2. /\ page' = Received(page, e)
      /\ UNCHANGED <<vars, conn, commands, stray>> /\ MyView' = MyView
  BY SameView DEF Deliver
<1>3. StateComing => IsUpdate(e) \/ StateComing'
  <2>1. SUFFICES ASSUME NEW i \in DOMAIN events, IsUpdate(events[i]), ~IsUpdate(e) PROVE StateComing'
    BY DEF StateComing
  <2>2. i # 1 /\ i \in 1 .. Len(events)
    BY <1>1, <2>1
  <2>3. i - 1 \in DOMAIN events' /\ i - 1 \in 1 .. Len(events) - 1
    BY <1>1, <2>2
  <2>4. events'[i - 1] = events[i]
    BY <1>1, <2>2, <2>3
  <2>5. QED
    BY <2>1, <2>3, <2>4 DEF StateComing, IsUpdate
<1>. HIDE DEF e
<1>4. CASE page.screen = "left"
  <2>1. page' = page
    BY <1>2, <1>4 DEF Received
  <2>2. QED
    BY <1>4, <2>1 DEF PageFollows
<1>5. CASE page.screen # "left"
  <2>1. page.screen \in {"game", "lobby"}
    BY <1>1, <1>5 DEF Pages
  <2>2. ChoicesFollow /\ (conn = "attached" => LatestIsTrue) /\ (page.showGift => GiftForMe(page.view))
    BY <1>5 DEF PageFollows
  <2>3. IsChoice(e) => e.view = page.view
    BY <1>1, <2>2 DEF ChoicesFollow
  <2>4. /\ page'.view = IF IsUpdate(e) THEN e.view ELSE page.view
        /\ page'.showGift => GiftForMe(page'.view)
        /\ IsUpdate(e) => /\ GiftForMe(page'.view) => page'.showGift
                          /\ CompetitionForMe(page'.view) => page'.showCompetition
        /\ ~IsUpdate(e) /\ page.screen = "game" => Keeps(page, page')
        /\ page'.screen = "game" => page.screen = "game" \/ IsUpdate(e)
    <3>1. CASE page.screen = "lobby" /\ IsUpdate(e)
      <4>1. page' = Mounted(e.view)
        BY <1>2, <3>1 DEF Received, IsUpdate
      <4>2. QED
        BY <3>1, <4>1 DEF Mounted
    <3>2. CASE page.screen = "lobby" /\ ~IsUpdate(e)
      <4>1. page' = page
        BY <1>2, <3>2 DEF Received, IsUpdate
      <4>2. QED
        BY <2>2, <2>3, <3>2, <4>1
    <3>3. CASE page.screen = "game" /\ IsUpdate(e)
      BY <1>1, <1>2, <2>2, <3>3, UpdatedDialogs
    <3>4. CASE page.screen = "game" /\ ~IsUpdate(e)
      <4>1. Keeps(page, page')
        BY <1>1, <1>2, <2>3, <3>4, HintKeeps
      <4>2. QED
        BY <2>2, <2>3, <3>4, <4>1 DEF Keeps
    <3>5. QED
      BY <2>1, <3>1, <3>2, <3>3, <3>4
  <2>5. ChoicesFollow'
    <3>1. SUFFICES ASSUME NEW i \in DOMAIN events', IsChoice(events'[i])
                   PROVE  IF i = 1 THEN events'[i].view = page'.view
                          ELSE IsUpdate(events'[i - 1]) /\ events'[i].view = events'[i - 1].view
      BY DEF ChoicesFollow, IsUpdate, IsChoice
    <3>2. /\ i \in 1 .. Len(events) - 1 /\ i + 1 \in DOMAIN events /\ i + 1 # 1 /\ (i + 1) - 1 = i
          /\ events'[i] = events[i + 1]
      BY <1>1, <3>1
    <3>3. IsUpdate(events[i]) /\ events[i + 1].view = events[i].view
      BY <2>2, <3>1, <3>2 DEF ChoicesFollow
    <3>4. CASE i = 1
      BY <1>1, <2>4, <3>2, <3>3, <3>4
    <3>5. CASE i # 1
      <4>1. i - 1 \in 1 .. Len(events) - 1 /\ (i - 1) + 1 = i
        BY <1>1, <3>2, <3>5
      <4>2. events'[i - 1] = events[i]
        BY <1>1, <4>1
      <4>3. QED
        BY <3>2, <3>3, <3>5, <4>2
    <3>6. QED
      BY <3>4, <3>5
  <2>6. conn = "attached" => LatestIsTrue'
    <3>1. SUFFICES ASSUME LatestIsTrue PROVE LatestIsTrue'
      BY <2>2
    <3>2. ASSUME NEW i \in DOMAIN events', \A j \in DOMAIN events' : j > i => ~IsUpdate(events'[j])
          PROVE  events'[i].view = MyView
      <4>1. /\ i \in 1 .. Len(events) - 1 /\ i + 1 \in DOMAIN events /\ events'[i] = events[i + 1]
        BY <1>1, <3>2
      <4>2. ASSUME NEW j \in DOMAIN events, j > i + 1 PROVE ~IsUpdate(events[j])
        <5>1. j - 1 \in 1 .. Len(events) - 1 /\ (j - 1) + 1 = j /\ j - 1 > i
          BY <1>1, <4>1, <4>2
        <5>2. events'[j - 1] = events[j] /\ j - 1 \in DOMAIN events'
          BY <1>1, <5>1
        <5>3. QED
          BY <3>2, <5>1, <5>2
      <4>3. events[i + 1].view = MyView
        BY <3>1, <4>1, <4>2 DEF LatestIsTrue
      <4>4. QED
        BY <4>1, <4>3
    <3>3. ASSUME ~StateComing' PROVE page'.view = MyView
      <4>1. ASSUME NEW j \in DOMAIN events, j > 1 PROVE ~IsUpdate(events[j])
        <5>1. j - 1 \in 1 .. Len(events) - 1 /\ (j - 1) + 1 = j
          BY <1>1, <4>1
        <5>2. events'[j - 1] = events[j] /\ j - 1 \in DOMAIN events'
          BY <1>1, <5>1
        <5>3. QED
          BY <3>3, <5>2 DEF StateComing, IsUpdate
      <4>2. 1 \in DOMAIN events
        BY <1>1
      <4>3. CASE IsUpdate(e)
        <5>1. events[1].view = MyView
          BY <3>1, <4>1, <4>2 DEF LatestIsTrue
        <5>2. QED
          BY <1>1, <2>4, <4>3, <5>1
      <4>4. CASE ~IsUpdate(e)
        <5>1. ~StateComing
          BY <1>3, <3>3, <4>4
        <5>2. page.view = MyView
          BY <3>1, <5>1 DEF LatestIsTrue
        <5>3. QED
          BY <2>4, <4>4, <5>2
      <4>5. QED
        BY <4>3, <4>4
    <3>4. QED
      BY <1>2, <3>2, <3>3 DEF LatestIsTrue, IsUpdate
  <2>7. ASSUME conn = "attached", page'.screen = "game", ~StateComing' PROVE DialogsOpen'
    <3>1. CASE IsUpdate(e)
      BY <2>4, <3>1 DEF DialogsOpen
    <3>2. CASE ~IsUpdate(e)
      <4>1. ~StateComing /\ page.screen = "game"
        BY <1>3, <2>4, <2>7, <3>2
      <4>2. DialogsOpen
        BY <2>7, <4>1 DEF PageFollows
      <4>3. Keeps(page, page')
        BY <2>4, <3>2, <4>1
      <4>4. Answered' <=> Answered
        BY <1>2, <4>3 DEF Answered, Keeps
      <4>5. QED
        BY <4>2, <4>3, <4>4 DEF DialogsOpen, Keeps
    <3>3. QED
      BY <3>1, <3>2
  <2>8. QED
    BY <1>2, <2>4, <2>5, <2>6, <2>7 DEF PageFollows
<1>6. QED
  BY <1>4, <1>5

LEMMA ServerInv ==
  ASSUME TypeOK', PageTypes, PageFollows,
         OpponentActs \/ OpponentFlickers \/ \E o \in Old : OldConnectionCloses(o)
  PROVE  PageFollows'
<1>1. Batch(Update)
  BY UpdateBatch
<1>2. CASE OpponentActs
  <2>1. Announce(<<>>) /\ UNCHANGED page
    BY <1>2 DEF OpponentActs
  <2>2. Told
    BY <2>1, AnnounceTold, EventNews
  <2>3. QED
    BY <2>1, <2>2, ToldInv
<1>3. CASE OpponentFlickers
  BY <1>1, <1>3, BatchInv DEF OpponentFlickers
<1>4. ASSUME NEW o \in Old, OldConnectionCloses(o) PROVE PageFollows'
  <2>1. UNCHANGED <<vars, page, conn, commands>> /\ (Tell(Update) \/ UNCHANGED events)
    BY <1>4 DEF OldConnectionCloses
  <2>2. CASE Tell(Update)
    BY <1>1, <2>1, <2>2, BatchInv
  <2>3. CASE UNCHANGED events
    BY <2>1, <2>3, UnseenInv
  <2>4. QED
    BY <2>1, <2>2, <2>3
<1>5. QED
  BY <1>2, <1>3, <1>4

LEMMA ConnectionInv ==
  ASSUME PageTypes, PageFollows, (\E o \in Old : Drop(o)) \/ Reconnect
  PROVE  PageFollows'
<1>1. ASSUME NEW o \in Old, Drop(o) PROVE PageFollows'
  <2>1. conn' = "down" /\ events' = <<>>
    BY <1>1 DEF Drop
  <2>2. page'.showGift => GiftForMe(page'.view)
    <3>1. CASE page' = page
      BY <3>1 DEF PageFollows
    <3>2. CASE page' = [Mounted(page.view) EXCEPT !.screen = "lobby"]
      BY <3>2 DEF Mounted
    <3>3. QED
      BY <1>1, <3>1, <3>2 DEF Drop
  <2>3. ChoicesFollow'
    BY <2>1 DEF ChoicesFollow
  <2>4. QED
    BY <2>1, <2>2, <2>3 DEF PageFollows
<1>2. CASE Reconnect
  <2>1. conn' = "resuming" /\ UNCHANGED <<page, events>>
    BY <1>2 DEF Reconnect
  <2>2. QED
    BY <2>1 DEF PageFollows, ChoicesFollow, IsUpdate, IsChoice
<1>3. QED
  BY <1>1, <1>2

LEMMA ClicksInv ==
  ASSUME PageTypes, PageFollows,
         \/ HandleDrawCard \/ HandleActionSelect \/ HandleCardSelect \/ HandleCancelAction
         \/ HandleConfirmAction \/ HandleCompetitionComplete \/ HandleChoice \/ HandleCloseGameOver
  PROVE  PageFollows'
<1>0. page \in Pages
  BY DEF PageTypes
<1>1. CASE HandleDrawCard
  <2>1. Send([type |-> "drawCard"]) /\ UNCHANGED page
    BY <1>1 DEF HandleDrawCard
  <2>2. Keeps(page, page')
    BY <2>1 DEF Keeps
  <2>3. QED
    BY <2>1, <2>2, KeptInv DEF Send
<1>2. CASE HandleActionSelect
  <2>1. PICK action \in ActionTypes :
          page' = Dialogs(page, [page EXCEPT !.currentAction = action, !.selectedCards = {}], FALSE)
    BY <1>2 DEF HandleActionSelect
  <2>. DEFINE new == [page EXCEPT !.currentAction = action, !.selectedCards = {}]
  <2>2. /\ new \in Pages /\ new.screen = page.screen /\ new.view = page.view
        /\ new.showGift = page.showGift /\ new.showCompetition = page.showCompetition
    BY <1>0 DEF Pages
  <2>3. page' = Dialogs(page, new, FALSE)
    BY <2>1
  <2>. HIDE DEF new
  <2>4. Keeps(new, Dialogs(page, new, FALSE)) /\ ButDialogs(new, Dialogs(page, new, FALSE))
    BY <2>2, DialogsKeep, DialogsType
  <2>5. Keeps(new, page') /\ ButDialogs(new, page')
    BY <2>3, <2>4
  <2>6. Keeps(page, page') /\ page'.screen = page.screen
    BY <2>2, <2>5 DEF Keeps, ButDialogs
  <2>7. QED
    BY <1>2, <2>6, KeptInv DEF HandleActionSelect, OnScreen
<1>3. CASE HandleCardSelect
  <2>1. \E S : page' = [page EXCEPT !.selectedCards = S]
    BY <1>3 DEF HandleCardSelect
  <2>2. Keeps(page, page') /\ page'.screen = page.screen
    BY <1>0, <2>1 DEF Keeps, Pages
  <2>3. QED
    BY <1>3, <2>2, KeptInv DEF HandleCardSelect, OnScreen
<1>4. CASE HandleCancelAction
  BY <1>0, <1>4, ClearedKeeps, ClearedType, KeptInv DEF HandleCancelAction, OnScreen
<1>5. CASE HandleConfirmAction
  <2>1. CASE page.currentAction = "competition"
    <3>1. page' = [page EXCEPT !.showCompetition = TRUE] /\ OnScreen
      BY <1>5, <2>1 DEF HandleConfirmAction
    <3>2. Keeps(page, page') /\ page'.screen = page.screen
      BY <1>0, <3>1 DEF Keeps, Pages
    <3>3. QED
      BY <3>1, <3>2, KeptInv DEF OnScreen
  <2>2. CASE page.currentAction # "competition"
    <3>1. page' = Cleared(page) /\ \E c : Send(c)
      BY <1>5, <2>2 DEF HandleConfirmAction
    <3>2. UNCHANGED <<vars, conn, events, stray>>
      BY <3>1 DEF Send
    <3>3. QED
      BY <1>0, <3>1, <3>2, ClearedKeeps, ClearedType, KeptInv
  <2>3. QED
    BY <2>1, <2>2
<1>6. CASE HandleCompetitionComplete
  <2>1. page' = Cleared([page EXCEPT !.showCompetition = FALSE]) /\ \E c : Send(c)
    BY <1>6 DEF HandleCompetitionComplete
  <2>2. UNCHANGED <<vars, conn, events, stray>>
    BY <2>1 DEF Send
  <2>3. ~CompetitionForMe(page.view)
    <3>1. Considered({}) = {}
      BY ConsideredAssumption
    <3>2. GroupingOptions # {}
      BY <1>6, <3>1 DEF HandleCompetitionComplete
    <3>3. QED
      BY <3>2 DEF GroupingOptions
  <2>. DEFINE new == [page EXCEPT !.showCompetition = FALSE]
  <2>4. new \in Pages /\ new.view = page.view /\ new.showGift = page.showGift /\ new.screen = page.screen
    BY <1>0 DEF Pages
  <2>5. page' = Cleared(new)
    BY <2>1
  <2>. HIDE DEF new
  <2>6. Keeps(new, page') /\ page'.screen = page.screen
    BY <2>4, <2>5, ClearedKeeps, ClearedType
  <2>7. Keeps(page, page')
    BY <2>3, <2>4, <2>6 DEF Keeps
  <2>8. QED
    BY <2>1, <2>2, <2>6, <2>7, KeptInv
<1>7. CASE HandleChoice
  <2>1. PICK group :
          Send([type |-> "resolveAction", offer |-> page.view.pending, chosen |-> group])
    BY <1>7 DEF HandleChoice
  <2>. DEFINE c == [type |-> "resolveAction", offer |-> page.view.pending, chosen |-> group]
  <2>2. /\ page'.view = page.view /\ page'.screen = page.screen
        /\ page'.showGift => page.showGift
    BY <1>0, <1>7 DEF HandleChoice, Pages
  <2>3. MyView' = MyView /\ UNCHANGED <<vars, conn, events, stray>>
    BY <2>1, SameView DEF Send
  <2>4. (StateComing' <=> StateComing) /\ (ChoicesFollow' <=> ChoicesFollow) /\ (LatestIsTrue' <=> LatestIsTrue)
    BY <2>2, <2>3 DEF StateComing, ChoicesFollow, LatestIsTrue, IsUpdate, IsChoice
  <2>5. c.type = "resolveAction" /\ c.offer = page'.view.pending
    BY <2>2
  <2>. HIDE DEF c
  <2>6. conn = "attached" => Answered'
    <3>1. SUFFICES ASSUME conn = "attached" PROVE Answered'
      OBVIOUS
    <3>2. commands' = Append(commands, c) /\ commands \in Seq(Commands)
      BY <2>1, <3>1 DEF Send, PageTypes, c
    <3>3. Len(commands) + 1 \in DOMAIN commands' /\ commands'[Len(commands) + 1] = c
      BY <3>2
    <3>4. QED
      BY <2>5, <3>3 DEF Answered
  <2>7. QED
    BY <2>2, <2>3, <2>4, <2>6 DEF PageFollows, DialogsOpen
<1>8. CASE HandleCloseGameOver
  <2>1. page' = [Mounted(page.view) EXCEPT !.screen = "left"]
    BY <1>8 DEF HandleCloseGameOver
  <2>2. page'.screen = "left" /\ page'.showGift = GiftForMe(page'.view)
    BY <2>1 DEF Mounted
  <2>3. QED
    BY <2>2 DEF PageFollows
<1>9. QED
  BY <1>1, <1>2, <1>3, <1>4, <1>5, <1>6, <1>7, <1>8

LEMMA PageStepInv ==
  ASSUME TypeOK, TypeOK', PageTypes, ChoicePhase, TurnsAlternate, PageFollows,
         [PageNext]_<<vars, pageVars>>
  PROVE  PageFollows'
<1>1. CASE UNCHANGED <<vars, pageVars>>
  <2>1. UNCHANGED <<page, conn, commands, events, stray>> /\ MyView' = MyView
    BY <1>1, SameView DEF pageVars
  <2>2. QED
    BY <1>1, <2>1, UnseenInv
<1>2. CASE PageNext
  BY <1>2, CommandInv, StrayInv, ServerInv, ConnectionInv, DeliverInv, ClicksInv DEF PageNext
<1>3. QED
  BY <1>1, <1>2

LEMMA InitPageInv == PageInit => PageFollows
<1>. SUFFICES ASSUME PageInit PROVE PageFollows
  OBVIOUS
<1>1. page = Mounted(MyView) /\ events = <<>>
  BY DEF PageInit
<1>. HIDE DEF MyView
<1>2. page.view = MyView /\ page.showGift = GiftForMe(MyView) /\ page.showCompetition = CompetitionForMe(MyView)
  BY <1>1 DEF Mounted
<1>3. QED
  BY <1>1, <1>2 DEF PageFollows, ChoicesFollow, LatestIsTrue, StateComing, DialogsOpen

LEMMA PageFollowsHold == PageSpec => []PageFollows
<1>1. PageInit => PageFollows
  BY InitPageInv
<1>2. TypeOK /\ TypeOK' /\ PageTypes /\ ChoicePhase /\ TurnsAlternate /\ PageFollows
        /\ [PageNext]_<<vars, pageVars>> => PageFollows'
  BY PageStepInv
<1>3. Spec => [](ChoicePhase /\ TurnsAlternate)
  <2>1. AccountingInv => ChoicePhase
    BY DEF AccountingInv
  <2>2. QED
    BY <2>1, AccountingHolds, TurnsDoAlternate, PTL
<1>4. QED
  BY <1>1, <1>2, <1>3, PageTypesHold, PagePlaysTheGame, PTL DEF PageSpec

(* The inductive invariant of the page: while it has the game's address,   *)
(* the latest state on its way, or if none is, the page itself, shows the  *)
(* game as it is, and a choice awaited of its player is offered unless it  *)
(* has been made.                                                          *)
THEOREM PageInvHolds == PageSpec => []PageInv
BY PageTypeCorrect, PageFollowsHold, PTL DEF PageInv

(* A page that has the game's address and has heard all there is to hear   *)
(* shows the game as it is, and offers its player the choice that is       *)
(* awaited of him, whatever was lost with any number of connections or is  *)
(* still in them, clicked twice or clicked too soon.                       *)
THEOREM PageDoesOffer == PageSpec => []PageOffers
<1>1. PageTypes /\ PageFollows => PageOffers
  <2>1. SUFFICES ASSUME PageTypes, PageFollows, Quiet
                 PROVE  /\ page.view = MyView
                        /\ page.showGift <=> GiftForMe(MyView)
                        /\ CompetitionForMe(MyView) => page.showCompetition
    BY DEF PageOffers
  <2>2. ~StateComing /\ ~Answered
    BY <2>1 DEF Quiet, StateComing, Answered
  <2>3. page.view = MyView /\ DialogsOpen /\ (page.showGift => GiftForMe(page.view))
    BY <2>1, <2>2 DEF Quiet, PageFollows, LatestIsTrue
  <2>4. QED
    BY <2>2, <2>3 DEF DialogsOpen
<1>2. QED
  BY <1>1, PageTypesHold, PageFollowsHold, PTL

(* Nor does any of it lose, double or move a card that the engine would    *)
(* not: the piles of the match add up under every page.                    *)
THEOREM PageCardsAccounted == PageSpec => []CardAccounting
BY PagePlaysTheGame, CardsAccounted, PTL

=============================================================================
