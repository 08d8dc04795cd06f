------------------------------ MODULE GamePage ------------------------------
(***************************************************************************)
(* The game page of one player (packages/client/src/pages/Game.tsx with    *)
(* its action panel and dialogs) over the engine it plays on.  The page    *)
(* shows the last state it was sent; its commands and the server's events  *)
(* (packages/server/src/socket/index.ts) travel in order.  The connection  *)
(* may break at any time, and again: the events on their way are lost, but *)
(* the server may read what is still in an old connection, or notice its   *)
(* end, long after the page has resumed its session on a new one.  If what *)
(* it reads is a resumption, the old connection gets the game's address,   *)
(* and the page hears no more of the game until it resumes once again.     *)
(*                                                                         *)
(* A dialog covers the page, so what lies under it cannot be clicked.      *)
(* Which of its cards a player picks makes little difference to the page,  *)
(* so Considered bounds the picks that are explored.                       *)
(***************************************************************************)
EXTENDS HanamikojiEngine

CONSTANTS
  Me,            \* the player whose page this is
  Old,           \* names, and bound, for the connections given up
  MaxCommands,   \* bound on the commands on their way
  MaxEvents,     \* bound on the events on their way when another is caused
  Considered(_)  \* bound: which of some possible picks are explored

ASSUME PageAssumption == Me \in Players /\ MaxCommands \in Nat \ {0} /\ MaxEvents \in Nat

\* The picks that are explored are among the possible ones.
ASSUME ConsideredAssumption ==
  \A cards \in SUBSET Cards :
    /\ Considered(cards) \subseteq cards
    /\ LET groupings == Offers("competition", cards)
       IN  Considered(groupings) \subseteq groupings

VARIABLES
  page,          \* the page: its React states, and the state it is given
  conn,          \* the page's connection, one of ConnStates
  commands,      \* what the page has sent on it, oldest first
  events,        \* what the server has sent on it, oldest first
  stray          \* stray[o]: is it open as far as the server knows, and with
                 \* which commands

pageVars == <<page, conn, commands, events, stray>>

Opponent == Other(Me)

(* The server has given an attached connection the seat, and the game its  *)
(* address; one that is astray has the seat, but not the address any more. *)
ConnStates == {"down", "resuming", "attached", "astray", "left"}

Closed == [open |-> FALSE, commands |-> <<>>]

\* createPlayerView: what the server shows Me of the engine's state.  Of the
\* opponent's hand only the number of cards is left, of the secret nothing.
MyView ==
  [phase |-> phase, activePlayer |-> activePlayer, pending |-> pending,
   hand |-> hand[Me], opponentCards |-> Cardinality(hand[Opponent]),
   used |-> used[Me]]

Views ==
  [phase : Phases, activePlayer : Players, pending : PendingGames,
   hand : SUBSET Cards, opponentCards : Nat, used : SUBSET ActionTypes]

NoAction == "none"

\* ClientToServerEvents, of those that the page sends
Commands ==
  [type : {"resumeGame", "leaveRoom", "drawCard"}]
  \cup [type : {"playAction"}, action : ActionTypes, cards : SUBSET Cards,
        grouping : SUBSET SUBSET Cards]
  \cup [type : {"resolveAction"}, offer : PendingGames, chosen : SUBSET Cards]

\* ServerToClientEvents, of those that the page listens to
Events ==
  [type : {"gameStateUpdate", "phaseChanged", "actionRequired", "choiceRequired", "gameOver"},
   view : Views]

GiftForMe(v) == v.pending.type = "gift" /\ v.pending.chooser = Me
CompetitionForMe(v) == v.pending.type = "competition" /\ v.pending.chooser = Me

\* The page as the component mounts it to show v.
Mounted(v) ==
  [screen |-> "game", view |-> v, selectedCards |-> {}, currentAction |-> NoAction,
   showGift |-> GiftForMe(v), showCompetition |-> CompetitionForMe(v),
   showGameOver |-> FALSE]

PageInit ==
  /\ Init
  /\ page = Mounted(MyView)
  /\ conn = "attached"
  /\ commands = <<>>
  /\ events = <<>>
  /\ stray = [o \in Old |-> Closed]

-----------------------------------------------------------------------------
\* Mutant: a state that comes with a choice opens no dialog.
DialogsByEventOnly(old, new, fresh) == new

(* The effect on [pendingAction, currentAction]: it runs when a new state  *)
(* brings another pendingAction object (every state does, unless there is  *)
(* none before and after) or when the action changes.                      *)
Dialogs(old, new, fresh) ==
  IF \/ old.currentAction # new.currentAction
     \/ fresh /\ ~(old.view.pending = NoPending /\ new.view.pending = NoPending)
  THEN [new EXCEPT
          !.showGift = GiftForMe(new.view),
          !.showCompetition =
             IF new.view.pending.type = "competition" THEN CompetitionForMe(new.view)
             ELSE @ /\ new.currentAction = "competition"]
  ELSE new

Cleared(pg) == Dialogs(pg, [pg EXCEPT !.selectedCards = {}, !.currentAction = NoAction], FALSE)

\* The page after one event.  Only the game's page listens to hints; a state
\* brings a lobby that has a session of its own back to the game.
Received(pg, e) ==
  CASE pg.screen = "left" -> pg
    [] pg.screen = "lobby" -> IF e.type = "gameStateUpdate" THEN Mounted(e.view) ELSE pg
    [] pg.screen = "game" ->
         CASE e.type = "gameStateUpdate" -> Dialogs(pg, [pg EXCEPT !.view = e.view], TRUE)
           [] e.type \in {"actionRequired", "phaseChanged"} -> Cleared(pg)
           [] e.type = "choiceRequired" ->
                [pg EXCEPT !.showGift = @ \/ GiftForMe(e.view),
                           !.showCompetition = @ \/ CompetitionForMe(e.view)]
           [] e.type = "gameOver" -> [pg EXCEPT !.showGameOver = TRUE]

Deliver ==
  /\ events # <<>>
  /\ events' = Tail(events)
  /\ page' = Received(page, Head(events))
  /\ UNCHANGED <<vars, conn, commands, stray>>

-----------------------------------------------------------------------------
\* A state for Me goes to the address the engine's state holds.
Tell(ms) == events' = IF conn' = "attached" THEN events \o ms ELSE events

Event(type) == [type |-> type, view |-> MyView']

\* Mutant: the state sent is the one before the command.
UpdateBefore == <<[type |-> "gameStateUpdate", view |-> MyView]>>

Update == <<Event("gameStateUpdate")>>

\* emitGameOver tells all connections in the room, whatever their address.
GameOver == IF phase' = "game_over" THEN <<Event("gameOver")>> ELSE <<>>

\* emitPostDispatchEvents, as far as they are for Me.
Hints ==
  IF phase' = "game_over" THEN GameOver
  ELSE IF pending' # NoPending
       THEN IF pending'.chooser = Me THEN <<Event("choiceRequired")>> ELSE <<>>
  ELSE IF activePlayer' = Me THEN <<Event("phaseChanged")>> ELSE <<>>

(* What the page hears of an accepted command: the state and the hints by  *)
(* the address, the end of the game by the room, the answer by being asked *)
(* on its own connection.                                                  *)
Announce(answer) ==
  events' = events \o (CASE conn' = "attached" -> Update \o Hints \o answer
                        [] conn' = "astray" -> GameOver \o answer
                        [] OTHER -> <<>>)

MayTell == Len(events) <= MaxEvents

HandsOf(type) ==
  Considered({cards \in SUBSET hand[Opponent] : Cardinality(cards) = RequiredCount[type]})

OpponentActs ==
  /\ MayTell
  /\ \/ Draw(Opponent)
     \/ /\ phase = PhaseForAction(Opponent)
        /\ \E type \in ActionTypes \ used[Opponent] : \E cards \in HandsOf(type) :
             \/ type = "secret" /\ PlaySecret(Opponent, cards)
             \/ type = "discard" /\ PlayDiscard(Opponent, cards)
             \/ /\ PlayOffer(Opponent, type, cards)
                /\ pending'.groups \in Considered(Offers(type, cards))
     \/ /\ phase = PhaseForSelect(Opponent)
        /\ \E chosen \in Considered(pending.groups) : Resolve(Opponent, chosen)
  /\ UNCHANGED <<page, conn, commands, stray>>
  /\ Announce(<<>>)

\* The opponent's connection comes or goes: the state is sent once more.
OpponentFlickers ==
  /\ MayTell
  /\ conn = "attached"
  /\ UNCHANGED <<vars, page, conn, commands, stray>>
  /\ Tell(Update)

-----------------------------------------------------------------------------
\* What the server makes of a command c of Me.
Accepts(c) ==
  CASE c.type = "drawCard" -> activePlayer = Me /\ phase = PhaseForDraw(Me) /\ deck # <<>>
    [] c.type = "playAction" -> MayPlay(Me, c.action, c.cards)
    [] c.type = "resolveAction" -> pending.chooser = Me /\ phase = PhaseForSelect(Me)

\* The index that chose a group of one offer means some group of another.
Performs(c) ==
  CASE c.type = "drawCard" -> Draw(Me)
    [] c.type = "playAction" ->
         \/ c.action = "secret" /\ PlaySecret(Me, c.cards)
         \/ c.action = "discard" /\ PlayDiscard(Me, c.cards)
         \/ PlayOffer(Me, c.action, c.cards) /\ (c.action = "competition" => pending'.groups = c.grouping)
    [] c.type = "resolveAction" ->
         \E chosen \in pending.groups : (c.offer = pending => chosen = c.chosen) /\ Resolve(Me, chosen)

\* dispatchForClient; only the connection that drew is asked for an action.
Dispatch(c, asker) ==
  \/ /\ Accepts(c)
     /\ Performs(c)
     /\ Announce(IF asker /\ c.type = "drawCard" THEN <<Event("actionRequired")>> ELSE <<>>)
  \/ /\ ~Accepts(c) \/ (c.type = "resolveAction" /\ c.offer # pending)
     /\ UNCHANGED <<vars, events>>

HandleCommand ==
  /\ commands # <<>>
  /\ commands' = Tail(commands)
  /\ MayTell
  /\ LET c == Head(commands)
     IN  CASE c.type = "resumeGame" ->
                /\ conn' = "attached"
                /\ UNCHANGED vars
                /\ Tell(Update \o Update)
           [] c.type = "leaveRoom" ->
                /\ conn' = "left"
                /\ UNCHANGED <<vars, events>>
           [] OTHER -> UNCHANGED conn /\ Dispatch(c, TRUE)
  /\ UNCHANGED <<page, stray>>

(* An old connection that has resumed has the seat still; one that resumes *)
(* only now takes the address away.                                        *)
HandleStray(o) ==
  /\ stray[o].commands # <<>>
  /\ stray' = [stray EXCEPT ![o].commands = Tail(@)]
  /\ MayTell
  /\ LET c == Head(stray[o].commands)
     IN  IF c.type = "resumeGame"
         THEN /\ conn' = IF conn = "attached" THEN "astray" ELSE conn
              /\ UNCHANGED <<vars, events>>
         ELSE UNCHANGED conn /\ Dispatch(c, FALSE)
  /\ UNCHANGED <<page, commands>>

HasSeat(o) == stray[o].commands = <<>> \/ Head(stray[o].commands).type # "resumeGame"

(* The server notices the end of an old connection; what was in it is      *)
(* lost.  If it had the seat, its player counts as gone, wherever he is.   *)
OldConnectionCloses(o) ==
  /\ stray[o].open
  /\ stray' = [stray EXCEPT ![o] = Closed]
  /\ MayTell
  /\ UNCHANGED <<vars, page, conn, commands>>
  /\ IF HasSeat(o) THEN Tell(Update) ELSE UNCHANGED events

-----------------------------------------------------------------------------
\* The page loses its connection, perhaps because it is loaded anew.
Drop(o) ==
  /\ conn \in {"resuming", "attached", "astray"}
  /\ page.screen # "left"
  /\ ~stray[o].open
  /\ conn' = "down"
  /\ stray' = [stray EXCEPT ![o] = [open |-> TRUE, commands |-> commands]]
  /\ commands' = <<>>
  /\ events' = <<>>
  /\ page' \in {page, [Mounted(page.view) EXCEPT !.screen = "lobby"]}
  /\ UNCHANGED vars

\* socket.io is back: first it sends what was emitted meanwhile, which the
\* server ignores for want of a seat, then SocketProvider resumes the session.
Reconnect ==
  /\ conn = "down"
  /\ conn' = "resuming"
  /\ commands' = <<[type |-> "resumeGame"]>>
  /\ UNCHANGED <<vars, page, events, stray>>

Send(c) ==
  /\ Len(commands) < MaxCommands
  /\ commands' = IF conn = "down" THEN commands ELSE Append(commands, c)
  /\ UNCHANGED <<vars, conn, events, stray>>

\* showWaiting: the opponent draws or chooses.
Waiting(pg) ==
  pg.view.phase \in {PhaseForDraw(Opponent), PhaseForSelect(Opponent)}

\* A dialog covers the page.
Covered == page.showGift \/ page.showCompetition \/ page.showGameOver \/ Waiting(page)

Playing == page.screen = "game" /\ ~Covered

\* ActionPanel: what its buttons ask for.
CanDraw == Playing /\ page.view.phase = PhaseForDraw(Me)

CanSelect(action) ==
  Playing /\ page.view.phase = PhaseForAction(Me) /\ action \notin page.view.used

\* The right number of cards, whatever the phase
CanConfirm ==
  /\ Playing
  /\ page.currentAction # NoAction
  /\ Cardinality(page.selectedCards) = RequiredCount[page.currentAction]

\* PlayerHand
Interactive ==
  Playing /\ page.view.phase = PhaseForAction(Me) /\ page.currentAction # NoAction

\* GiftModal and CompetitionModal: the groups its player can choose from.
GroupsOffered ==
  IF \/ page.showGift /\ page.view.pending.type = "gift"
     \/ page.showCompetition /\ CompetitionForMe(page.view)
  THEN page.view.pending.groups ELSE {}

\* Four cards make three pairings, any other number none.
GenerateGroupingOptions(cards) ==
  IF Cardinality(cards) = RequiredCount["competition"]
  THEN Offers("competition", cards) ELSE {}

\* What CompetitionModal offers to whom it takes for the initiator
GroupingOptions ==
  IF page.showCompetition /\ ~CompetitionForMe(page.view)
  THEN GenerateGroupingOptions(page.selectedCards) ELSE {}

OnScreen == UNCHANGED <<vars, conn, commands, events, stray>>

HandleDrawCard ==
  /\ CanDraw
  /\ Send([type |-> "drawCard"])
  /\ UNCHANGED page

HandleActionSelect ==
  /\ \E action \in ActionTypes :
       /\ CanSelect(action)
       /\ page' = Dialogs(page, [page EXCEPT !.currentAction = action, !.selectedCards = {}], FALSE)
  /\ OnScreen

HandleCardSelect ==
  /\ Interactive
  /\ \/ \E card \in page.selectedCards \cap page.view.hand :
          page' = [page EXCEPT !.selectedCards = @ \ {card}]
     \/ /\ Cardinality(page.selectedCards) < RequiredCount[page.currentAction]
        /\ \E card \in Considered(page.view.hand \ page.selectedCards) :
             page' = [page EXCEPT !.selectedCards = @ \cup {card}]
  /\ OnScreen

HandleCancelAction ==
  /\ Playing
  /\ page.currentAction # NoAction
  /\ page' = Cleared(page)
  /\ OnScreen

HandleConfirmAction ==
  /\ CanConfirm
  /\ IF page.currentAction = "competition"
     THEN page' = [page EXCEPT !.showCompetition = TRUE] /\ OnScreen
     ELSE /\ page' = Cleared(page)
          /\ Send([type |-> "playAction", action |-> page.currentAction,
                   cards |-> page.selectedCards, grouping |-> {}])

HandleCompetitionComplete ==
  /\ page.screen = "game"
  /\ \E grouping \in Considered(GroupingOptions) :
       Send([type |-> "playAction", action |-> "competition",
             cards |-> page.selectedCards, grouping |-> grouping])
  /\ page' = Cleared([page EXCEPT !.showCompetition = FALSE])

\* handleGiftComplete and handleCompetitionSelect
HandleChoice ==
  /\ page.screen = "game"
  /\ \E group \in GroupsOffered :
       Send([type |-> "resolveAction", offer |-> page.view.pending, chosen |-> group])
  /\ page' = IF page.view.pending.type = "gift" THEN [page EXCEPT !.showGift = FALSE]
             ELSE [page EXCEPT !.showCompetition = FALSE]

HandleCloseGameOver ==
  /\ page.screen = "game"
  /\ page.showGameOver
  /\ page' = [Mounted(page.view) EXCEPT !.screen = "left"]
  /\ Send([type |-> "leaveRoom"])

-----------------------------------------------------------------------------
PageNext ==
  \/ OpponentActs
  \/ OpponentFlickers
  \/ HandleCommand
  \/ \E o \in Old : HandleStray(o) \/ OldConnectionCloses(o) \/ Drop(o)
  \/ Deliver
  \/ Reconnect
  \/ HandleDrawCard
  \/ HandleActionSelect
  \/ HandleCardSelect
  \/ HandleCancelAction
  \/ HandleConfirmAction
  \/ HandleCompetitionComplete
  \/ HandleChoice
  \/ HandleCloseGameOver

PageSpec == PageInit /\ [][PageNext]_<<vars, pageVars>>

-----------------------------------------------------------------------------
\* The page has the game's address, and nothing is on its way to or from it.
Quiet ==
  /\ conn = "attached"
  /\ commands = <<>> /\ events = <<>>
  /\ page.screen = "game"

\* The page holds no more cards selected than its action takes.
PageTypeOK ==
  /\ TypeOK
  /\ page.screen \in {"game", "lobby", "left"}
  /\ page.view \in Views
  /\ page.selectedCards \subseteq Cards
  /\ IF page.currentAction = NoAction THEN page.selectedCards = {}
     ELSE /\ page.currentAction \in ActionTypes
          /\ Cardinality(page.selectedCards) <= RequiredCount[page.currentAction]
  /\ conn \in ConnStates
  /\ \A i \in DOMAIN commands : commands[i] \in Commands
  /\ \A i \in DOMAIN events : events[i] \in Events
  /\ \A o \in Old :
       /\ \A i \in DOMAIN stray[o].commands : stray[o].commands[i] \in Commands
       /\ ~stray[o].open => stray[o].commands = <<>>

(* Whatever was lost with other connections or is still in them, clicked   *)
(* twice or clicked too soon: a page that has the game's address and has   *)
(* heard all there is to hear shows the game as it is, and a choice that   *)
(* is awaited of its player is offered to him.                             *)
PageOffers ==
  Quiet =>
    /\ page.view = MyView
    /\ page.showGift <=> GiftForMe(MyView)
    /\ CompetitionForMe(MyView) => page.showCompetition

-----------------------------------------------------------------------------
(* The inductive invariant behind PageOffers.                              *)

IsUpdate(e) == e.type = "gameStateUpdate"

StateComing == \E i \in DOMAIN events : IsUpdate(events[i])

IsChoice(e) == e.type = "choiceRequired"

\* A choice is asked for right after the state that has it.
ChoicesFollow ==
  \A i \in DOMAIN events :
    IsChoice(events[i]) =>
      IF i = 1 THEN events[i].view = page.view
      ELSE IsUpdate(events[i - 1]) /\ events[i].view = events[i - 1].view

\* The last state sent, and all after it, show the game as it is.
LatestIsTrue ==
  /\ ~StateComing => page.view = MyView
  /\ \A i \in DOMAIN events :
       (\A j \in DOMAIN events : j > i => ~IsUpdate(events[j])) => events[i].view = MyView

\* The page's player has chosen already, and the server has yet to hear it.
Answered ==
  \E i \in DOMAIN commands :
    commands[i].type = "resolveAction" /\ commands[i].offer = page.view.pending

DialogsOpen ==
  /\ GiftForMe(page.view) => page.showGift \/ Answered
  /\ CompetitionForMe(page.view) => page.showCompetition \/ Answered

PageFollows ==
  /\ page.showGift => GiftForMe(page.view)
  /\ page.screen # "left" => ChoicesFollow
  /\ conn = "attached" /\ page.screen # "left" => LatestIsTrue
  /\ conn = "attached" /\ page.screen = "game" /\ ~StateComing => DialogsOpen

(* A page may be behind, and have any dialog open or shut; but a state     *)
(* that reaches it puts it right, and while it has the game's address the  *)
(* latest one, with the hints that come after it, makes it show the game   *)
(* as it is.                                                               *)
PageInv == PageTypeOK /\ PageFollows
=============================================================================
