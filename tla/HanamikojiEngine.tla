-------------------------- MODULE HanamikojiEngine --------------------------
(***************************************************************************)
(* The authoritative game engine: the pure reducer of                      *)
(* packages/engine/src/game, one action per command it accepts.  A command *)
(* the reducer throws on leaves its state alone, so only accepted commands *)
(* are steps here.                                                         *)
(*                                                                         *)
(* Cards lie in piles, modelled as sets (only the deck's order matters to  *)
(* the game); a placed card lies at the geisha named by its own CharmOf,   *)
(* as getCharmFromCardId says, so geishas[g].items[p] is Items(g, p).      *)
(* The 32-bit generator behind createRoundSetup is a choice from Shuffles. *)
(* SET_CONNECTED touches only the connection flags: they belong to the     *)
(* transports that send it and are modelled there.                         *)
(***************************************************************************)
EXTENDS HanamikojiRules, Sequences

CONSTANTS
  Cards,         \* the item cards of a round, hidden card included
  CharmOf,       \* the geisha each card courts
  CardCount,     \* how many cards there are
  HandSize,      \* INITIAL_HAND_SIZE
  ActionTypes,   \* the actions each player performs once per round
  MaxRounds,     \* MAX_ROUNDS
  Shuffles       \* the orders the seeded shuffle can put the cards in

RequiredCount == [secret |-> 1, discard |-> 2, gift |-> 3, competition |-> 4]

\* Sums over a set of action types, written out: there are only four.
Weigh(A, w) ==
    (IF "secret" \in A THEN w["secret"] ELSE 0)
  + (IF "discard" \in A THEN w["discard"] ELSE 0)
  + (IF "gift" \in A THEN w["gift"] ELSE 0)
  + (IF "competition" \in A THEN w["competition"] ELSE 0)

CardsFor(A) == Weigh(A, RequiredCount)

\* countRemainingActions: how many actions are left in A
ActionsIn(A) == Weigh(A, [secret |-> 1, discard |-> 1, gift |-> 1, competition |-> 1])

ASSUME EngineAssumption ==
  /\ Cards # {}
  /\ CharmOf \in [Cards -> Geishas]
  /\ ActionTypes \subseteq {"secret", "discard", "gift", "competition"}
  /\ MaxRounds \in Nat \ {0}
  /\ CardCount \in Nat /\ HandSize \in Nat
  /\ Shuffles # {}
  /\ Shuffles \subseteq [1..CardCount -> Cards]
  /\ \A s \in Shuffles :
        /\ \A i, j \in 1..CardCount : s[i] = s[j] => i = j
        /\ \A c \in Cards : \E i \in 1..CardCount : s[i] = c

(* The deal is made to measure: a hand of six and four draws pay for the   *)
(* 1 + 2 + 3 + 4 cards of the four actions, and the 21 cards are two hands,*)
(* eight draws and the hidden card.                                        *)
ASSUME DealAssumption ==
  /\ ActionTypes # {}
  /\ HandSize = CardsFor(ActionTypes) - ActionsIn(ActionTypes)
  /\ CardCount = 2 * HandSize + 2 * ActionsIn(ActionTypes) + 1

VARIABLES
  deck,          \* the cards left to draw; the top is the last one
  hand,          \* hand[p]
  secret,        \* secret[p]: the secret card, {} for null
  used,          \* used[p]: the action types p has marked used this round
  placed,        \* placed[p]: the cards on p's side of the geishas
  discardPile,
  pending,       \* the gift or competition waiting for a choice
  owner,         \* owner[g]
  score,         \* score[p]: the stored geishaCount and totalCharm
  round,
  phase,
  activePlayer,
  winner,
  isDraw

vars == <<deck, hand, secret, used, placed, discardPile, pending,
          owner, score, round, phase, activePlayer, winner, isDraw>>

-----------------------------------------------------------------------------
PhaseForDraw(p)   == IF p = "p1" THEN "p1_draw" ELSE "p2_draw"
PhaseForAction(p) == IF p = "p1" THEN "p1_action" ELSE "p2_action"
PhaseForSelect(p) == IF p = "p1" THEN "p1_select" ELSE "p2_select"

Phases == {"p1_draw", "p2_draw", "p1_action", "p2_action",
           "p1_select", "p2_select", "game_over"}

NoPending == [type |-> "none", initiator |-> Nobody, chooser |-> Nobody, groups |-> {}]

PendingGames ==
  [type : {"none", "gift", "competition"},
   initiator : Players \cup {Nobody},
   chooser : Players \cup {Nobody},
   groups : SUBSET SUBSET Cards]

TypeOK ==
  /\ deck \in Seq(Cards)
  /\ hand \in [Players -> SUBSET Cards]
  /\ secret \in [Players -> SUBSET Cards]
  /\ used \in [Players -> SUBSET ActionTypes]
  /\ placed \in [Players -> SUBSET Cards]
  /\ discardPile \subseteq Cards
  /\ pending \in PendingGames
  /\ owner \in [Geishas -> Players \cup {Nobody}]
  /\ round \in 1..MaxRounds
  /\ phase \in Phases
  /\ activePlayer \in Players
  /\ winner \in Players \cup {Nobody}
  /\ isDraw \in BOOLEAN

-----------------------------------------------------------------------------
(* dealRoundCards: the last card of the shuffle is hidden, the top of the  *)
(* rest is dealt alternately, p1 first, and what lies below is the deck.   *)
DealtHand(s, p) ==
  LET top == IF p = "p1" THEN CardCount - 1 ELSE CardCount - 2
  IN  {s[top - 2 * i] : i \in 0 .. HandSize - 1}

\* Mutant: the hidden card is dealt into the deck.
DealtDeckUnhidden(s) == [i \in 1 .. CardCount - 2 * HandSize |-> s[i]]

DealtDeck(s) == [i \in 1 .. CardCount - 1 - 2 * HandSize |-> s[i]]

FirstPlayer(r) == IF r % 2 = 1 THEN "p1" ELSE "p2"

Init ==
  /\ \E s \in Shuffles :
        /\ deck = DealtDeck(s)
        /\ hand = [p \in Players |-> DealtHand(s, p)]
  /\ secret = [p \in Players |-> {}]
  /\ used = [p \in Players |-> {}]
  /\ placed = [p \in Players |-> {}]
  /\ discardPile = {}
  /\ pending = NoPending
  /\ owner = [g \in Geishas |-> Nobody]
  /\ score = [p \in Players |-> [geishaCount |-> 0, totalCharm |-> 0]]
  /\ round = 1
  /\ activePlayer = "p1"
  /\ phase = PhaseForDraw("p1")
  /\ winner = Nobody
  /\ isDraw = FALSE

-----------------------------------------------------------------------------
(* Every command that completes an action describes the table it leaves,   *)
(* t (hands, secrets, used actions, placed and discarded cards), and hands *)
(* over to advanceAfterCompletedAction.                                    *)
Table == [hand |-> hand, secret |-> secret, used |-> used,
          placed |-> placed, discardPile |-> discardPile]

ShouldEndRound(t) == \A p \in Players : ActionsIn(ActionTypes \ t.used[p]) = 0

\* The secrets are revealed: each joins its owner's side of the geishas.
Revealed(t) == [p \in Players |-> t.placed[p] \cup t.secret[p]]

Items(side, g, p) == {c \in side[p] : CharmOf[c] = g}

RoundMajority(side) ==
  [g \in Geishas |-> MajorityAt([p \in Players |-> Cardinality(Items(side, g, p))])]

\* The table becomes t.
Lay(t) ==
  /\ hand' = t.hand
  /\ secret' = t.secret
  /\ used' = t.used
  /\ placed' = t.placed
  /\ discardPile' = t.discardPile

NextTurn(t, next) ==
  /\ Lay(t)
  /\ activePlayer' = next
  /\ phase' = PhaseForDraw(next)
  /\ UNCHANGED <<deck, owner, score, round, winner, isDraw>>

\* Mutant: the scores are counted before the geishas change hands.
ScoreBeforeOwners(t) ==
  /\ owner' = NewOwners(owner, RoundMajority(Revealed(t)))
  /\ score' = Scores(owner)

\* applyScoring of the table t
Score(t) ==
  /\ owner' = NewOwners(owner, RoundMajority(Revealed(t)))
  /\ score' = Scores(owner')

\* The scored table stays as it is for the players to look at.
EndMatch(t, w) ==
  /\ winner' = w
  /\ isDraw' = (w = Nobody)
  /\ phase' = "game_over"
  /\ Lay([t EXCEPT !.secret = [p \in Players |-> {}], !.placed = Revealed(t)])
  /\ UNCHANGED <<deck, round, activePlayer>>

\* resetPlayerForRound and clearGeishaItemsForNextRound, of a deal
FreshTable(s) ==
  [hand |-> [p \in Players |-> DealtHand(s, p)],
   secret |-> [p \in Players |-> {}],
   used |-> [p \in Players |-> {}],
   placed |-> [p \in Players |-> {}],
   discardPile |-> {}]

\* applyRoundSetupPayload
StartNextRound ==
  /\ \E s \in Shuffles : deck' = DealtDeck(s) /\ Lay(FreshTable(s))
  /\ round' = round + 1
  /\ activePlayer' = FirstPlayer(round + 1)
  /\ phase' = PhaseForDraw(FirstPlayer(round + 1))
  /\ UNCHANGED <<winner, isDraw>>

\* Mutant: one round too many.
LastRoundOffByOne == round > MaxRounds

LastRound == round >= MaxRounds

\* Mutant: victory is checked on the scores of the round before.
FinishRoundStaleScore(t) ==
  /\ Score(t)
  /\ LET w == VictoryOf(score)
     IN  IF w # Nobody \/ LastRound THEN EndMatch(t, w) ELSE StartNextRound

FinishRound(t) ==
  /\ Score(t)
  /\ LET w == VictoryOf(score')
     IN  IF w # Nobody \/ LastRound THEN EndMatch(t, w) ELSE StartNextRound

\* Mutant: the resolved choice is not cleared.
AdvanceKeepingPending(t, next) ==
  /\ pending' = pending
  /\ IF ShouldEndRound(t) THEN FinishRound(t) ELSE NextTurn(t, next)

AdvanceAfterCompletedAction(t, next) ==
  /\ pending' = NoPending
  /\ IF ShouldEndRound(t) THEN FinishRound(t) ELSE NextTurn(t, next)

-----------------------------------------------------------------------------
Draw(p) ==
  /\ activePlayer = p
  /\ phase = PhaseForDraw(p)
  /\ Len(deck) > 0
  /\ deck' = SubSeq(deck, 1, Len(deck) - 1)
  /\ hand' = [hand EXCEPT ![p] = @ \cup {deck[Len(deck)]}]
  /\ phase' = PhaseForAction(p)
  /\ UNCHANGED <<secret, used, placed, discardPile, pending,
                 owner, score, round, activePlayer, winner, isDraw>>

\* The checks reducePlayAction makes whatever the action type.
MayPlay(p, type, cards) ==
  /\ activePlayer = p
  /\ phase = PhaseForAction(p)
  /\ type \in ActionTypes \ used[p]
  /\ cards \subseteq hand[p]
  /\ Cardinality(cards) = RequiredCount[type]

\* Mutant: the cards laid down stay in the hand too.
LaidDownStillHeld(p, type, cards) == [Table EXCEPT !.used[p] = @ \cup {type}]

\* Mutant: the action is not marked used.
LaidDownUnmarked(p, type, cards) == [Table EXCEPT !.hand[p] = @ \ cards]

\* The table once p has marked the action used and laid the cards down.
LaidDown(p, type, cards) ==
  [Table EXCEPT !.used[p] = @ \cup {type}, !.hand[p] = @ \ cards]

\* Mutant: the turn does not pass.
PlaySecretKeepsTurn(p, cards) ==
  /\ MayPlay(p, "secret", cards)
  /\ AdvanceAfterCompletedAction(
       [LaidDown(p, "secret", cards) EXCEPT !.secret[p] = cards], p)

PlaySecret(p, cards) ==
  /\ MayPlay(p, "secret", cards)
  /\ AdvanceAfterCompletedAction(
       [LaidDown(p, "secret", cards) EXCEPT !.secret[p] = cards], Other(p))

\* Mutant: the discard pile is replaced, not extended.
PlayDiscardReplaces(p, cards) ==
  /\ MayPlay(p, "discard", cards)
  /\ AdvanceAfterCompletedAction(
       [LaidDown(p, "discard", cards) EXCEPT !.discardPile = cards], Other(p))

PlayDiscard(p, cards) ==
  /\ MayPlay(p, "discard", cards)
  /\ AdvanceAfterCompletedAction(
       [LaidDown(p, "discard", cards) EXCEPT !.discardPile = @ \cup cards], Other(p))

\* A gift offers its cards one by one, a competition in two pairs.
Offers(type, cards) ==
  IF type = "gift"
  THEN {{{c} : c \in cards}}
  ELSE {{pair, cards \ pair} : pair \in {s \in SUBSET cards : Cardinality(s) = 2}}

PlayOffer(p, type, cards) ==
  /\ type \in {"gift", "competition"}
  /\ MayPlay(p, type, cards)
  /\ \E groups \in Offers(type, cards) :
        pending' = [type |-> type, initiator |-> p, chooser |-> Other(p), groups |-> groups]
  /\ used' = LaidDown(p, type, cards).used
  /\ hand' = LaidDown(p, type, cards).hand
  /\ activePlayer' = Other(p)
  /\ phase' = PhaseForSelect(Other(p))
  /\ UNCHANGED <<deck, secret, placed, discardPile, owner, score, round, winner, isDraw>>

(* applyGift and applyCompetition: the chooser gets the chosen group, the  *)
(* initiator the rest.                                                     *)
Divided(p, chosen) ==
  [Table EXCEPT !.placed[p] = @ \cup chosen,
                !.placed[pending.initiator] = @ \cup UNION (pending.groups \ {chosen})]

\* The chooser has the next turn.
Resolve(p, chosen) ==
  /\ pending # NoPending
  /\ activePlayer = p
  /\ phase = PhaseForSelect(p)
  /\ pending.chooser = p
  /\ chosen \in pending.groups
  /\ AdvanceAfterCompletedAction(Divided(p, chosen), p)

Next ==
  \E p \in Players :
    \/ Draw(p)
    \/ \E cards \in SUBSET hand[p] :
          \/ PlaySecret(p, cards)
          \/ PlayDiscard(p, cards)
          \/ \E type \in {"gift", "competition"} : PlayOffer(p, type, cards)
    \/ \E chosen \in pending.groups : Resolve(p, chosen)

Spec == Init /\ [][Next]_vars

-----------------------------------------------------------------------------
\* Cards still to be drawn by p this round: one for each unused action,
\* except the one p has just drawn for.
DrawsLeft(p) ==
  ActionsIn(ActionTypes \ used[p]) - (IF phase = PhaseForAction(p) THEN 1 ELSE 0)

DeckCards(d) == {d[i] : i \in 1..Len(d)}

\* The piles countCardsDetailed adds up, the players' sides kept apart: of a
\* deck d, a table t and a pending choice.
PilesOf(d, t, choice) ==
  [deck |-> DeckCards(d),
   p1_hand |-> t.hand["p1"], p2_hand |-> t.hand["p2"],
   p1_secretCard |-> t.secret["p1"], p2_secretCard |-> t.secret["p2"],
   p1_items |-> t.placed["p1"], p2_items |-> t.placed["p2"],
   discardPile |-> t.discardPile,
   pendingAction |-> UNION choice.groups]

Accounted(piles, hidden) ==
  /\ \A m, n \in DOMAIN piles : m # n => piles[m] \cap piles[n] = {}
  /\ UNION {piles[m] : m \in DOMAIN piles} = Cards \ {hidden}

(* No card is ever in two places and none is lost: at every moment the     *)
(* piles hold all the cards but the one hidden at the deal (what           *)
(* assertCardAccounting of cardAccounting.ts counts).                      *)
CardAccounting ==
  /\ \A i, j \in 1..Len(deck) : deck[i] = deck[j] => i = j
  /\ \A g, h \in pending.groups : g # h => g \cap h = {}
  /\ \E hidden \in Cards : Accounted(PilesOf(deck, Table, pending), hidden)

(* The deal pays exactly for the round: whatever the order of the actions, *)
(* the deck holds the draws both players still have coming, and a player's *)
(* hand and draws to come cover precisely the actions still unused.  So    *)
(* nobody meets an empty deck, and no action is unaffordable in its turn.  *)
HandsCoverActions ==
  /\ phase # "game_over" =>
       /\ Len(deck) = DrawsLeft("p1") + DrawsLeft("p2")
       /\ \A p \in Players :
            Cardinality(hand[p]) = CardsFor(ActionTypes \ used[p]) - DrawsLeft(p)
  /\ \A p \in Players : phase = PhaseForAction(p) =>
       \A type \in ActionTypes \ used[p] : RequiredCount[type] <= Cardinality(hand[p])

(* The turns alternate through gifts and competitions alike: with p on the *)
(* move, both players have marked equally many actions if p opened the     *)
(* round, and the opponent one more if not; and whoever is to draw or act  *)
(* still has an action to use.                                             *)
TurnsAlternate ==
  phase # "game_over" =>
    LET p == activePlayer
    IN  /\ phase \in {PhaseForDraw(p), PhaseForAction(p), PhaseForSelect(p)}
        /\ ActionsIn(used[Other(p)]) =
             ActionsIn(used[p]) + IF FirstPlayer(round) = p THEN 0 ELSE 1
        /\ phase # PhaseForSelect(p) => ActionTypes \ used[p] # {}

(* A choice is awaited exactly in the select phases, by the player on the  *)
(* move, of the opponent's offer.                                          *)
ChoicePhase ==
  /\ pending # NoPending <=> phase \in {PhaseForSelect(p) : p \in Players}
  /\ pending # NoPending =>
       /\ pending.chooser = activePlayer
       /\ pending.initiator = Other(activePlayer)

(* A secret card lies only where the secret action has been used: playing *)
(* it can never overwrite, and so lose, an earlier secret.                 *)
SecretsPlayed == \A p \in Players : "secret" \notin used[p] => secret[p] = {}

(* The stored scores, which the victory check and the views read, are      *)
(* always those of the present owners, and the match is over exactly when  *)
(* it has a winner or is drawn, never both.                                *)
ScoresFollowOwners ==
  /\ score = Scores(owner)
  /\ phase = "game_over" <=> (winner # Nobody \/ isDraw)
  /\ ~(winner # Nobody /\ isDraw)
  /\ winner = VictoryOf(score)

(* Cards once out of a hand stay where they were put: within a round the   *)
(* sides of the geishas, the secrets and the discard pile only grow, until *)
(* the secrets are revealed.                                               *)
CardsStayDown ==
  [][round' = round =>
       /\ discardPile \subseteq discardPile'
       /\ \A p \in Players :
            /\ placed[p] \subseteq placed'[p]
            /\ secret[p] \subseteq secret'[p] \cup placed'[p]]_vars

(* How many more accepted commands the match can take at most: a draw, a   *)
(* play and possibly a choice for every unused action.                     *)
PhaseMoves ==
  IF phase = "game_over" THEN 0
  ELSE IF \E p \in Players : phase = PhaseForSelect(p) THEN 1
  ELSE IF \E p \in Players : phase = PhaseForAction(p) THEN -1
  ELSE 0

MovesLeft ==
  (MaxRounds - round) * 6 * ActionsIn(ActionTypes)
  + 3 * (ActionsIn(ActionTypes \ used["p1"]) + ActionsIn(ActionTypes \ used["p2"]))
  + PhaseMoves

(* Every accepted command brings the match nearer to its end: no sequence  *)
(* of legal commands keeps a match going for ever.                         *)
EveryMoveCounts == [][MovesLeft' < MovesLeft /\ MovesLeft' >= 0]_vars

-----------------------------------------------------------------------------
(* The inductive invariant behind CardAccounting: a command moves cards    *)
(* onto the secrets and the pending choice, which must be empty then.      *)
AccountingInv ==
  /\ TypeOK
  /\ ChoicePhase
  /\ SecretsPlayed
  /\ CardAccounting

-----------------------------------------------------------------------------
\* The match as the abstract specification sees it.
MatchResult ==
  IF phase # "game_over" THEN "playing" ELSE IF isDraw THEN "draw" ELSE winner

Match == INSTANCE HanamikojiMatch WITH result <- MatchResult

(* The engine implements the abstract match: owners, rounds and results    *)
(* change only by scoring a completed round.                               *)
ImplementsMatch == Match!MatchSpec
=============================================================================
