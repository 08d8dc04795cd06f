----------------------- MODULE HanamikojiEngine_proofs -----------------------
(***************************************************************************)
(* Proofs about HanamikojiEngine, for every value of the constants that    *)
(* its assumptions allow.                                                  *)
(***************************************************************************)
EXTENDS HanamikojiEngine, FiniteSetTheorems, TLAPS

LEMMA PlayersFacts ==
  /\ \A p \in Players : Other(p) \in Players /\ Other(p) # p /\ Other(Other(p)) = p
  /\ \A p \in Players : /\ PhaseForDraw(p) \in Phases
                        /\ PhaseForAction(p) \in Phases
                        /\ PhaseForSelect(p) \in Phases
  /\ \A r \in Nat : FirstPlayer(r) \in Players
  /\ Nobody \notin Players
BY DEF Players, Other, PhaseForDraw, PhaseForAction, PhaseForSelect, Phases,
       FirstPlayer, Nobody

LEMMA DealSizes ==
  /\ ActionsIn(ActionTypes) \in Nat
  /\ CardCount - 1 - 2 * HandSize = 2 * ActionsIn(ActionTypes)
<1>1. ActionsIn(ActionTypes) \in Nat
  BY DEF ActionsIn, Weigh
<1>2. CardCount - 1 - 2 * HandSize = 2 * ActionsIn(ActionTypes)
  BY <1>1, EngineAssumption, DealAssumption
<1>3. QED
  BY <1>1, <1>2

LEMMA DealType ==
  ASSUME NEW s \in Shuffles
  PROVE  /\ DealtDeck(s) \in Seq(Cards)
         /\ \A p \in Players : DealtHand(s, p) \in SUBSET Cards
<1>1. s \in [1..CardCount -> Cards]
  BY EngineAssumption
<1>2. 2 * ActionsIn(ActionTypes) \in Nat
  BY DealSizes
<1>3. \A i \in 1 .. 2 * ActionsIn(ActionTypes) : i \in 1..CardCount
  BY DealSizes, EngineAssumption
<1>4. DealtDeck(s) \in [1 .. 2 * ActionsIn(ActionTypes) -> Cards]
  BY <1>1, <1>3, DealSizes DEF DealtDeck
<1>5. DealtDeck(s) \in Seq(Cards)
  BY <1>2, <1>4
<1>6. ASSUME NEW p \in Players, NEW i \in 0 .. HandSize - 1
      PROVE  /\ CardCount - 1 - 2 * i \in 1..CardCount
             /\ CardCount - 2 - 2 * i \in 1..CardCount
  <2>1. /\ HandSize \in Nat /\ CardCount \in Nat /\ i \in Nat /\ i <= HandSize - 1
        /\ ActionsIn(ActionTypes) \in Nat
        /\ CardCount = 2 * HandSize + 2 * ActionsIn(ActionTypes) + 1
    BY DealSizes, EngineAssumption, DealAssumption
  <2>2. QED
    BY <2>1
<1>7. \A p \in Players : DealtHand(s, p) \in SUBSET Cards
  BY <1>1, <1>6 DEF DealtHand
<1>8. QED
  BY <1>5, <1>7

-----------------------------------------------------------------------------
(* Type correctness.                                                       *)

\* What a command may hand over to AdvanceAfterCompletedAction.
Tables ==
  [hand : [Players -> SUBSET Cards], secret : [Players -> SUBSET Cards],
   used : [Players -> SUBSET ActionTypes], placed : [Players -> SUBSET Cards],
   discardPile : SUBSET Cards]

LEMMA RevealedType ==
  ASSUME NEW t \in Tables
  PROVE  Revealed(t) \in [Players -> SUBSET Cards]
BY DEF Revealed, Tables

LEMMA NewOwnersType ==
  ASSUME owner \in [Geishas -> Players \cup {Nobody}], NEW side
  PROVE  NewOwners(owner, RoundMajority(side)) \in [Geishas -> Players \cup {Nobody}]
<1>1. ASSUME NEW g \in Geishas
      PROVE  RoundMajority(side)[g] \in Players \cup {Nobody}
  <2>. DEFINE count == [p \in Players |-> Cardinality(Items(side, g, p))]
              lead == {p \in Players : count[p] > count[Other(p)]}
  <2>1. RoundMajority(side)[g] = IF lead = {} THEN Nobody ELSE CHOOSE p \in lead : TRUE
    BY DEF RoundMajority, MajorityAt
  <2>2. lead \subseteq Players
    OBVIOUS
  <2>. HIDE DEF lead
  <2>3. QED
    BY <2>1, <2>2
<1>2. QED
  BY <1>1 DEF NewOwners

LEMMA InitType == Init => TypeOK
<1>. SUFFICES ASSUME Init PROVE TypeOK
  OBVIOUS
<1>1. PICK s \in Shuffles : /\ deck = DealtDeck(s)
                            /\ hand = [p \in Players |-> DealtHand(s, p)]
  BY DEF Init
<1>2. deck \in Seq(Cards) /\ hand \in [Players -> SUBSET Cards]
  BY <1>1, DealType
<1>3. pending \in PendingGames
  BY DEF Init, NoPending, PendingGames
<1>4. round \in 1..MaxRounds
  BY EngineAssumption DEF Init
<1>5. QED
  BY <1>2, <1>3, <1>4, PlayersFacts DEF Init, TypeOK, Players

LEMMA AdvanceType ==
  ASSUME TypeOK, NEW t \in Tables, NEW next \in Players,
         AdvanceAfterCompletedAction(t, next)
  PROVE  TypeOK'
<1>1. pending' \in PendingGames
  BY DEF AdvanceAfterCompletedAction, NoPending, PendingGames
<1>2. CASE NextTurn(t, next)
  BY <1>1, <1>2, PlayersFacts DEF NextTurn, Lay, TypeOK, Tables
<1>3. CASE FinishRound(t)
  <2>1. owner' \in [Geishas -> Players \cup {Nobody}]
    BY <1>3, NewOwnersType DEF FinishRound, Score, TypeOK
  <2>2. ASSUME NEW w, w = VictoryOf(score'), EndMatch(t, w) PROVE TypeOK'
    <3>1. w \in Players \cup {Nobody}
      <4>1. (\E p \in Players : Wins(score', p))
              => (CHOOSE p \in Players : Wins(score', p)) \in Players
        OBVIOUS
      <4>2. QED
        BY <2>2, <4>1 DEF VictoryOf
    <3>2. placed' \in [Players -> SUBSET Cards]
      BY <2>2, RevealedType DEF EndMatch, Lay
    <3>3. QED
      BY <1>1, <2>1, <2>2, <3>1, <3>2 DEF EndMatch, Lay, TypeOK, Tables, Phases
  <2>3. ASSUME ~(round >= MaxRounds), StartNextRound PROVE TypeOK'
    <3>1. PICK s \in Shuffles : /\ deck' = DealtDeck(s)
                                /\ hand' = [p \in Players |-> DealtHand(s, p)]
      BY <2>3 DEF StartNextRound, Lay, FreshTable
    <3>2. deck' \in Seq(Cards) /\ hand' \in [Players -> SUBSET Cards]
      BY <3>1, DealType
    <3>3. round' \in 1..MaxRounds /\ round + 1 \in Nat
      BY <2>3, EngineAssumption DEF StartNextRound, Lay, FreshTable, TypeOK
    <3>4. /\ activePlayer' \in Players
          /\ phase' \in Phases
      BY <2>3, <3>3, PlayersFacts DEF StartNextRound, Lay, FreshTable
    <3>5. QED
      BY <1>1, <2>1, <2>3, <3>2, <3>3, <3>4 DEF StartNextRound, Lay, FreshTable, TypeOK
  <2>4. QED
    BY <1>3, <2>2, <2>3 DEF FinishRound, LastRound
<1>4. QED
  BY <1>2, <1>3 DEF AdvanceAfterCompletedAction

LEMMA DrawType ==
  ASSUME TypeOK, NEW p \in Players, Draw(p)
  PROVE  TypeOK'
<1>1. Len(deck) \in Nat /\ Len(deck) > 0 /\ deck \in Seq(Cards)
  BY DEF Draw, TypeOK
<1>2. deck' \in Seq(Cards) /\ deck[Len(deck)] \in Cards
  BY <1>1 DEF Draw
<1>3. hand' \in [Players -> SUBSET Cards]
  BY <1>2 DEF Draw, TypeOK
<1>4. QED
  BY <1>2, <1>3, PlayersFacts DEF Draw, TypeOK

LEMMA LaidDownType ==
  ASSUME TypeOK, NEW p \in Players, NEW type \in ActionTypes, NEW cards
  PROVE  LaidDown(p, type, cards) \in Tables
BY DEF TypeOK, LaidDown, Table, Tables

LEMMA PlaySecretType ==
  ASSUME TypeOK, NEW p \in Players, NEW cards, PlaySecret(p, cards)
  PROVE  TypeOK'
<1>. DEFINE t == [LaidDown(p, "secret", cards) EXCEPT !.secret[p] = cards]
<1>1. /\ MayPlay(p, "secret", cards)
      /\ AdvanceAfterCompletedAction(t, Other(p))
  BY DEF PlaySecret
<1>2. cards \in SUBSET Cards /\ "secret" \in ActionTypes
  BY <1>1 DEF MayPlay, TypeOK
<1>3. t \in Tables
  BY <1>2, LaidDownType DEF Tables
<1>. HIDE DEF t
<1>4. QED
  BY <1>1, <1>3, AdvanceType, PlayersFacts

LEMMA PlayDiscardType ==
  ASSUME TypeOK, NEW p \in Players, NEW cards, PlayDiscard(p, cards)
  PROVE  TypeOK'
<1>. DEFINE t == [LaidDown(p, "discard", cards) EXCEPT !.discardPile = @ \cup cards]
<1>1. /\ MayPlay(p, "discard", cards)
      /\ AdvanceAfterCompletedAction(t, Other(p))
  BY DEF PlayDiscard
<1>2. cards \in SUBSET Cards /\ "discard" \in ActionTypes
  BY <1>1 DEF MayPlay, TypeOK
<1>3. t \in Tables
  BY <1>2, LaidDownType DEF Tables
<1>. HIDE DEF t
<1>4. QED
  BY <1>1, <1>3, AdvanceType, PlayersFacts

LEMMA PlayOfferType ==
  ASSUME TypeOK, NEW p \in Players, NEW type, NEW cards, PlayOffer(p, type, cards)
  PROVE  TypeOK'
<1>1. cards \in SUBSET Cards /\ type \in ActionTypes
  BY DEF PlayOffer, MayPlay, TypeOK
<1>2. LaidDown(p, type, cards) \in Tables
  BY <1>1, LaidDownType
<1>3. PICK groups \in Offers(type, cards) :
        pending' = [type |-> type, initiator |-> p, chooser |-> Other(p), groups |-> groups]
  BY DEF PlayOffer
<1>4. groups \in SUBSET SUBSET Cards
  BY <1>1, <1>3 DEF Offers
<1>5. pending' \in PendingGames
  BY <1>3, <1>4, PlayersFacts DEF PlayOffer, PendingGames
<1>6. used' \in [Players -> SUBSET ActionTypes] /\ hand' \in [Players -> SUBSET Cards]
  BY <1>2 DEF PlayOffer, Tables
<1>7. QED
  BY <1>5, <1>6, PlayersFacts DEF PlayOffer, TypeOK

LEMMA ResolveType ==
  ASSUME TypeOK, NEW p \in Players, NEW chosen, Resolve(p, chosen)
  PROVE  TypeOK'
<1>. DEFINE rest == UNION (pending.groups \ {chosen})
            t == [Table EXCEPT !.placed[p] = @ \cup chosen,
                               !.placed[pending.initiator] = @ \cup rest]
<1>1. AdvanceAfterCompletedAction(t, p) /\ chosen \in pending.groups
  BY DEF Resolve, Divided
<1>2. chosen \in SUBSET Cards /\ rest \in SUBSET Cards
  BY <1>1 DEF TypeOK, PendingGames
<1>3. Table \in Tables
  BY DEF TypeOK, Table, Tables
<1>. HIDE DEF rest
<1>4. t \in Tables
  BY <1>2, <1>3 DEF Tables
<1>. HIDE DEF t
<1>5. QED
  BY <1>1, <1>4, AdvanceType

LEMMA StepType ==
  ASSUME TypeOK, [Next]_vars
  PROVE  TypeOK'
<1>1. ASSUME Next PROVE TypeOK'
  <2>1. PICK p \in Players :
          \/ Draw(p)
          \/ \E cards \in SUBSET hand[p] :
                \/ PlaySecret(p, cards)
                \/ PlayDiscard(p, cards)
                \/ \E type \in {"gift", "competition"} : PlayOffer(p, type, cards)
          \/ \E chosen \in pending.groups : Resolve(p, chosen)
    BY <1>1 DEF Next
  <2>2. QED
    BY <2>1, DrawType, PlaySecretType, PlayDiscardType, PlayOfferType, ResolveType
<1>2. ASSUME UNCHANGED vars PROVE TypeOK'
  BY <1>2 DEF TypeOK, vars
<1>3. QED
  BY <1>1, <1>2

(* Every state of the engine is well typed: piles hold cards, the round    *)
(* stays within MAX_ROUNDS, the phases and players are the code's.         *)
THEOREM TypeCorrect == Spec => []TypeOK
BY InitType, StepType, PTL DEF Spec

-----------------------------------------------------------------------------
(* Card accounting.  Every command moves cards between piles; moving cards *)
(* keeps the accounts, and so does a new deal.                             *)

LEMMA MovedAccounted ==
  ASSUME NEW S, NEW piles \in [S -> SUBSET Cards], NEW hidden \in Cards,
         Accounted(piles, hidden),
         NEW from \in S, NEW to \in S, from # to,
         NEW moved \in SUBSET piles[from]
  PROVE  Accounted([piles EXCEPT ![from] = @ \ moved, ![to] = @ \cup moved], hidden)
<1>. DEFINE after == [piles EXCEPT ![from] = @ \ moved, ![to] = @ \cup moved]
<1>1. /\ after \in [S -> SUBSET Cards]
      /\ after[from] = piles[from] \ moved
      /\ after[to] = piles[to] \cup moved
      /\ \A m \in S \ {from, to} : after[m] = piles[m]
  OBVIOUS
<1>. HIDE DEF after
<1>2. \A m, n \in S : m # n => piles[m] \cap piles[n] = {}
  BY DEF Accounted
<1>3. \A m, n \in S : m # n => after[m] \cap after[n] = {}
  BY <1>1, <1>2
<1>4. UNION {piles[m] : m \in S} = Cards \ {hidden}
  BY DEF Accounted
<1>5. UNION {after[m] : m \in S} = Cards \ {hidden}
  <2>1. ASSUME NEW c, NEW m \in S, c \in after[m] PROVE \E n \in S : c \in piles[n]
    BY <1>1, <2>1
  <2>2. ASSUME NEW c, NEW n \in S, c \in piles[n] PROVE \E m \in S : c \in after[m]
    BY <1>1, <2>2
  <2>3. QED
    BY <1>4, <2>1, <2>2
<1>6. QED
  BY <1>1, <1>3, <1>5 DEF Accounted, after

PileNames == {"deck", "p1_hand", "p2_hand", "p1_secretCard", "p2_secretCard",
              "p1_items", "p2_items", "discardPile", "pendingAction"}

LEMMA PilesType ==
  ASSUME NEW d \in Seq(Cards), NEW t \in Tables, NEW choice \in PendingGames
  PROVE  PilesOf(d, t, choice) \in [PileNames -> SUBSET Cards]
<1>1. DeckCards(d) \in SUBSET Cards
  BY DEF DeckCards
<1>2. UNION choice.groups \in SUBSET Cards
  BY DEF PendingGames
<1>3. /\ t.hand["p1"] \in SUBSET Cards /\ t.hand["p2"] \in SUBSET Cards
      /\ t.secret["p1"] \in SUBSET Cards /\ t.secret["p2"] \in SUBSET Cards
      /\ t.placed["p1"] \in SUBSET Cards /\ t.placed["p2"] \in SUBSET Cards
      /\ t.discardPile \in SUBSET Cards
  BY DEF Tables, Players
<1>4. QED
  BY <1>1, <1>2, <1>3 DEF PilesOf, PileNames

\* A table as a new round finds it.
DealtTable(s) ==
  [hand |-> [p \in Players |-> DealtHand(s, p)], secret |-> [p \in Players |-> {}],
   used |-> [p \in Players |-> {}], placed |-> [p \in Players |-> {}],
   discardPile |-> {}]

LEMMA HalfOrOneMore ==
  ASSUME NEW x \in Nat
  PROVE  /\ x \div 2 \in Nat
         /\ x = 2 * (x \div 2) \/ x = 2 * (x \div 2) + 1
OBVIOUS

(* A deal puts every card but the hidden one in exactly one pile.          *)
LEMMA DealAccounted ==
  ASSUME NEW s \in Shuffles
  PROVE  /\ \A i, j \in 1..Len(DealtDeck(s)) : DealtDeck(s)[i] = DealtDeck(s)[j] => i = j
         /\ s[CardCount] \in Cards
         /\ Accounted(PilesOf(DealtDeck(s), DealtTable(s), NoPending), s[CardCount])
<1>. DEFINE n == CardCount - 1 - 2 * HandSize
            low == {s[i] : i \in 1..n}
            h1 == {s[CardCount - 1 - 2 * i] : i \in 0 .. HandSize - 1}
            h2 == {s[CardCount - 2 - 2 * i] : i \in 0 .. HandSize - 1}
            piles == PilesOf(DealtDeck(s), DealtTable(s), NoPending)
<1>1. /\ HandSize \in Nat /\ CardCount \in Nat /\ n \in Nat
      /\ CardCount = 2 * HandSize + n + 1
  <2>1. HandSize \in Nat /\ CardCount \in Nat
    BY EngineAssumption
  <2>2. ActionsIn(ActionTypes) \in Nat /\ n = 2 * ActionsIn(ActionTypes)
    BY DealSizes
  <2>3. n \in Nat
    BY <2>2
  <2>4. QED
    BY <2>1, <2>3
<1>2. /\ s \in [1..CardCount -> Cards]
      /\ \A i, j \in 1..CardCount : s[i] = s[j] => i = j
      /\ \A c \in Cards : \E i \in 1..CardCount : s[i] = c
  BY EngineAssumption
<1>3. /\ Len(DealtDeck(s)) = n
      /\ \A i \in 1..n : DealtDeck(s)[i] = s[i]
      /\ \A i \in 1..n : i \in 1..CardCount
  BY <1>1, <1>2 DEF DealtDeck
<1>4. /\ piles["deck"] = low /\ piles["p1_hand"] = h1 /\ piles["p2_hand"] = h2
      /\ \A m \in PileNames \ {"deck", "p1_hand", "p2_hand"} : piles[m] = {}
      /\ DOMAIN piles = PileNames
  <2>1. DealtHand(s, "p1") = h1 /\ DealtHand(s, "p2") = h2
    BY DEF DealtHand
  <2>2. DeckCards(DealtDeck(s)) = low
    BY <1>3 DEF DeckCards
  <2>. HIDE DEF n, low, h1, h2
  <2>3. QED
    BY <2>1, <2>2 DEF PilesOf, DealtTable, NoPending, PileNames, Players
<1>5. low \cap h1 = {} /\ low \cap h2 = {} /\ h1 \cap h2 = {}
  <2>1. ASSUME NEW i \in 1..n, NEW j \in 0 .. HandSize - 1
        PROVE  s[i] # s[CardCount - 1 - 2 * j] /\ s[i] # s[CardCount - 2 - 2 * j]
    <3>1. /\ i \in 1..CardCount
          /\ CardCount - 1 - 2 * j \in 1..CardCount
          /\ CardCount - 2 - 2 * j \in 1..CardCount
          /\ i # CardCount - 1 - 2 * j /\ i # CardCount - 2 - 2 * j
      BY <1>1
    <3>2. QED
      BY <1>2, <3>1
  <2>2. ASSUME NEW i \in 0 .. HandSize - 1, NEW j \in 0 .. HandSize - 1
        PROVE  s[CardCount - 1 - 2 * i] # s[CardCount - 2 - 2 * j]
    <3>1. /\ CardCount - 1 - 2 * i \in 1..CardCount
          /\ CardCount - 2 - 2 * j \in 1..CardCount
          /\ CardCount - 1 - 2 * i # CardCount - 2 - 2 * j
      BY <1>1
    <3>2. QED
      BY <1>2, <3>1
  <2>3. QED
    BY <2>1, <2>2
<1>6. low \cup h1 \cup h2 = Cards \ {s[CardCount]}
  <2>1. ASSUME NEW c \in Cards, c # s[CardCount] PROVE c \in low \cup h1 \cup h2
    <3>1. PICK i \in 1..CardCount : s[i] = c
      BY <1>2
    <3>2. i # CardCount
      BY <2>1, <3>1
    <3>3. CASE i <= n
      BY <1>1, <3>1, <3>3
    <3>4. CASE i > n
      <4>. DEFINE x == CardCount - 1 - i
                  k == x \div 2
      <4>0. x \in Nat /\ x < 2 * HandSize /\ i = CardCount - 1 - x
        BY <1>1, <3>2, <3>4
      <4>. HIDE DEF x, n
      <4>1. /\ k \in 0 .. HandSize - 1
            /\ i = CardCount - 1 - 2 * k \/ i = CardCount - 2 - 2 * k
        <5>1. k \in Nat /\ (x = 2 * k \/ x = 2 * k + 1)
          BY <4>0, HalfOrOneMore
        <5>. HIDE DEF k
        <5>2. QED
          BY <1>1, <4>0, <5>1
      <4>. HIDE DEF k
      <4>2. QED
        BY <3>1, <4>1
    <3>5. QED
      BY <1>1, <3>3, <3>4
  <2>2. ASSUME NEW c \in low \cup h1 \cup h2 PROVE c \in Cards /\ c # s[CardCount]
    <3>1. PICK i \in 1 .. CardCount - 1 : c = s[i]
      BY <1>1
    <3>2. i \in 1..CardCount /\ CardCount \in 1..CardCount /\ i # CardCount
      BY <1>1
    <3>3. QED
      BY <1>2, <3>1, <3>2
  <2>3. QED
    BY <2>1, <2>2
<1>7. \A i, j \in 1..Len(DealtDeck(s)) : DealtDeck(s)[i] = DealtDeck(s)[j] => i = j
  BY <1>2, <1>3
<1>8. s[CardCount] \in Cards
  BY <1>1, <1>2
<1>. HIDE DEF n, low, h1, h2, piles
<1>9. \A m, k \in PileNames : m # k => piles[m] \cap piles[k] = {}
  BY <1>4, <1>5
<1>10. UNION {piles[m] : m \in PileNames} = low \cup h1 \cup h2
  BY <1>4 DEF PileNames
<1>11. Accounted(piles, s[CardCount])
  BY <1>4, <1>6, <1>9, <1>10 DEF Accounted
<1>12. QED
  BY <1>7, <1>8, <1>11 DEF piles

LEMMA PhasesDiffer ==
  \A p, q \in Players :
    /\ PhaseForDraw(p) # PhaseForSelect(q)
    /\ PhaseForDraw(p) # "game_over"
    /\ PhaseForAction(p) # PhaseForSelect(q)
    /\ PhaseForSelect(p) # "game_over"
BY DEF PhaseForDraw, PhaseForAction, PhaseForSelect, Players

LEMMA TableType ==
  ASSUME TypeOK
  PROVE  Table \in Tables
BY DEF TypeOK, Table, Tables

LEMMA NoPendingType == NoPending \in PendingGames /\ NoPending.groups = {}
BY DEF NoPending, PendingGames

\* What the table a command hands over must satisfy.
TableInv(t) ==
  /\ t \in Tables
  /\ \A p \in Players : "secret" \notin t.used[p] => t.secret[p] = {}
  /\ \E hidden \in Cards : Accounted(PilesOf(deck, t, NoPending), hidden)

LEMMA AdvanceInv ==
  ASSUME TypeOK, CardAccounting, NEW t, TableInv(t), NEW next \in Players,
         AdvanceAfterCompletedAction(t, next)
  PROVE  ChoicePhase' /\ SecretsPlayed' /\ CardAccounting'
<1>0. /\ t \in Tables
      /\ pending' = NoPending
      /\ deck \in Seq(Cards)
      /\ \A i, j \in 1..Len(deck) : deck[i] = deck[j] => i = j
      /\ \A g, h \in NoPending.groups : g # h => g \cap h = {}
  BY NoPendingType DEF AdvanceAfterCompletedAction, TableInv, TypeOK, CardAccounting
<1>1. PICK hidden \in Cards : Accounted(PilesOf(deck, t, NoPending), hidden)
  BY DEF TableInv
<1>2. CASE NextTurn(t, next)
  <2>1. Table' = t /\ deck' = deck /\ secret' = t.secret /\ used' = t.used
    BY <1>0, <1>2 DEF NextTurn, Lay, Table, Tables
  <2>2. CardAccounting'
    BY <1>0, <1>1, <2>1 DEF CardAccounting
  <2>3. SecretsPlayed'
    BY <2>1 DEF SecretsPlayed, TableInv
  <2>4. ChoicePhase'
    BY <1>0, <1>2, PhasesDiffer DEF ChoicePhase, NextTurn, Lay
  <2>5. QED
    BY <2>2, <2>3, <2>4
<1>3. ASSUME NEW w, EndMatch(t, w)
      PROVE  ChoicePhase' /\ SecretsPlayed' /\ CardAccounting'
  <2>. DEFINE piles == PilesOf(deck, t, NoPending)
              half == [piles EXCEPT !["p1_secretCard"] = @ \ piles["p1_secretCard"],
                                    !["p1_items"] = @ \cup piles["p1_secretCard"]]
              both == [half EXCEPT !["p2_secretCard"] = @ \ half["p2_secretCard"],
                                   !["p2_items"] = @ \cup half["p2_secretCard"]]
  <2>1. piles \in [PileNames -> SUBSET Cards]
    BY <1>0, PilesType, NoPendingType
  <2>1a. Accounted(piles, hidden)
    BY <1>1
  <2>2. half \in [PileNames -> SUBSET Cards] /\ Accounted(half, hidden)
    <3>. HIDE DEF piles
    <3>1. half \in [PileNames -> SUBSET Cards]
      BY <2>1 DEF PileNames
    <3>2. Accounted(half, hidden)
      BY <2>1, <2>1a, MovedAccounted DEF PileNames
    <3>3. QED
      BY <3>1, <3>2
  <2>3. Accounted(both, hidden)
    <3>. HIDE DEF half
    <3>1. QED
      BY <2>2, MovedAccounted DEF PileNames
  <2>4. PilesOf(deck', Table', pending') = both
    <3>1. /\ both["p1_secretCard"] = {} /\ both["p2_secretCard"] = {}
          /\ both["p1_items"] = t.placed["p1"] \cup t.secret["p1"]
          /\ both["p2_items"] = t.placed["p2"] \cup t.secret["p2"]
          /\ \A m \in {"deck", "p1_hand", "p2_hand", "discardPile", "pendingAction"} :
                both[m] = piles[m]
          /\ both \in [PileNames -> SUBSET Cards]
      <4>1. /\ piles["p1_secretCard"] = t.secret["p1"] /\ piles["p1_items"] = t.placed["p1"]
            /\ piles["p2_secretCard"] = t.secret["p2"] /\ piles["p2_items"] = t.placed["p2"]
        BY DEF PilesOf
      <4>. HIDE DEF piles
      <4>2. /\ half \in [PileNames -> SUBSET Cards]
            /\ half["p1_secretCard"] = {}
            /\ half["p1_items"] = t.placed["p1"] \cup t.secret["p1"]
            /\ half["p2_secretCard"] = t.secret["p2"] /\ half["p2_items"] = t.placed["p2"]
            /\ \A m \in {"deck", "p1_hand", "p2_hand", "discardPile", "pendingAction"} :
                  half[m] = piles[m]
        BY <2>1, <2>2, <4>1 DEF PileNames
      <4>. HIDE DEF half
      <4>3. QED
        BY <4>2 DEF PileNames
    <3>2. /\ hand' = t.hand /\ deck' = deck /\ discardPile' = t.discardPile
          /\ secret'["p1"] = {} /\ secret'["p2"] = {}
          /\ placed'["p1"] = t.placed["p1"] \cup t.secret["p1"]
          /\ placed'["p2"] = t.placed["p2"] \cup t.secret["p2"]
      BY <1>3 DEF EndMatch, Lay, Revealed, Players
    <3>. DEFINE new == PilesOf(deck', Table', pending')
    <3>3. /\ new["p1_secretCard"] = {} /\ new["p2_secretCard"] = {}
          /\ new["p1_items"] = t.placed["p1"] \cup t.secret["p1"]
          /\ new["p2_items"] = t.placed["p2"] \cup t.secret["p2"]
          /\ \A m \in {"deck", "p1_hand", "p2_hand", "discardPile", "pendingAction"} :
                new[m] = piles[m]
          /\ new = [m \in PileNames |-> new[m]]
      <4>1. new = [m \in PileNames |-> new[m]]
        BY DEF PilesOf, PileNames
      <4>2. /\ new["p1_secretCard"] = secret'["p1"] /\ new["p2_secretCard"] = secret'["p2"]
            /\ new["p1_items"] = placed'["p1"] /\ new["p2_items"] = placed'["p2"]
            /\ new["deck"] = piles["deck"]
            /\ new["p1_hand"] = hand'["p1"] /\ new["p2_hand"] = hand'["p2"]
            /\ new["discardPile"] = discardPile'
            /\ new["pendingAction"] = piles["pendingAction"]
        BY <1>0, <3>2 DEF PilesOf, Table
      <4>3. /\ piles["p1_hand"] = hand'["p1"] /\ piles["p2_hand"] = hand'["p2"]
            /\ piles["discardPile"] = discardPile'
        BY <3>2 DEF PilesOf
      <4>. HIDE DEF new, piles
      <4>4. QED
        BY <3>2, <4>1, <4>2, <4>3
    <3>. HIDE DEF new, both, piles
    <3>4. \A m \in PileNames : new[m] = both[m]
      BY <3>1, <3>3 DEF PileNames
    <3>5. new = both
      BY <3>1, <3>3, <3>4
    <3>6. QED
      BY <3>5 DEF new
  <2>5. CardAccounting'
    BY <1>0, <1>3, <2>3, <2>4 DEF CardAccounting, EndMatch, Lay
  <2>6. SecretsPlayed' /\ ChoicePhase'
    BY <1>0, <1>3, PhasesDiffer DEF SecretsPlayed, ChoicePhase, EndMatch, Lay
  <2>7. QED
    BY <2>5, <2>6
<1>4. ASSUME StartNextRound
      PROVE  ChoicePhase' /\ SecretsPlayed' /\ CardAccounting'
  <2>1. PICK s \in Shuffles : /\ deck' = DealtDeck(s)
                              /\ hand' = [p \in Players |-> DealtHand(s, p)]
    BY <1>4 DEF StartNextRound, Lay, FreshTable
  <2>2. Table' = DealtTable(s)
    BY <1>4, <2>1 DEF StartNextRound, Lay, FreshTable, Table, DealtTable
  <2>3. CardAccounting'
    BY <1>0, <2>1, <2>2, DealAccounted DEF CardAccounting
  <2>4. SecretsPlayed'
    BY <1>4 DEF SecretsPlayed, StartNextRound, Lay, FreshTable
  <2>5. FirstPlayer(round + 1) \in Players
    BY DEF FirstPlayer, Players
  <2>6. ChoicePhase'
    BY <1>0, <1>4, <2>5, PhasesDiffer DEF ChoicePhase, StartNextRound, Lay, FreshTable
  <2>7. QED
    BY <2>3, <2>4, <2>6
<1>5. QED
  BY <1>2, <1>3, <1>4 DEF AdvanceAfterCompletedAction, FinishRound

-----------------------------------------------------------------------------
(* The piles by the player they belong to, and after a move.               *)

HandPile(p)   == IF p = "p1" THEN "p1_hand" ELSE "p2_hand"
SecretPile(p) == IF p = "p1" THEN "p1_secretCard" ELSE "p2_secretCard"
ItemsPile(p)  == IF p = "p1" THEN "p1_items" ELSE "p2_items"

LEMMA PilesRecord ==
  \A d, t, choice : PilesOf(d, t, choice) = [m \in PileNames |-> PilesOf(d, t, choice)[m]]
BY DEF PilesOf, PileNames

LEMMA PilesCovered ==
  \A m \in PileNames :
    \/ m \in {"deck", "discardPile", "pendingAction"}
    \/ \E p \in Players : m \in {HandPile(p), SecretPile(p), ItemsPile(p)}
BY DEF HandPile, SecretPile, ItemsPile, PileNames, Players

LEMMA SamePiles ==
  ASSUME NEW a, NEW b,
         a = [m \in PileNames |-> a[m]], b = [m \in PileNames |-> b[m]],
         a["deck"] = b["deck"],
         \A p \in Players : /\ a[HandPile(p)] = b[HandPile(p)]
                            /\ a[SecretPile(p)] = b[SecretPile(p)]
                            /\ a[ItemsPile(p)] = b[ItemsPile(p)],
         a["discardPile"] = b["discardPile"],
         a["pendingAction"] = b["pendingAction"]
  PROVE  a = b
<1>1. \A m \in PileNames : a[m] = b[m]
  BY PilesCovered
<1>2. QED
  BY <1>1

LEMMA PileNamesOf ==
  \A p \in Players :
    /\ HandPile(p) \in PileNames \ {"deck", "discardPile", "pendingAction"}
    /\ SecretPile(p) \in PileNames \ {"deck", "discardPile", "pendingAction"}
    /\ ItemsPile(p) \in PileNames \ {"deck", "discardPile", "pendingAction"}
    /\ "deck" \in PileNames /\ "discardPile" \in PileNames /\ "pendingAction" \in PileNames
    /\ \A r \in Players : /\ HandPile(p) # SecretPile(r) /\ HandPile(p) # ItemsPile(r)
                          /\ SecretPile(p) # ItemsPile(r)
                          /\ p # r => /\ HandPile(p) # HandPile(r)
                                      /\ SecretPile(p) # SecretPile(r)
                                      /\ ItemsPile(p) # ItemsPile(r)
BY DEF HandPile, SecretPile, ItemsPile, PileNames, Players

Moved(piles, from, to, moved) ==
  [piles EXCEPT ![from] = @ \ moved, ![to] = @ \cup moved]

LEMMA MovedPiles ==
  ASSUME NEW S, NEW piles \in [S -> SUBSET Cards], NEW hidden \in Cards,
         Accounted(piles, hidden),
         NEW from \in S, NEW to \in S, from # to,
         NEW moved \in SUBSET piles[from],
         NEW after, after = Moved(piles, from, to, moved)
  PROVE  /\ after \in [S -> SUBSET Cards]
         /\ Accounted(after, hidden)
         /\ after[from] = piles[from] \ moved
         /\ after[to] = piles[to] \cup moved
         /\ \A m \in S \ {from, to} : after[m] = piles[m]
BY MovedAccounted DEF Moved

-----------------------------------------------------------------------------
LEMMA DrawInv ==
  ASSUME AccountingInv, NEW p \in Players, Draw(p)
  PROVE  ChoicePhase' /\ SecretsPlayed' /\ CardAccounting'
<1>. DEFINE n == Len(deck)
            top == deck[n]
            piles == PilesOf(deck, Table, pending)
            after == Moved(piles, "deck", HandPile(p), {top})
<1>0. TypeOK /\ ChoicePhase /\ SecretsPlayed /\ CardAccounting
  BY DEF AccountingInv
<1>1. /\ deck \in Seq(Cards) /\ n \in Nat /\ n > 0
      /\ \A i, j \in 1..n : deck[i] = deck[j] => i = j
  BY <1>0 DEF TypeOK, CardAccounting, Draw
<1>2. /\ deck' \in Seq(Cards) /\ Len(deck') = n - 1
      /\ \A i \in 1 .. n - 1 : deck'[i] = deck[i]
  <2>1. deck' = SubSeq(deck, 1, n - 1)
    BY DEF Draw
  <2>2. n - 1 \in Nat /\ n - 1 <= Len(deck)
    BY <1>1
  <2>. HIDE DEF n
  <2>3. QED
    BY <1>1, <2>1, <2>2
<1>3. DeckCards(deck') = DeckCards(deck) \ {top}
  <2>1. ASSUME NEW i \in 1..n, deck[i] # top PROVE i \in 1 .. n - 1
    BY <1>1, <2>1
  <2>2. \A i \in 1 .. n - 1 : i \in 1..n /\ n \in 1..n /\ i # n
    BY <1>1
  <2>3. \A i \in 1 .. n - 1 : deck[i] # top
    BY <1>1, <2>2
  <2>. HIDE DEF n, top
  <2>4. QED
    BY <1>1, <1>2, <2>1, <2>2, <2>3 DEF DeckCards, n, top
<1>4. PICK hidden \in Cards : Accounted(piles, hidden)
  BY <1>0 DEF CardAccounting
<1>5. piles \in [PileNames -> SUBSET Cards]
  BY <1>0, PilesType, TableType DEF TypeOK
<1>6. top \in piles["deck"]
  <2>1. n \in 1..n
    BY <1>1
  <2>2. piles["deck"] = DeckCards(deck)
    BY DEF PilesOf
  <2>3. QED
    BY <2>1, <2>2 DEF DeckCards
<1>7. /\ pending' = pending
      /\ Table'.hand = [hand EXCEPT ![p] = @ \cup {top}]
      /\ Table'.secret = secret /\ Table'.placed = placed
      /\ Table'.discardPile = discardPile
  BY DEF Draw, Table
<1>8. /\ after \in [PileNames -> SUBSET Cards] /\ Accounted(after, hidden)
      /\ after["deck"] = piles["deck"] \ {top}
      /\ after[HandPile(p)] = piles[HandPile(p)] \cup {top}
      /\ \A m \in PileNames \ {"deck", HandPile(p)} : after[m] = piles[m]
  <2>. HIDE DEF piles, top
  <2>1. QED
    BY <1>4, <1>5, <1>6, PileNamesOf, MovedPiles
<1>9. PilesOf(deck', Table', pending') = after
  <2>1. /\ piles["deck"] = DeckCards(deck)
        /\ \A r \in Players : /\ piles[HandPile(r)] = hand[r]
                              /\ piles[SecretPile(r)] = secret[r]
                              /\ piles[ItemsPile(r)] = placed[r]
        /\ piles["discardPile"] = discardPile
        /\ piles["pendingAction"] = UNION pending.groups
    <3>1. /\ Table.hand = hand /\ Table.secret = secret /\ Table.placed = placed
          /\ Table.discardPile = discardPile
      BY DEF Table
    <3>2. /\ piles["deck"] = DeckCards(deck)
          /\ piles["p1_hand"] = hand["p1"] /\ piles["p2_hand"] = hand["p2"]
          /\ piles["p1_secretCard"] = secret["p1"] /\ piles["p2_secretCard"] = secret["p2"]
          /\ piles["p1_items"] = placed["p1"] /\ piles["p2_items"] = placed["p2"]
          /\ piles["discardPile"] = discardPile
          /\ piles["pendingAction"] = UNION pending.groups
      BY <3>1 DEF PilesOf
    <3>. HIDE DEF piles
    <3>3. QED
      BY <3>2 DEF HandPile, SecretPile, ItemsPile, Players
  <2>2. hand \in [Players -> SUBSET Cards]
    BY <1>0 DEF TypeOK
  <2>. DEFINE new == PilesOf(deck', Table', pending')
  <2>3. /\ new["deck"] = DeckCards(deck')
        /\ \A r \in Players : /\ new[HandPile(r)] = Table'.hand[r]
                              /\ new[SecretPile(r)] = Table'.secret[r]
                              /\ new[ItemsPile(r)] = Table'.placed[r]
        /\ new["discardPile"] = Table'.discardPile
        /\ new["pendingAction"] = UNION pending'.groups
    <3>1. /\ new["deck"] = DeckCards(deck')
          /\ new["p1_hand"] = Table'.hand["p1"] /\ new["p2_hand"] = Table'.hand["p2"]
          /\ new["p1_secretCard"] = Table'.secret["p1"]
          /\ new["p2_secretCard"] = Table'.secret["p2"]
          /\ new["p1_items"] = Table'.placed["p1"] /\ new["p2_items"] = Table'.placed["p2"]
          /\ new["discardPile"] = Table'.discardPile
          /\ new["pendingAction"] = UNION pending'.groups
      BY DEF PilesOf
    <3>. HIDE DEF new
    <3>2. QED
      BY <3>1 DEF HandPile, SecretPile, ItemsPile, Players
  <2>4. new = [m \in PileNames |-> new[m]]
    BY PilesRecord
  <2>. HIDE DEF after, piles, top, n, new
  <2>5. \A r \in Players : /\ new[HandPile(r)] = after[HandPile(r)]
                           /\ new[SecretPile(r)] = after[SecretPile(r)]
                           /\ new[ItemsPile(r)] = after[ItemsPile(r)]
    <3>1. TAKE r \in Players
    <3>2. new[SecretPile(r)] = after[SecretPile(r)] /\ new[ItemsPile(r)] = after[ItemsPile(r)]
      <4>1. /\ after[SecretPile(r)] = piles[SecretPile(r)]
            /\ after[ItemsPile(r)] = piles[ItemsPile(r)]
        BY <1>8, PileNamesOf
      <4>2. QED
        BY <1>7, <2>1, <2>3, <4>1
    <3>3. CASE r = p
      BY <1>7, <1>8, <2>1, <2>2, <2>3, <3>2, <3>3
    <3>4. CASE r # p
      <4>1. after[HandPile(r)] = piles[HandPile(r)]
        BY <1>8, <3>4, PileNamesOf
      <4>2. QED
        BY <1>7, <2>1, <2>2, <2>3, <3>2, <3>4, <4>1
    <3>5. QED
      BY <3>3, <3>4
  <2>6. /\ new["deck"] = after["deck"]
        /\ new["discardPile"] = after["discardPile"]
        /\ new["pendingAction"] = after["pendingAction"]
    BY <1>3, <1>7, <1>8, <2>1, <2>3, PileNamesOf
  <2>7. new = after
    BY <1>8, <2>4, <2>5, <2>6, SamePiles
  <2>8. QED
    BY <2>7 DEF new
<1>10. CardAccounting'
  <2>1. \A i, j \in 1..Len(deck') : deck'[i] = deck'[j] => i = j
    BY <1>1, <1>2
  <2>2. \A g, h \in pending'.groups : g # h => g \cap h = {}
    BY <1>0, <1>7 DEF CardAccounting
  <2>3. QED
    BY <1>8, <1>9, <2>1, <2>2 DEF CardAccounting
<1>11. SecretsPlayed'
  BY <1>0 DEF SecretsPlayed, Draw
<1>12. ChoicePhase'
  BY <1>0, PhasesDiffer DEF ChoicePhase, Draw
<1>13. QED
  BY <1>10, <1>11, <1>12
-----------------------------------------------------------------------------
(* A play: pending is null in the action phases, and the cards laid down   *)
(* are of the hand.                                                        *)

LEMMA PlayFacts ==
  ASSUME AccountingInv, NEW p \in Players, NEW type, NEW cards, MayPlay(p, type, cards)
  PROVE  /\ TypeOK /\ SecretsPlayed /\ CardAccounting
         /\ pending = NoPending
         /\ cards \subseteq hand[p]
         /\ type \in ActionTypes /\ type \notin used[p]
         /\ Table \in Tables
         /\ PilesOf(deck, Table, pending) \in [PileNames -> SUBSET Cards]
BY PilesType, TableType, PhasesDiffer DEF AccountingInv, ChoicePhase, MayPlay, TypeOK

LEMMA PilesNow ==
  /\ PilesOf(deck, Table, pending)["deck"] = DeckCards(deck)
  /\ \A r \in Players : /\ PilesOf(deck, Table, pending)[HandPile(r)] = hand[r]
                        /\ PilesOf(deck, Table, pending)[SecretPile(r)] = secret[r]
                        /\ PilesOf(deck, Table, pending)[ItemsPile(r)] = placed[r]
  /\ PilesOf(deck, Table, pending)["discardPile"] = discardPile
  /\ PilesOf(deck, Table, pending)["pendingAction"] = UNION pending.groups
<1>. DEFINE piles == PilesOf(deck, Table, pending)
<1>1. /\ piles["deck"] = DeckCards(deck)
      /\ piles["p1_hand"] = hand["p1"] /\ piles["p2_hand"] = hand["p2"]
      /\ piles["p1_secretCard"] = secret["p1"] /\ piles["p2_secretCard"] = secret["p2"]
      /\ piles["p1_items"] = placed["p1"] /\ piles["p2_items"] = placed["p2"]
      /\ piles["discardPile"] = discardPile
      /\ piles["pendingAction"] = UNION pending.groups
  BY DEF PilesOf, Table
<1>. HIDE DEF piles
<1>2. /\ piles["deck"] = DeckCards(deck)
      /\ \A r \in Players : /\ piles[HandPile(r)] = hand[r]
                            /\ piles[SecretPile(r)] = secret[r]
                            /\ piles[ItemsPile(r)] = placed[r]
      /\ piles["discardPile"] = discardPile
      /\ piles["pendingAction"] = UNION pending.groups
  BY <1>1 DEF HandPile, SecretPile, ItemsPile, Players
<1>3. QED
  BY <1>2 DEF piles

LEMMA LaidDownIs ==
  ASSUME NEW p, NEW type, NEW cards
  PROVE  LaidDown(p, type, cards) =
           [hand |-> [hand EXCEPT ![p] = @ \ cards], secret |-> secret,
            used |-> [used EXCEPT ![p] = @ \cup {type}],
            placed |-> placed, discardPile |-> discardPile]
<1>. DEFINE l == LaidDown(p, type, cards)
<1>1. /\ l.hand = [hand EXCEPT ![p] = @ \ cards]
      /\ l.used = [used EXCEPT ![p] = @ \cup {type}]
      /\ l.secret = secret /\ l.placed = placed /\ l.discardPile = discardPile
  BY DEF LaidDown, Table
<1>2. l = [f \in {"hand", "secret", "used", "placed", "discardPile"} |-> l[f]]
  BY DEF LaidDown, Table
<1>. HIDE DEF l
<1>3. l = [hand |-> [hand EXCEPT ![p] = @ \ cards], secret |-> secret,
            used |-> [used EXCEPT ![p] = @ \cup {type}],
            placed |-> placed, discardPile |-> discardPile]
  BY <1>1, <1>2
<1>4. QED
  BY <1>3 DEF l

LEMMA SecretTable ==
  ASSUME AccountingInv, NEW p \in Players, NEW cards, MayPlay(p, "secret", cards)
  PROVE  TableInv([LaidDown(p, "secret", cards) EXCEPT !.secret[p] = cards])
<1>. DEFINE t == [LaidDown(p, "secret", cards) EXCEPT !.secret[p] = cards]
            piles == PilesOf(deck, Table, pending)
            after == Moved(piles, HandPile(p), SecretPile(p), cards)
            new == PilesOf(deck, t, NoPending)
<1>1. /\ SecretsPlayed /\ CardAccounting /\ pending = NoPending
      /\ cards \subseteq hand[p] /\ "secret" \in ActionTypes /\ "secret" \notin used[p]
      /\ Table \in Tables /\ piles \in [PileNames -> SUBSET Cards]
  BY PlayFacts
<1>2. /\ hand \in [Players -> SUBSET Cards] /\ secret \in [Players -> SUBSET Cards]
      /\ used \in [Players -> SUBSET ActionTypes] /\ placed \in [Players -> SUBSET Cards]
      /\ discardPile \subseteq Cards
  BY DEF AccountingInv, TypeOK
<1>3. t = [hand |-> [hand EXCEPT ![p] = @ \ cards], secret |-> [secret EXCEPT ![p] = cards],
           used |-> [used EXCEPT ![p] = @ \cup {"secret"}],
           placed |-> placed, discardPile |-> discardPile]
  <2>. DEFINE l == LaidDown(p, "secret", cards)
  <2>1. l = [hand |-> [hand EXCEPT ![p] = @ \ cards], secret |-> secret,
             used |-> [used EXCEPT ![p] = @ \cup {"secret"}],
             placed |-> placed, discardPile |-> discardPile]
    BY LaidDownIs
  <2>. HIDE DEF l
  <2>2. t = [l EXCEPT !.secret[p] = cards]
    BY DEF l
  <2>. HIDE DEF t
  <2>3. /\ t.hand = [hand EXCEPT ![p] = @ \ cards]
        /\ t.used = [used EXCEPT ![p] = @ \cup {"secret"}]
        /\ t.secret = [secret EXCEPT ![p] = cards]
        /\ t.placed = placed
        /\ t.discardPile = discardPile
    BY <2>1, <2>2
  <2>4. t = [f \in {"hand", "secret", "used", "placed", "discardPile"} |-> t[f]]
    BY <2>1, <2>2
  <2>5. QED
    BY <2>3, <2>4
<1>. HIDE DEF t
<1>4. t \in Tables
  BY <1>1, <1>2, <1>3 DEF Tables
<1>5. \A q \in Players : "secret" \notin t.used[q] => t.secret[q] = {}
  BY <1>1, <1>2, <1>3 DEF SecretsPlayed
<1>6. PICK hidden \in Cards : Accounted(piles, hidden)
  BY <1>1 DEF CardAccounting
<1>7. /\ piles["deck"] = DeckCards(deck)
      /\ \A r \in Players : /\ piles[HandPile(r)] = hand[r]
                            /\ piles[SecretPile(r)] = secret[r]
                            /\ piles[ItemsPile(r)] = placed[r]
      /\ piles["discardPile"] = discardPile
      /\ piles["pendingAction"] = UNION pending.groups
  BY PilesNow
<1>8. /\ new["deck"] = DeckCards(deck)
      /\ \A r \in Players : /\ new[HandPile(r)] = t.hand[r]
                            /\ new[SecretPile(r)] = t.secret[r]
                            /\ new[ItemsPile(r)] = t.placed[r]
      /\ new["discardPile"] = t.discardPile
      /\ new["pendingAction"] = {}
  <2>1. /\ new["deck"] = DeckCards(deck)
        /\ new["p1_hand"] = t.hand["p1"] /\ new["p2_hand"] = t.hand["p2"]
        /\ new["p1_secretCard"] = t.secret["p1"] /\ new["p2_secretCard"] = t.secret["p2"]
        /\ new["p1_items"] = t.placed["p1"] /\ new["p2_items"] = t.placed["p2"]
        /\ new["discardPile"] = t.discardPile
        /\ new["pendingAction"] = {}
    BY NoPendingType DEF PilesOf
  <2>. HIDE DEF new
  <2>2. QED
    BY <2>1 DEF HandPile, SecretPile, ItemsPile, Players
<1>9. new = [m \in PileNames |-> new[m]]
  BY DEF PilesOf, PileNames
<1>. HIDE DEF new, piles
<1>10. /\ after \in [PileNames -> SUBSET Cards] /\ Accounted(after, hidden)
       /\ after[HandPile(p)] = piles[HandPile(p)] \ cards
       /\ after[SecretPile(p)] = piles[SecretPile(p)] \cup cards
       /\ \A m \in PileNames \ {HandPile(p), SecretPile(p)} : after[m] = piles[m]
  BY <1>1, <1>6, <1>7, PileNamesOf, MovedPiles
<1>. HIDE DEF after
<1>11. piles[SecretPile(p)] = {}
  BY <1>1, <1>7 DEF SecretsPlayed
<1>12. \A r \in Players : /\ new[HandPile(r)] = after[HandPile(r)]
                          /\ new[SecretPile(r)] = after[SecretPile(r)]
                          /\ new[ItemsPile(r)] = after[ItemsPile(r)]
  <2>1. TAKE r \in Players
  <2>2. new[ItemsPile(r)] = after[ItemsPile(r)]
    <3>1. after[ItemsPile(r)] = piles[ItemsPile(r)]
      BY <1>10, PileNamesOf
    <3>2. QED
      BY <1>3, <1>7, <1>8, <3>1
  <2>3. CASE r = p
    BY <1>2, <1>3, <1>7, <1>8, <1>10, <1>11, <2>2, <2>3
  <2>4. CASE r # p
    <3>1. after[HandPile(r)] = piles[HandPile(r)] /\ after[SecretPile(r)] = piles[SecretPile(r)]
      BY <1>10, <2>4, PileNamesOf
    <3>2. QED
      BY <1>2, <1>3, <1>7, <1>8, <2>2, <2>4, <3>1
  <2>5. QED
    BY <2>3, <2>4
<1>13. /\ new["deck"] = after["deck"]
       /\ new["discardPile"] = after["discardPile"]
       /\ new["pendingAction"] = after["pendingAction"]
  <2>1. /\ after["deck"] = piles["deck"] /\ after["discardPile"] = piles["discardPile"]
        /\ after["pendingAction"] = piles["pendingAction"]
    BY <1>10, PileNamesOf
  <2>2. QED
    BY <1>1, <1>3, <1>7, <1>8, <2>1, NoPendingType
<1>14. new = after
  BY <1>9, <1>10, <1>12, <1>13, SamePiles
<1>15. QED
  BY <1>4, <1>5, <1>10, <1>14 DEF TableInv, new, t

LEMMA DiscardTable ==
  ASSUME AccountingInv, NEW p \in Players, NEW cards, MayPlay(p, "discard", cards)
  PROVE  TableInv([LaidDown(p, "discard", cards) EXCEPT !.discardPile = @ \cup cards])
<1>. DEFINE t == [LaidDown(p, "discard", cards) EXCEPT !.discardPile = @ \cup cards]
            piles == PilesOf(deck, Table, pending)
            after == Moved(piles, HandPile(p), "discardPile", cards)
            new == PilesOf(deck, t, NoPending)
<1>1. /\ SecretsPlayed /\ CardAccounting /\ pending = NoPending
      /\ cards \subseteq hand[p] /\ "discard" \in ActionTypes
      /\ Table \in Tables /\ piles \in [PileNames -> SUBSET Cards]
  BY PlayFacts
<1>2. /\ hand \in [Players -> SUBSET Cards] /\ secret \in [Players -> SUBSET Cards]
      /\ used \in [Players -> SUBSET ActionTypes] /\ placed \in [Players -> SUBSET Cards]
      /\ discardPile \subseteq Cards
  BY DEF AccountingInv, TypeOK
<1>3. t = [hand |-> [hand EXCEPT ![p] = @ \ cards], secret |-> secret,
           used |-> [used EXCEPT ![p] = @ \cup {"discard"}],
           placed |-> placed, discardPile |-> discardPile \cup cards]
  <2>. DEFINE l == LaidDown(p, "discard", cards)
  <2>1. l = [hand |-> [hand EXCEPT ![p] = @ \ cards], secret |-> secret,
             used |-> [used EXCEPT ![p] = @ \cup {"discard"}],
             placed |-> placed, discardPile |-> discardPile]
    BY LaidDownIs
  <2>. HIDE DEF l
  <2>2. t = [l EXCEPT !.discardPile = @ \cup cards]
    BY DEF l
  <2>. HIDE DEF t
  <2>3. /\ t.hand = [hand EXCEPT ![p] = @ \ cards]
        /\ t.used = [used EXCEPT ![p] = @ \cup {"discard"}]
        /\ t.secret = secret
        /\ t.placed = placed
        /\ t.discardPile = discardPile \cup cards
    BY <2>1, <2>2
  <2>4. t = [f \in {"hand", "secret", "used", "placed", "discardPile"} |-> t[f]]
    BY <2>1, <2>2
  <2>5. QED
    BY <2>3, <2>4
<1>. HIDE DEF t
<1>4. t \in Tables
  BY <1>1, <1>2, <1>3 DEF Tables
<1>5. \A q \in Players : "secret" \notin t.used[q] => t.secret[q] = {}
  BY <1>1, <1>2, <1>3 DEF SecretsPlayed
<1>6. PICK hidden \in Cards : Accounted(piles, hidden)
  BY <1>1 DEF CardAccounting
<1>7. /\ piles["deck"] = DeckCards(deck)
      /\ \A r \in Players : /\ piles[HandPile(r)] = hand[r]
                            /\ piles[SecretPile(r)] = secret[r]
                            /\ piles[ItemsPile(r)] = placed[r]
      /\ piles["discardPile"] = discardPile
      /\ piles["pendingAction"] = UNION pending.groups
  BY PilesNow
<1>8. /\ new["deck"] = DeckCards(deck)
      /\ \A r \in Players : /\ new[HandPile(r)] = t.hand[r]
                            /\ new[SecretPile(r)] = t.secret[r]
                            /\ new[ItemsPile(r)] = t.placed[r]
      /\ new["discardPile"] = t.discardPile
      /\ new["pendingAction"] = {}
  <2>1. /\ new["deck"] = DeckCards(deck)
        /\ new["p1_hand"] = t.hand["p1"] /\ new["p2_hand"] = t.hand["p2"]
        /\ new["p1_secretCard"] = t.secret["p1"] /\ new["p2_secretCard"] = t.secret["p2"]
        /\ new["p1_items"] = t.placed["p1"] /\ new["p2_items"] = t.placed["p2"]
        /\ new["discardPile"] = t.discardPile
        /\ new["pendingAction"] = {}
    BY NoPendingType DEF PilesOf
  <2>. HIDE DEF new
  <2>2. QED
    BY <2>1 DEF HandPile, SecretPile, ItemsPile, Players
<1>9. new = [m \in PileNames |-> new[m]]
  BY DEF PilesOf, PileNames
<1>. HIDE DEF new, piles
<1>10. /\ after \in [PileNames -> SUBSET Cards] /\ Accounted(after, hidden)
       /\ after[HandPile(p)] = piles[HandPile(p)] \ cards
       /\ after["discardPile"] = piles["discardPile"] \cup cards
       /\ \A m \in PileNames \ {HandPile(p), "discardPile"} : after[m] = piles[m]
  BY <1>1, <1>6, <1>7, PileNamesOf, MovedPiles
<1>. HIDE DEF after
<1>11. \A r \in Players : /\ new[HandPile(r)] = after[HandPile(r)]
                          /\ new[SecretPile(r)] = after[SecretPile(r)]
                          /\ new[ItemsPile(r)] = after[ItemsPile(r)]
  <2>1. TAKE r \in Players
  <2>2. /\ new[ItemsPile(r)] = after[ItemsPile(r)]
        /\ new[SecretPile(r)] = after[SecretPile(r)]
    <3>1. /\ after[ItemsPile(r)] = piles[ItemsPile(r)]
          /\ after[SecretPile(r)] = piles[SecretPile(r)]
      BY <1>10, PileNamesOf
    <3>2. QED
      BY <1>3, <1>7, <1>8, <3>1
  <2>3. CASE r = p
    BY <1>2, <1>3, <1>7, <1>8, <1>10, <2>2, <2>3
  <2>4. CASE r # p
    <3>1. after[HandPile(r)] = piles[HandPile(r)]
      BY <1>10, <2>4, PileNamesOf
    <3>2. QED
      BY <1>2, <1>3, <1>7, <1>8, <2>2, <2>4, <3>1
  <2>5. QED
    BY <2>3, <2>4
<1>12. /\ new["deck"] = after["deck"]
       /\ new["discardPile"] = after["discardPile"]
       /\ new["pendingAction"] = after["pendingAction"]
  <2>1. /\ after["deck"] = piles["deck"] /\ after["pendingAction"] = piles["pendingAction"]
    BY <1>10, PileNamesOf
  <2>2. t.discardPile = discardPile \cup cards
    BY <1>3
  <2>3. QED
    BY <1>1, <1>7, <1>8, <1>10, <2>1, <2>2, NoPendingType
<1>13. new = after
  <2>1. after = [m \in PileNames |-> after[m]]
    BY <1>10
  <2>2. QED
    BY <1>9, <1>11, <1>12, <2>1, SamePiles
<1>14. QED
  BY <1>4, <1>5, <1>10, <1>13 DEF TableInv, new, t

LEMMA OffersSplit ==
  ASSUME NEW type \in {"gift", "competition"}, NEW cards, NEW groups \in Offers(type, cards)
  PROVE  /\ UNION groups = cards
         /\ \A g, h \in groups : g # h => g \cap h = {}
<1>1. CASE type = "gift"
  <2>1. groups = {{c} : c \in cards}
    BY <1>1 DEF Offers
  <2>2. QED
    BY <2>1
<1>2. CASE type = "competition"
  <2>1. PICK pair \in SUBSET cards : groups = {pair, cards \ pair}
    BY <1>2 DEF Offers
  <2>2. QED
    BY <2>1
<1>3. QED
  BY <1>1, <1>2

LEMMA OfferInv ==
  ASSUME AccountingInv, NEW p \in Players, NEW type \in {"gift", "competition"}, NEW cards,
         PlayOffer(p, type, cards)
  PROVE  ChoicePhase' /\ SecretsPlayed' /\ CardAccounting'
<1>. DEFINE piles == PilesOf(deck, Table, pending)
            after == Moved(piles, HandPile(p), "pendingAction", cards)
            new == PilesOf(deck', Table', pending')
<1>0. MayPlay(p, type, cards)
  BY DEF PlayOffer
<1>1. /\ SecretsPlayed /\ CardAccounting /\ pending = NoPending
      /\ cards \subseteq hand[p] /\ piles \in [PileNames -> SUBSET Cards]
  BY <1>0, PlayFacts
<1>2. /\ hand \in [Players -> SUBSET Cards] /\ used \in [Players -> SUBSET ActionTypes]
  BY DEF AccountingInv, TypeOK
<1>3. /\ hand' = [hand EXCEPT ![p] = @ \ cards] /\ used' = [used EXCEPT ![p] = @ \cup {type}]
      /\ deck' = deck /\ secret' = secret /\ placed' = placed /\ discardPile' = discardPile
      /\ activePlayer' = Other(p) /\ phase' = PhaseForSelect(Other(p))
  BY LaidDownIs DEF PlayOffer
<1>4. PICK groups \in Offers(type, cards) :
        pending' = [type |-> type, initiator |-> p, chooser |-> Other(p), groups |-> groups]
  BY DEF PlayOffer
<1>5. /\ pending'.groups = groups /\ UNION groups = cards
      /\ \A g, h \in groups : g # h => g \cap h = {}
  BY <1>4, OffersSplit
<1>6. PICK hidden \in Cards : Accounted(piles, hidden)
  BY <1>1 DEF CardAccounting
<1>7. /\ piles["deck"] = DeckCards(deck)
      /\ \A r \in Players : /\ piles[HandPile(r)] = hand[r]
                            /\ piles[SecretPile(r)] = secret[r]
                            /\ piles[ItemsPile(r)] = placed[r]
      /\ piles["discardPile"] = discardPile
      /\ piles["pendingAction"] = UNION pending.groups
  BY PilesNow
<1>8. /\ new["deck"] = DeckCards(deck')
      /\ \A r \in Players : /\ new[HandPile(r)] = hand'[r]
                            /\ new[SecretPile(r)] = secret'[r]
                            /\ new[ItemsPile(r)] = placed'[r]
      /\ new["discardPile"] = discardPile'
      /\ new["pendingAction"] = cards
  <2>1. /\ new["deck"] = DeckCards(deck')
        /\ new["p1_hand"] = hand'["p1"] /\ new["p2_hand"] = hand'["p2"]
        /\ new["p1_secretCard"] = secret'["p1"] /\ new["p2_secretCard"] = secret'["p2"]
        /\ new["p1_items"] = placed'["p1"] /\ new["p2_items"] = placed'["p2"]
        /\ new["discardPile"] = discardPile'
        /\ new["pendingAction"] = UNION pending'.groups
    BY DEF PilesOf, Table
  <2>. HIDE DEF new
  <2>2. QED
    BY <1>5, <2>1 DEF HandPile, SecretPile, ItemsPile, Players
<1>9. new = [m \in PileNames |-> new[m]]
  BY DEF PilesOf, PileNames
<1>. HIDE DEF new, piles
<1>10. /\ after \in [PileNames -> SUBSET Cards] /\ Accounted(after, hidden)
       /\ after[HandPile(p)] = piles[HandPile(p)] \ cards
       /\ after["pendingAction"] = piles["pendingAction"] \cup cards
       /\ \A m \in PileNames \ {HandPile(p), "pendingAction"} : after[m] = piles[m]
  BY <1>1, <1>6, <1>7, PileNamesOf, MovedPiles
<1>. HIDE DEF after
<1>11. \A r \in Players : /\ new[HandPile(r)] = after[HandPile(r)]
                          /\ new[SecretPile(r)] = after[SecretPile(r)]
                          /\ new[ItemsPile(r)] = after[ItemsPile(r)]
  <2>1. TAKE r \in Players
  <2>2. /\ new[ItemsPile(r)] = after[ItemsPile(r)]
        /\ new[SecretPile(r)] = after[SecretPile(r)]
    <3>1. /\ after[ItemsPile(r)] = piles[ItemsPile(r)]
          /\ after[SecretPile(r)] = piles[SecretPile(r)]
      BY <1>10, PileNamesOf
    <3>2. QED
      BY <1>3, <1>7, <1>8, <3>1
  <2>3. CASE r = p
    BY <1>2, <1>3, <1>7, <1>8, <1>10, <2>2, <2>3
  <2>4. CASE r # p
    <3>1. after[HandPile(r)] = piles[HandPile(r)]
      BY <1>10, <2>4, PileNamesOf
    <3>2. QED
      BY <1>2, <1>3, <1>7, <1>8, <2>2, <2>4, <3>1
  <2>5. QED
    BY <2>3, <2>4
<1>12. /\ new["deck"] = after["deck"]
       /\ new["discardPile"] = after["discardPile"]
       /\ new["pendingAction"] = after["pendingAction"]
  <2>1. /\ after["deck"] = piles["deck"] /\ after["discardPile"] = piles["discardPile"]
    BY <1>10, PileNamesOf
  <2>2. piles["pendingAction"] = {}
    BY <1>1, <1>7, NoPendingType
  <2>3. QED
    BY <1>3, <1>7, <1>8, <1>10, <2>1, <2>2
<1>13. new = after
  <2>1. after = [m \in PileNames |-> after[m]]
    BY <1>10
  <2>2. QED
    BY <1>9, <1>11, <1>12, <2>1, SamePiles
<1>14. CardAccounting'
  BY <1>1, <1>3, <1>5, <1>10, <1>13 DEF CardAccounting, new
<1>15. SecretsPlayed'
  BY <1>1, <1>2, <1>3 DEF SecretsPlayed
<1>16. ChoicePhase'
  <2>1. /\ pending'.chooser = Other(p) /\ pending'.initiator = p /\ pending'.type = type
    BY <1>4
  <2>2. pending' # NoPending
    BY <2>1 DEF NoPending
  <2>3. Other(p) \in Players /\ Other(Other(p)) = p
    BY DEF Other, Players
  <2>4. QED
    BY <1>3, <2>1, <2>2, <2>3 DEF ChoicePhase
<1>17. QED
  BY <1>14, <1>15, <1>16

LEMMA ChoiceTable ==
  ASSUME AccountingInv, NEW p \in Players, NEW chosen, Resolve(p, chosen)
  PROVE  TableInv(Divided(p, chosen))
<1>. DEFINE rest == UNION (pending.groups \ {chosen})
            t == [Table EXCEPT !.placed[p] = @ \cup chosen,
                               !.placed[pending.initiator] = @ \cup rest]
            piles == PilesOf(deck, Table, pending)
            half == Moved(piles, "pendingAction", ItemsPile(p), chosen)
            after == Moved(half, "pendingAction", ItemsPile(Other(p)), rest)
            new == PilesOf(deck, t, NoPending)
<1>1. TypeOK /\ ChoicePhase /\ SecretsPlayed /\ CardAccounting
  BY DEF AccountingInv
<1>2. /\ chosen \in pending.groups /\ pending.initiator = Other(p)
      /\ Other(p) \in Players /\ Other(p) # p /\ \A r \in Players : r = p \/ r = Other(p)
  BY <1>1 DEF Resolve, ChoicePhase, Other, Players
<1>3. /\ hand \in [Players -> SUBSET Cards] /\ secret \in [Players -> SUBSET Cards]
      /\ used \in [Players -> SUBSET ActionTypes] /\ placed \in [Players -> SUBSET Cards]
      /\ discardPile \subseteq Cards /\ Table \in Tables
      /\ pending.groups \in SUBSET SUBSET Cards
      /\ piles \in [PileNames -> SUBSET Cards]
  BY <1>1, PilesType, TableType DEF TypeOK, PendingGames
<1>4. /\ UNION pending.groups = chosen \cup rest /\ chosen \cap rest = {}
      /\ chosen \subseteq Cards /\ rest \subseteq Cards
  BY <1>1, <1>2, <1>3 DEF CardAccounting
<1>. HIDE DEF rest
<1>5. t = [hand |-> hand, secret |-> secret, used |-> used,
           placed |-> [placed EXCEPT ![p] = @ \cup chosen, ![Other(p)] = @ \cup rest],
           discardPile |-> discardPile]
  <2>1. /\ t.hand = hand /\ t.used = used /\ t.secret = secret /\ t.discardPile = discardPile
        /\ t.placed = [placed EXCEPT ![p] = @ \cup chosen, ![Other(p)] = @ \cup rest]
    BY <1>2 DEF Table
  <2>2. t = [f \in {"hand", "secret", "used", "placed", "discardPile"} |-> t[f]]
    BY DEF Table
  <2>. HIDE DEF t
  <2>3. QED
    BY <2>1, <2>2
<1>. HIDE DEF t
<1>6. t \in Tables
  BY <1>2, <1>3, <1>4, <1>5 DEF Tables
<1>7. \A q \in Players : "secret" \notin t.used[q] => t.secret[q] = {}
  BY <1>1, <1>5 DEF SecretsPlayed
<1>8. PICK hidden \in Cards : Accounted(piles, hidden)
  BY <1>1 DEF CardAccounting
<1>9. /\ piles["deck"] = DeckCards(deck)
      /\ \A r \in Players : /\ piles[HandPile(r)] = hand[r]
                            /\ piles[SecretPile(r)] = secret[r]
                            /\ piles[ItemsPile(r)] = placed[r]
      /\ piles["discardPile"] = discardPile
      /\ piles["pendingAction"] = UNION pending.groups
  BY PilesNow
<1>10. /\ new["deck"] = DeckCards(deck)
       /\ \A r \in Players : /\ new[HandPile(r)] = t.hand[r]
                             /\ new[SecretPile(r)] = t.secret[r]
                             /\ new[ItemsPile(r)] = t.placed[r]
       /\ new["discardPile"] = t.discardPile
       /\ new["pendingAction"] = {}
  <2>1. /\ new["deck"] = DeckCards(deck)
        /\ new["p1_hand"] = t.hand["p1"] /\ new["p2_hand"] = t.hand["p2"]
        /\ new["p1_secretCard"] = t.secret["p1"] /\ new["p2_secretCard"] = t.secret["p2"]
        /\ new["p1_items"] = t.placed["p1"] /\ new["p2_items"] = t.placed["p2"]
        /\ new["discardPile"] = t.discardPile
        /\ new["pendingAction"] = {}
    BY NoPendingType DEF PilesOf
  <2>. HIDE DEF new
  <2>2. QED
    BY <2>1 DEF HandPile, SecretPile, ItemsPile, Players
<1>11. new = [m \in PileNames |-> new[m]]
  BY DEF PilesOf, PileNames
<1>. HIDE DEF new, piles
<1>12. /\ half \in [PileNames -> SUBSET Cards] /\ Accounted(half, hidden)
       /\ half["pendingAction"] = piles["pendingAction"] \ chosen
       /\ half[ItemsPile(p)] = piles[ItemsPile(p)] \cup chosen
       /\ \A m \in PileNames \ {"pendingAction", ItemsPile(p)} : half[m] = piles[m]
  BY <1>3, <1>4, <1>8, <1>9, PileNamesOf, MovedPiles
<1>. HIDE DEF half
<1>13. rest \subseteq half["pendingAction"]
  BY <1>4, <1>9, <1>12
<1>14. /\ after \in [PileNames -> SUBSET Cards] /\ Accounted(after, hidden)
       /\ after["pendingAction"] = half["pendingAction"] \ rest
       /\ after[ItemsPile(Other(p))] = half[ItemsPile(Other(p))] \cup rest
       /\ \A m \in PileNames \ {"pendingAction", ItemsPile(Other(p))} : after[m] = half[m]
  BY <1>2, <1>8, <1>12, <1>13, PileNamesOf, MovedPiles
<1>. HIDE DEF after
<1>15. \A r \in Players : /\ new[HandPile(r)] = after[HandPile(r)]
                          /\ new[SecretPile(r)] = after[SecretPile(r)]
                          /\ new[ItemsPile(r)] = after[ItemsPile(r)]
  <2>1. TAKE r \in Players
  <2>2. /\ new[HandPile(r)] = after[HandPile(r)]
        /\ new[SecretPile(r)] = after[SecretPile(r)]
    <3>1. /\ half[HandPile(r)] = piles[HandPile(r)]
          /\ half[SecretPile(r)] = piles[SecretPile(r)]
      BY <1>12, PileNamesOf
    <3>2. /\ after[HandPile(r)] = half[HandPile(r)]
          /\ after[SecretPile(r)] = half[SecretPile(r)]
      BY <1>2, <1>14, PileNamesOf
    <3>3. QED
      BY <1>5, <1>9, <1>10, <3>1, <3>2
  <2>3. CASE r = p
    <3>1. after[ItemsPile(p)] = half[ItemsPile(p)]
      BY <1>2, <1>14, PileNamesOf
    <3>2. t.placed[p] = placed[p] \cup chosen
      BY <1>2, <1>3, <1>5
    <3>3. QED
      BY <1>9, <1>10, <1>12, <2>2, <2>3, <3>1, <3>2
  <2>4. CASE r = Other(p)
    <3>1. half[ItemsPile(r)] = piles[ItemsPile(r)]
      BY <1>2, <1>12, <2>4, PileNamesOf
    <3>2. t.placed[r] = placed[r] \cup rest
      BY <1>2, <1>3, <1>5, <2>4
    <3>3. after[ItemsPile(r)] = half[ItemsPile(r)] \cup rest
      BY <1>14, <2>4
    <3>4. piles[ItemsPile(r)] = placed[r] /\ new[ItemsPile(r)] = t.placed[r]
      BY <1>9, <1>10
    <3>5. new[ItemsPile(r)] = after[ItemsPile(r)]
      BY <3>1, <3>2, <3>3, <3>4
    <3>6. QED
      BY <2>2, <3>5
  <2>5. QED
    BY <1>2, <2>3, <2>4
<1>16. /\ new["deck"] = after["deck"]
       /\ new["discardPile"] = after["discardPile"]
       /\ new["pendingAction"] = after["pendingAction"]
  <2>1. /\ half["deck"] = piles["deck"] /\ half["discardPile"] = piles["discardPile"]
        /\ after["deck"] = half["deck"] /\ after["discardPile"] = half["discardPile"]
    BY <1>2, <1>12, <1>14, PileNamesOf
  <2>2. after["pendingAction"] = {}
    BY <1>4, <1>9, <1>12, <1>14
  <2>3. t.discardPile = discardPile
    BY <1>5
  <2>4. QED
    BY <1>9, <1>10, <2>1, <2>2, <2>3
<1>17. new = after
  <2>1. after = [m \in PileNames |-> after[m]]
    BY <1>14
  <2>2. QED
    BY <1>11, <1>15, <1>16, <2>1, SamePiles
<1>18. TableInv(t)
  BY <1>6, <1>7, <1>14, <1>17 DEF TableInv, new
<1>19. QED
  BY <1>18 DEF t, rest, Divided

-----------------------------------------------------------------------------
LEMMA InitAccounting == Init => AccountingInv
<1>. SUFFICES ASSUME Init PROVE AccountingInv
  OBVIOUS
<1>1. PICK s \in Shuffles : /\ deck = DealtDeck(s)
                            /\ hand = [p \in Players |-> DealtHand(s, p)]
  BY DEF Init
<1>2. Table = DealtTable(s) /\ pending = NoPending
  BY <1>1 DEF Init, Table, DealtTable
<1>3. CardAccounting
  BY <1>1, <1>2, DealAccounted, NoPendingType DEF CardAccounting
<1>4. SecretsPlayed
  BY DEF Init, SecretsPlayed
<1>5. ChoicePhase
  BY <1>2, PhasesDiffer DEF Init, ChoicePhase, Players
<1>6. QED
  BY <1>3, <1>4, <1>5, InitType DEF AccountingInv

LEMMA StepAccounting ==
  ASSUME AccountingInv, Next
  PROVE  ChoicePhase' /\ SecretsPlayed' /\ CardAccounting'
<1>1. PICK p \in Players :
        \/ Draw(p)
        \/ \E cards \in SUBSET hand[p] :
              \/ PlaySecret(p, cards)
              \/ PlayDiscard(p, cards)
              \/ \E type \in {"gift", "competition"} : PlayOffer(p, type, cards)
        \/ \E chosen \in pending.groups : Resolve(p, chosen)
  BY DEF Next
<1>2. TypeOK /\ CardAccounting /\ p \in Players /\ Other(p) \in Players
  BY PlayersFacts DEF AccountingInv
<1>3. CASE Draw(p)
  BY <1>3, DrawInv
<1>4. ASSUME NEW cards, PlaySecret(p, cards)
      PROVE  ChoicePhase' /\ SecretsPlayed' /\ CardAccounting'
  <2>. DEFINE t == [LaidDown(p, "secret", cards) EXCEPT !.secret[p] = cards]
  <2>1. TableInv(t) /\ AdvanceAfterCompletedAction(t, Other(p))
    BY <1>4, SecretTable DEF PlaySecret
  <2>. HIDE DEF t
  <2>2. QED
    BY <1>2, <2>1, AdvanceInv
<1>5. ASSUME NEW cards, PlayDiscard(p, cards)
      PROVE  ChoicePhase' /\ SecretsPlayed' /\ CardAccounting'
  <2>. DEFINE t == [LaidDown(p, "discard", cards) EXCEPT !.discardPile = @ \cup cards]
  <2>1. TableInv(t) /\ AdvanceAfterCompletedAction(t, Other(p))
    BY <1>5, DiscardTable DEF PlayDiscard
  <2>. HIDE DEF t
  <2>2. QED
    BY <1>2, <2>1, AdvanceInv
<1>6. ASSUME NEW chosen, Resolve(p, chosen)
      PROVE  ChoicePhase' /\ SecretsPlayed' /\ CardAccounting'
  <2>. DEFINE t == Divided(p, chosen)
  <2>1. TableInv(t) /\ AdvanceAfterCompletedAction(t, p)
    BY <1>6, ChoiceTable DEF Resolve
  <2>. HIDE DEF t
  <2>2. QED
    BY <1>2, <2>1, AdvanceInv
<1>7. QED
  BY <1>1, <1>3, <1>4, <1>5, <1>6, OfferInv

\* What the piles rest on.
LEMMA AccountingHolds == Spec => []AccountingInv
<1>1. ASSUME AccountingInv, Next PROVE AccountingInv'
  <2>1. TypeOK'
    <3>1. TypeOK /\ [Next]_vars
      BY <1>1 DEF AccountingInv
    <3>2. QED
      BY <3>1, StepType, <1>1
  <2>2. QED
    BY <1>1, <2>1, StepAccounting DEF AccountingInv
<1>2. ASSUME AccountingInv, UNCHANGED vars PROVE AccountingInv'
  <2>1. TypeOK' /\ ChoicePhase' /\ SecretsPlayed'
    BY <1>2 DEF AccountingInv, TypeOK, ChoicePhase, SecretsPlayed, vars
  <2>2. Table' = Table /\ deck' = deck /\ pending' = pending
    BY <1>2 DEF vars, Table
  <2>3. CardAccounting'
    BY <1>2, <2>2 DEF AccountingInv, CardAccounting
  <2>4. QED
    BY <2>1, <2>3 DEF AccountingInv
<1>3. QED
  BY InitAccounting, <1>1, <1>2, PTL DEF Spec

(* No card is ever in two places and none is lost, whatever the cards, the *)
(* deals, the goals and the number of rounds: the accounting invariant of  *)
(* the reducer holds in every reachable state.                             *)
THEOREM CardsAccounted == Spec => []CardAccounting
<1>1. AccountingInv => CardAccounting
  BY DEF AccountingInv
<1>2. QED
  BY <1>1, AccountingHolds, PTL


-----------------------------------------------------------------------------
(* Turns and rounds: how many actions are used and left.                   *)

Types == {"secret", "discard", "gift", "competition"}

LEMMA ActionCount ==
  ASSUME NEW T \in SUBSET Types, NEW U \in SUBSET T
  PROVE  /\ ActionsIn(T) \in Nat /\ ActionsIn(U) \in Nat
         /\ ActionsIn(T \ U) = ActionsIn(T) - ActionsIn(U)
         /\ ActionsIn(U) <= ActionsIn(T)
         /\ ActionsIn(T \ U) = 0 <=> T \ U = {}
<1> DEFINE W(S, a) == IF a \in S THEN 1 ELSE 0
<1>1. \A S : ActionsIn(S) = W(S, "secret") + W(S, "discard") + W(S, "gift")
                              + W(S, "competition")
  BY DEF ActionsIn, Weigh
<1>2. \A a \in Types : W(T, a) \in 0..1 /\ W(U, a) \in 0..1 /\ W(U, a) <= W(T, a)
                       /\ W(T \ U, a) = W(T, a) - W(U, a)
                       /\ (W(T \ U, a) = 0 <=> a \notin T \ U)
  OBVIOUS
<1> HIDE DEF W
<1>3. T \ U = {} <=> \A a \in Types : a \notin T \ U
  OBVIOUS
<1>4. /\ W(T, "secret") \in 0..1 /\ W(U, "secret") \in 0..1 /\ W(U, "secret") <= W(T, "secret")
      /\ W(T \ U, "secret") = W(T, "secret") - W(U, "secret")
      /\ W(T, "discard") \in 0..1 /\ W(U, "discard") \in 0..1 /\ W(U, "discard") <= W(T, "discard")
      /\ W(T \ U, "discard") = W(T, "discard") - W(U, "discard")
  BY <1>2 DEF Types
<1>5. /\ W(T, "gift") \in 0..1 /\ W(U, "gift") \in 0..1 /\ W(U, "gift") <= W(T, "gift")
      /\ W(T \ U, "gift") = W(T, "gift") - W(U, "gift")
      /\ W(T, "competition") \in 0..1 /\ W(U, "competition") \in 0..1
      /\ W(U, "competition") <= W(T, "competition")
      /\ W(T \ U, "competition") = W(T, "competition") - W(U, "competition")
  BY <1>2 DEF Types
<1>6. /\ ActionsIn(T) = W(T, "secret") + W(T, "discard") + W(T, "gift") + W(T, "competition")
      /\ ActionsIn(U) = W(U, "secret") + W(U, "discard") + W(U, "gift") + W(U, "competition")
      /\ ActionsIn(T \ U) = W(T \ U, "secret") + W(T \ U, "discard") + W(T \ U, "gift")
                              + W(T \ U, "competition")
  BY <1>1
<1>7. T \ U = {} <=> /\ W(T \ U, "secret") = 0 /\ W(T \ U, "discard") = 0
                     /\ W(T \ U, "gift") = 0 /\ W(T \ U, "competition") = 0
  BY <1>2, <1>3 DEF Types
<1>8. W(T \ U, "secret") \in 0..1 /\ W(T \ U, "discard") \in 0..1
      /\ W(T \ U, "gift") \in 0..1 /\ W(T \ U, "competition") \in 0..1
  BY <1>4, <1>5
<1>9. ActionsIn(T \ U) = 0 <=> T \ U = {}
  <2>1. ASSUME NEW a \in 0..1, NEW b \in 0..1, NEW c \in 0..1, NEW d \in 0..1
        PROVE  a + b + c + d = 0 <=> (a = 0 /\ b = 0 /\ c = 0 /\ d = 0)
    OBVIOUS
  <2>2. ActionsIn(T \ U) = 0 <=> /\ W(T \ U, "secret") = 0 /\ W(T \ U, "discard") = 0
                                 /\ W(T \ U, "gift") = 0 /\ W(T \ U, "competition") = 0
    BY <1>6, <1>8, <2>1
  <2>3. QED
    BY <1>7, <2>2
<1>10. /\ ActionsIn(T) \in Nat /\ ActionsIn(U) \in Nat /\ ActionsIn(U) <= ActionsIn(T)
       /\ ActionsIn(T \ U) = ActionsIn(T) - ActionsIn(U)
  <2>1. /\ W(T, "secret") \in Nat /\ W(T, "discard") \in Nat /\ W(T, "gift") \in Nat
        /\ W(T, "competition") \in Nat
    BY <1>4, <1>5
  <2>2. /\ W(U, "secret") \in Nat /\ W(U, "discard") \in Nat /\ W(U, "gift") \in Nat
        /\ W(U, "competition") \in Nat
    BY <1>4, <1>5
  <2>3. ASSUME NEW a \in Nat, NEW b \in Nat, NEW c \in Nat, NEW d \in Nat,
               NEW e \in Nat, NEW f \in Nat, NEW g \in Nat, NEW h \in Nat
        PROVE  (a - e) + (b - f) + (c - g) + (d - h) = (a + b + c + d) - (e + f + g + h)
    OBVIOUS
  <2>4. ActionsIn(T \ U) = ActionsIn(T) - ActionsIn(U)
    BY <1>4, <1>5, <1>6, <2>1, <2>2, <2>3
  <2>5. ActionsIn(T) \in Nat /\ ActionsIn(U) \in Nat
    BY <1>6, <2>1, <2>2
  <2>6. ASSUME NEW a \in Nat, NEW b \in Nat, NEW c \in Nat, NEW d \in Nat,
               NEW e \in Nat, NEW f \in Nat, NEW g \in Nat, NEW h \in Nat,
               e <= a, f <= b, g <= c, h <= d
        PROVE  e + f + g + h <= a + b + c + d
    <3>1. e + f <= a + b /\ e + f \in Nat /\ a + b \in Nat
      BY <2>6
    <3>2. g + h <= c + d /\ g + h \in Nat /\ c + d \in Nat
      BY <2>6
    <3>3. (e + f) + (g + h) <= (a + b) + (c + d)
      BY <3>1, <3>2
    <3>4. QED
      BY <3>3
  <2>7. ActionsIn(U) <= ActionsIn(T)
    BY <1>4, <1>5, <1>6, <2>1, <2>2, <2>6
  <2>8. QED
    BY <2>4, <2>5, <2>7
<1>11. QED
  BY <1>9, <1>10

LEMMA ActionUsed ==
  ASSUME NEW U, NEW type \in Types, type \notin U
  PROVE  ActionsIn(U \cup {type}) = ActionsIn(U) + 1
BY DEF ActionsIn, Weigh, Types

\* p is to move, and with what the players have used it is p's turn.
Turn(u, p) ==
  ActionsIn(u[Other(p)]) = ActionsIn(u[p]) + IF FirstPlayer(round) = p THEN 0 ELSE 1

TurnInv == TypeOK /\ TurnsAlternate

(* A round that goes on goes on with a player who has an action left.      *)
LEMMA AdvanceTurns ==
  ASSUME TypeOK, NEW t \in Tables, NEW p \in Players, Turn(t.used, p),
         AdvanceAfterCompletedAction(t, p)
  PROVE  TurnsAlternate'
<1> DEFINE q == Other(p)
<1>1. /\ q \in Players /\ q # p /\ Other(q) = p /\ \A r \in Players : r = p \/ r = q
      /\ t.used[p] \in SUBSET ActionTypes /\ t.used[q] \in SUBSET ActionTypes
      /\ ActionTypes \in SUBSET Types
  BY EngineAssumption DEF Players, Other, Tables, Types
<1>2. CASE ShouldEndRound(t)
  <2>1. CASE phase' = "game_over"
    BY <2>1 DEF TurnsAlternate
  <2>2. CASE StartNextRound
    <3>1. /\ used' = [r \in Players |-> {}] /\ activePlayer' = FirstPlayer(round')
          /\ phase' = PhaseForDraw(activePlayer') /\ round' \in Nat
      BY <2>2, EngineAssumption DEF StartNextRound, Lay, FreshTable, TypeOK
    <3>2. activePlayer' \in Players /\ Other(activePlayer') \in Players
      BY <3>1, PlayersFacts
    <3>3. ActionTypes \ {} # {} /\ ActionsIn({}) = 0
      BY DealAssumption DEF ActionsIn, Weigh
    <3>4. QED
      BY <3>1, <3>2, <3>3 DEF TurnsAlternate
  <2>3. QED
    BY <1>2, <2>1, <2>2 DEF AdvanceAfterCompletedAction, FinishRound, EndMatch
<1>3. CASE ~ShouldEndRound(t)
  <2>1. /\ used' = t.used /\ activePlayer' = p /\ phase' = PhaseForDraw(p) /\ round' = round
    BY <1>3 DEF AdvanceAfterCompletedAction, NextTurn, Lay
  <2>2. ActionTypes \ t.used[p] # {}
    <3>1. ASSUME ActionTypes \ t.used[p] = {}
          PROVE  FALSE
      <4>1. /\ ActionsIn(ActionTypes \ t.used[p]) = 0
            /\ ActionsIn(ActionTypes \ t.used[p]) = ActionsIn(ActionTypes) - ActionsIn(t.used[p])
            /\ ActionsIn(ActionTypes) \in Nat /\ ActionsIn(t.used[p]) \in Nat
        BY <1>1, <3>1, ActionCount
      <4>2. /\ ActionsIn(ActionTypes \ t.used[q]) = ActionsIn(ActionTypes) - ActionsIn(t.used[q])
            /\ ActionsIn(t.used[q]) <= ActionsIn(ActionTypes) /\ ActionsIn(t.used[q]) \in Nat
        BY <1>1, ActionCount
      <4>3. ActionsIn(t.used[q]) >= ActionsIn(t.used[p])
        BY <4>1, <4>2 DEF Turn
      <4>4. ActionsIn(ActionTypes \ t.used[q]) = 0
        BY <4>1, <4>2, <4>3
      <4>5. QED
        BY <1>1, <1>3, <4>1, <4>4 DEF ShouldEndRound
    <3>2. QED
      BY <3>1
  <2>3. QED
    BY <2>1, <2>2 DEF TurnsAlternate, Turn
<1>4. QED
  BY <1>2, <1>3

\* What applyGift and applyCompetition leave is a table.
LEMMA ResolveTable ==
  ASSUME TypeOK, NEW p \in Players, NEW chosen \in pending.groups
  PROVE  /\ Divided(p, chosen) \in Tables
         /\ Divided(p, chosen).used = used /\ Divided(p, chosen).secret = secret
         /\ Divided(p, chosen).discardPile = discardPile
         /\ \A r \in Players : placed[r] \subseteq Divided(p, chosen).placed[r]
<1> DEFINE rest == UNION (pending.groups \ {chosen})
           t == [Table EXCEPT !.placed[p] = @ \cup chosen,
                              !.placed[pending.initiator] = @ \cup rest]
<1>1. chosen \in SUBSET Cards /\ rest \in SUBSET Cards
  BY DEF TypeOK, PendingGames
<1>2. Table \in Tables
  BY DEF TypeOK, Table, Tables
<1> HIDE DEF rest
<1>3. t \in Tables
  BY <1>1, <1>2 DEF Tables
<1>4. /\ t.used = used /\ t.secret = secret /\ t.discardPile = discardPile
      /\ t.placed = [placed EXCEPT ![p] = @ \cup chosen, ![pending.initiator] = @ \cup rest]
  BY DEF Table
<1>5. ASSUME NEW r \in Players
      PROVE  placed[r] \subseteq t.placed[r]
  <2> DEFINE i == pending.initiator
  <2>1. placed \in [Players -> SUBSET Cards]
    BY DEF TypeOK
  <2>2. t.placed = [placed EXCEPT ![p] = @ \cup chosen, ![i] = @ \cup rest]
    BY <1>4
  <2> HIDE DEF t, i
  <2>3. CASE r = i
    BY <2>1, <2>2, <2>3
  <2>4. CASE r # i
    BY <2>1, <2>2, <2>4
  <2>5. QED
    BY <2>3, <2>4
<1>6. Divided(p, chosen) = t
  BY DEF Divided, rest
<1> HIDE DEF t
<1>7. QED
  BY <1>3, <1>4, <1>5, <1>6

\* What is known of whoever draws, plays or chooses.
LEMMA MoversTurn ==
  ASSUME TurnInv, NEW p \in Players, activePlayer = p, phase # "game_over"
  PROVE  Turn(used, p)
BY DEF TurnInv, TurnsAlternate, Turn

LEMMA TurnPasses ==
  ASSUME TurnInv, NEW p \in Players, NEW type, NEW cards, MayPlay(p, type, cards), NEW u,
         u = [used EXCEPT ![p] = @ \cup {type}]
  PROVE  Turn(u, Other(p))
<1> DEFINE q == Other(p)
<1>1. /\ q \in Players /\ q # p /\ Other(q) = p /\ \A r \in Players : r = p \/ r = q
      /\ type \in Types /\ type \notin used[p] /\ phase # "game_over" /\ activePlayer = p
      /\ used \in [Players -> SUBSET ActionTypes] /\ round \in Nat
  BY EngineAssumption DEF Players, Other, MayPlay, TurnInv, TypeOK, Types, PhaseForAction
<1>2. Turn(used, p)
  BY <1>1, MoversTurn
<1>3. /\ u[p] = used[p] \cup {type} /\ u[q] = used[q]
      /\ ActionsIn(u[p]) = ActionsIn(used[p]) + 1
  BY <1>1, ActionUsed
<1>4. ActionsIn(used[p]) \in Nat /\ ActionsIn(used[q]) \in Nat
  BY <1>1, ActionCount, EngineAssumption DEF Types
<1>5. FirstPlayer(round) = p \/ FirstPlayer(round) = q
  BY <1>1, PlayersFacts
<1>6. QED
  BY <1>1, <1>2, <1>3, <1>4, <1>5 DEF Turn

LEMMA StepTurns ==
  ASSUME TurnInv, Next
  PROVE  TurnsAlternate'
<1>1. PICK p \in Players :
        \/ Draw(p)
        \/ \E cards \in SUBSET hand[p] :
              \/ PlaySecret(p, cards)
              \/ PlayDiscard(p, cards)
              \/ \E type \in {"gift", "competition"} : PlayOffer(p, type, cards)
        \/ \E chosen \in pending.groups : Resolve(p, chosen)
  BY DEF Next
<1>2. /\ TypeOK /\ TurnsAlternate /\ Other(p) \in Players /\ Other(p) # p
      /\ Other(Other(p)) = p
  BY PlayersFacts DEF TurnInv
<1>3. CASE Draw(p)
  BY <1>3, PhasesDiffer DEF Draw, TurnInv, TurnsAlternate, PhaseForDraw, PhaseForSelect,
     PhaseForAction
<1>4. ASSUME NEW cards, PlaySecret(p, cards)
      PROVE  TurnsAlternate'
  <2> DEFINE l == LaidDown(p, "secret", cards)
             t == [l EXCEPT !.secret[p] = cards]
  <2>1. MayPlay(p, "secret", cards) /\ AdvanceAfterCompletedAction(t, Other(p))
    BY <1>4 DEF PlaySecret
  <2>2. t.used = [used EXCEPT ![p] = @ \cup {"secret"}]
    BY LaidDownIs
  <2>3. cards \in SUBSET Cards /\ l \in Tables
    BY <1>2, <2>1, LaidDownType DEF MayPlay, TypeOK
  <2> HIDE DEF l
  <2>5. t \in Tables
    BY <2>3 DEF Tables
  <2> HIDE DEF t
  <2>4. QED
    BY <1>2, <2>1, <2>2, <2>5, TurnPasses, AdvanceTurns
<1>5. ASSUME NEW cards, PlayDiscard(p, cards)
      PROVE  TurnsAlternate'
  <2> DEFINE l == LaidDown(p, "discard", cards)
             t == [l EXCEPT !.discardPile = @ \cup cards]
  <2>1. MayPlay(p, "discard", cards) /\ AdvanceAfterCompletedAction(t, Other(p))
    BY <1>5 DEF PlayDiscard
  <2>2. t.used = [used EXCEPT ![p] = @ \cup {"discard"}]
    BY LaidDownIs
  <2>3. cards \in SUBSET Cards /\ l \in Tables
    BY <1>2, <2>1, LaidDownType DEF MayPlay, TypeOK
  <2> HIDE DEF l
  <2>5. t \in Tables
    BY <2>3 DEF Tables
  <2> HIDE DEF t
  <2>4. QED
    BY <1>2, <2>1, <2>2, <2>5, TurnPasses, AdvanceTurns
<1>6. ASSUME NEW type, NEW cards, PlayOffer(p, type, cards)
      PROVE  TurnsAlternate'
  <2>1. /\ MayPlay(p, type, cards) /\ activePlayer' = Other(p) /\ round' = round
        /\ phase' = PhaseForSelect(Other(p)) /\ used' = LaidDown(p, type, cards).used
    BY <1>6 DEF PlayOffer
  <2>2. used' = [used EXCEPT ![p] = @ \cup {type}]
    BY <2>1, LaidDownIs
  <2>3. Turn(used', Other(p))
    BY <2>1, <2>2, TurnPasses
  <2>4. QED
    BY <2>1, <2>3 DEF TurnsAlternate, Turn
<1>7. ASSUME NEW chosen, Resolve(p, chosen)
      PROVE  TurnsAlternate'
  <2> DEFINE t == Divided(p, chosen)
  <2>1. /\ AdvanceAfterCompletedAction(t, p) /\ activePlayer = p /\ phase # "game_over"
    BY <1>7, PhasesDiffer DEF Resolve
  <2>2. t.used = used /\ t \in Tables
    BY <1>2, <1>7, ResolveTable DEF Resolve
  <2>3. Turn(used, p)
    BY <2>1, MoversTurn
  <2> HIDE DEF t
  <2>4. QED
    BY <1>2, <2>1, <2>2, <2>3, AdvanceTurns
<1>8. QED
  BY <1>1, <1>3, <1>4, <1>5, <1>6, <1>7

LEMMA TurnInvariant == Spec => []TurnInv
<1>1. Init => TurnInv
  <2>1. ASSUME Init PROVE TurnsAlternate
    <3>1. /\ used = [p \in Players |-> {}] /\ activePlayer = "p1" /\ round = 1
          /\ phase = PhaseForDraw("p1")
      BY <2>1 DEF Init
    <3>2. ActionTypes \ {} # {} /\ FirstPlayer(1) = "p1"
      BY DealAssumption DEF FirstPlayer
    <3>3. QED
      BY <3>1, <3>2, PlayersFacts DEF TurnsAlternate, Players, ActionsIn, Weigh
  <2>2. QED
    BY <2>1, InitType DEF TurnInv
<1>2. TurnInv /\ [Next]_vars => TurnInv'
  <2>1. ASSUME TurnInv, Next PROVE TurnsAlternate'
    BY <2>1, StepTurns
  <2>2. ASSUME TurnInv, UNCHANGED vars PROVE TurnsAlternate'
    BY <2>2 DEF TurnInv, TurnsAlternate, vars
  <2>3. QED
    BY <2>1, <2>2, StepType DEF TurnInv
<1>3. QED
  BY <1>1, <1>2, PTL DEF Spec

(* With p on the move the used actions are even, or p is one behind, and   *)
(* p has one left: advanceAfterCompletedAction never hands the turn to a   *)
(* player who has nothing left to play.                                    *)
THEOREM TurnsDoAlternate == Spec => []TurnsAlternate
<1>1. TurnInv => TurnsAlternate
  BY DEF TurnInv
<1>2. QED
  BY <1>1, TurnInvariant, PTL

-----------------------------------------------------------------------------
(* Every command counts.                                                   *)

\* MovesLeft with the actions u used, r rounds begun and m for the phase.
Left(u, p) == ActionsIn(ActionTypes \ u[p])

Measure(u, r, m) ==
  (MaxRounds - r) * 6 * ActionsIn(ActionTypes) + 3 * (Left(u, "p1") + Left(u, "p2")) + m

LEMMA LeftFacts ==
  ASSUME NEW u \in [Players -> SUBSET ActionTypes], NEW p \in Players
  PROVE  /\ ActionsIn(ActionTypes) \in Nat /\ ActionsIn(u[p]) \in Nat
         /\ Left(u, p) = ActionsIn(ActionTypes) - ActionsIn(u[p])
         /\ Left(u, p) \in Nat /\ (Left(u, p) = 0 <=> ActionTypes \ u[p] = {})
<1>1. ActionTypes \in SUBSET Types /\ u[p] \in SUBSET ActionTypes
  BY EngineAssumption DEF Types
<1>2. /\ ActionsIn(ActionTypes) \in Nat /\ ActionsIn(u[p]) \in Nat
      /\ Left(u, p) = ActionsIn(ActionTypes) - ActionsIn(u[p])
      /\ ActionsIn(u[p]) <= ActionsIn(ActionTypes)
      /\ (Left(u, p) = 0 <=> ActionTypes \ u[p] = {})
  BY <1>1, ActionCount DEF Left
<1>3. QED
  BY <1>2

\* One action less is left, and three moves.
LEMMA LeftAfter ==
  ASSUME NEW u \in [Players -> SUBSET ActionTypes], NEW p \in Players,
         NEW type \in ActionTypes \ u[p],
         NEW r \in 1..MaxRounds, NEW m \in Int, NEW n \in Int
  PROVE  Measure([u EXCEPT ![p] = @ \cup {type}], r, m) = Measure(u, r, n) + m - n - 3
<1> DEFINE v == [u EXCEPT ![p] = @ \cup {type}]
           q == Other(p)
           A == ActionsIn(ActionTypes)
           K == (MaxRounds - r) * 6 * A
<1>1. /\ q \in Players /\ q # p /\ type \in Types /\ ActionTypes \in SUBSET Types
      /\ v \in [Players -> SUBSET ActionTypes]
  BY EngineAssumption DEF Players, Other, Types
<1>2. v[p] = u[p] \cup {type} /\ v[q] = u[q]
  BY <1>1
<1> HIDE DEF v
<1>3. /\ A \in Nat /\ ActionsIn(u[p]) \in Nat
      /\ Left(u, p) = A - ActionsIn(u[p]) /\ Left(v, p) = A - ActionsIn(v[p])
  BY <1>1, LeftFacts
<1>4. ActionsIn(v[p]) = ActionsIn(u[p]) + 1
  <2>1. type \notin u[p]
    OBVIOUS
  <2>2. QED
    BY <1>1, <1>2, <2>1, ActionUsed
<1>5. Left(v, p) = Left(u, p) - 1 /\ Left(v, q) = Left(u, q)
  <2>1. Left(v, q) = Left(u, q)
    BY <1>2 DEF Left
  <2> HIDE DEF A
  <2>2. Left(v, p) = Left(u, p) - 1
    BY <1>3, <1>4
  <2>3. QED
    BY <2>1, <2>2
<1>6. Left(u, p) \in Int /\ Left(u, q) \in Int
  BY <1>1, LeftFacts
<1>7. Left(v, "p1") + Left(v, "p2") = Left(u, "p1") + Left(u, "p2") - 1
  <2>1. CASE p = "p1"
    <3>1. q = "p2"
      BY <2>1 DEF Other
    <3>2. QED
      BY <1>5, <1>6, <2>1, <3>1
  <2>2. CASE p = "p2"
    <3>1. q = "p1"
      BY <2>2 DEF Other
    <3>2. QED
      BY <1>5, <1>6, <2>2, <3>1
  <2>3. QED
    BY <2>1, <2>2 DEF Players
<1>8. K \in Int /\ Left(u, "p1") \in Int /\ Left(u, "p2") \in Int
  <2>1. A \in Int /\ r \in Int /\ MaxRounds \in Int
    BY <1>3, EngineAssumption
  <2> HIDE DEF A
  <2>2. MaxRounds - r \in Int
    BY <2>1
  <2>3. K \in Int
    BY <2>1, <2>2
  <2>4. QED
    BY <2>3, LeftFacts DEF Players
<1>9. Measure(v, r, m) = K + 3 * (Left(v, "p1") + Left(v, "p2")) + m
      /\ Measure(u, r, n) = K + 3 * (Left(u, "p1") + Left(u, "p2")) + n
  BY DEF Measure
<1> HIDE DEF K
<1>10. Measure(v, r, m) = Measure(u, r, n) + m - n - 3
  BY <1>7, <1>8, <1>9
<1>11. QED
  BY <1>10 DEF v

LEMMA MeasureType ==
  ASSUME NEW u \in [Players -> SUBSET ActionTypes], NEW r \in 1..MaxRounds, NEW m \in Int
  PROVE  Measure(u, r, m) \in Int /\ (m >= 0 => Measure(u, r, m) >= 0)
<1>1. ActionsIn(ActionTypes) \in Nat
  BY ActionCount, EngineAssumption DEF Types
<1>2. MaxRounds - r \in Nat
  BY EngineAssumption
<1>3. (MaxRounds - r) * 6 * ActionsIn(ActionTypes) \in Nat
  BY <1>1, <1>2
<1>4. Left(u, "p1") \in Nat /\ Left(u, "p2") \in Nat
  BY LeftFacts DEF Players
<1>5. QED
  BY <1>3, <1>4 DEF Measure

LEMMA AdvanceCounts ==
  ASSUME TypeOK, NEW t \in Tables, NEW next \in Players, AdvanceAfterCompletedAction(t, next)
  PROVE  MovesLeft' = Measure(t.used, round, 0)
<1>1. t.used \in [Players -> SUBSET ActionTypes]
  BY DEF Tables
<1>2. CASE NextTurn(t, next)
  <2>1. used' = t.used /\ round' = round /\ PhaseMoves' = 0
    BY <1>2 DEF NextTurn, Lay, PhaseMoves, PhaseForDraw, PhaseForAction, PhaseForSelect, Players
  <2>2. QED
    BY <2>1 DEF MovesLeft, Measure, Left
<1>3. CASE ShouldEndRound(t) /\ FinishRound(t)
  <2>1. ASSUME NEW w, EndMatch(t, w)
        PROVE  MovesLeft' = Measure(t.used, round, 0)
    <3>1. used' = t.used /\ round' = round /\ PhaseMoves' = 0
      BY <2>1 DEF EndMatch, Lay, PhaseMoves, Tables
    <3>2. QED
      BY <3>1 DEF MovesLeft, Measure, Left
  <2>2. CASE StartNextRound
    <3>1. /\ used' = [p \in Players |-> {}] /\ round' = round + 1 /\ round \in 1..MaxRounds
          /\ phase' = PhaseForDraw(FirstPlayer(round + 1))
      BY <2>2 DEF StartNextRound, Lay, FreshTable, TypeOK
    <3>2. PhaseMoves' = 0
      BY <3>1 DEF PhaseMoves, PhaseForDraw, PhaseForAction, PhaseForSelect, Players
    <3>3. Left(t.used, "p1") = 0 /\ Left(t.used, "p2") = 0
      BY <1>3 DEF ShouldEndRound, Left, Players
    <3>4. ActionTypes \ {} = ActionTypes /\ ActionsIn(ActionTypes) \in Nat
      BY ActionCount, EngineAssumption DEF Types
    <3>5. MovesLeft' = (MaxRounds - (round + 1)) * 6 * ActionsIn(ActionTypes)
                       + 3 * (ActionsIn(ActionTypes) + ActionsIn(ActionTypes)) + 0
      BY <3>1, <3>2, <3>4 DEF MovesLeft, Players
    <3>6. Measure(t.used, round, 0) = (MaxRounds - round) * 6 * ActionsIn(ActionTypes) + 0
      BY <3>3, <3>1, <3>4, EngineAssumption DEF Measure
    <3>7. ASSUME NEW M \in Int, NEW r \in Int, NEW A \in Int
          PROVE  (M - (r + 1)) * 6 * A + 3 * (A + A) + 0 = (M - r) * 6 * A + 0
      OBVIOUS
    <3>8. QED
      BY <3>1, <3>4, <3>5, <3>6, <3>7, EngineAssumption
  <2>3. QED
    BY <1>3, <2>1, <2>2 DEF FinishRound
<1>4. QED
  BY <1>2, <1>3 DEF AdvanceAfterCompletedAction

LEMMA StepCounts ==
  ASSUME TurnInv, Next
  PROVE  MovesLeft' < MovesLeft /\ MovesLeft' >= 0
<1>1. PICK p \in Players :
        \/ Draw(p)
        \/ \E cards \in SUBSET hand[p] :
              \/ PlaySecret(p, cards)
              \/ PlayDiscard(p, cards)
              \/ \E type \in {"gift", "competition"} : PlayOffer(p, type, cards)
        \/ \E chosen \in pending.groups : Resolve(p, chosen)
  BY DEF Next
<1>2. /\ TypeOK /\ TurnsAlternate /\ Other(p) \in Players
      /\ used \in [Players -> SUBSET ActionTypes] /\ round \in 1..MaxRounds
  BY PlayersFacts DEF TurnInv, TypeOK
<1>3. MovesLeft = Measure(used, round, PhaseMoves)
  BY DEF MovesLeft, Measure, Left
<1>4. /\ phase = PhaseForDraw(p) => PhaseMoves = 0
      /\ phase = PhaseForAction(p) => PhaseMoves = -1
      /\ phase = PhaseForSelect(p) => PhaseMoves = 1
  BY DEF PhaseMoves, PhaseForDraw, PhaseForAction, PhaseForSelect, Players
<1>5. ASSUME NEW m \in Int
      PROVE  Measure(used, round, m) = Measure(used, round, 0) + m
  <2> DEFINE K == (MaxRounds - round) * 6 * ActionsIn(ActionTypes)
             L == 3 * (Left(used, "p1") + Left(used, "p2"))
  <2>1. K \in Int /\ L \in Int
    <3>1. /\ ActionsIn(ActionTypes) \in Int
          /\ Left(used, "p1") \in Int /\ Left(used, "p2") \in Int
      BY <1>2, LeftFacts DEF Players
    <3>2. round \in Int /\ MaxRounds \in Int
      BY <1>2, EngineAssumption
    <3>3. MaxRounds - round \in Int
      BY <3>2
    <3>4. QED
      BY <3>1, <3>3
  <2>2. Measure(used, round, m) = K + L + m /\ Measure(used, round, 0) = K + L + 0
    BY DEF Measure
  <2> HIDE DEF K, L
  <2>3. QED
    BY <2>1, <2>2
<1>6. Measure(used, round, 0) \in Int
  BY <1>2, MeasureType
<1>7. CASE Draw(p)
  <2>1. /\ used' = used /\ round' = round /\ phase' = PhaseForAction(p)
        /\ phase = PhaseForDraw(p) /\ activePlayer = p
    BY <1>7 DEF Draw
  <2>2. PhaseMoves' = -1 /\ PhaseMoves = 0
    BY <1>4, <2>1 DEF PhaseMoves, PhaseForDraw, PhaseForAction, PhaseForSelect, Players
  <2>3. MovesLeft' = Measure(used, round, -1) /\ MovesLeft = Measure(used, round, 0)
    BY <1>3, <2>1, <2>2 DEF MovesLeft, Measure, Left
  <2>4. ActionTypes \ used[p] # {}
    BY <1>2, <2>1, PhasesDiffer DEF TurnsAlternate, PhaseForDraw, PhaseForSelect
  <2>5. Left(used, p) \in Nat /\ Left(used, p) # 0
    BY <1>2, <2>4, LeftFacts
  <2>6. /\ Left(used, "p1") \in Nat /\ Left(used, "p2") \in Nat
        /\ Left(used, "p1") + Left(used, "p2") >= 1
    BY <1>2, <2>5, LeftFacts DEF Players
  <2>7. Measure(used, round, -1) >= 0
    <3>1. ActionsIn(ActionTypes) \in Nat /\ MaxRounds - round \in Nat
      BY <1>2, LeftFacts, EngineAssumption
    <3>2. (MaxRounds - round) * 6 * ActionsIn(ActionTypes) \in Nat
      BY <3>1
    <3>3. QED
      BY <2>6, <3>2 DEF Measure
  <2>8. QED
    BY <1>5, <1>6, <2>3, <2>7
<1>8. ASSUME NEW type, NEW cards, MayPlay(p, type, cards), NEW u, NEW m \in {0, 1},
             u = [used EXCEPT ![p] = @ \cup {type}], MovesLeft' = Measure(u, round, m)
      PROVE  MovesLeft' < MovesLeft /\ MovesLeft' >= 0
  <2>1. type \in ActionTypes \ used[p] /\ PhaseMoves = -1
    BY <1>4, <1>8 DEF MayPlay
  <2>2. Measure(u, round, m) = Measure(used, round, 0) + m - 0 - 3
    <3>1. m \in Int /\ 0 \in Int
      BY <1>8
    <3>2. ASSUME NEW k \in Int
          PROVE  Measure(u, round, k) = Measure(used, round, 0) + k - 0 - 3
      <4>1. /\ used \in [Players -> SUBSET ActionTypes] /\ round \in 1..MaxRounds
            /\ type \in ActionTypes \ used[p] /\ 0 \in Int
        BY <1>2, <2>1
      <4>2. Measure([used EXCEPT ![p] = @ \cup {type}], round, k)
              = Measure(used, round, 0) + k - 0 - 3
        BY <4>1, LeftAfter
      <4>3. u = [used EXCEPT ![p] = @ \cup {type}]
        BY <1>8
      <4>4. QED
        BY <4>2, <4>3
    <3>3. QED
      BY <3>1, <3>2
  <2>3. u \in [Players -> SUBSET ActionTypes]
    BY <1>2, <1>8, <2>1
  <2>4. Measure(u, round, m) >= 0
    BY <1>2, <2>3, MeasureType
  <2>5. MovesLeft = Measure(used, round, 0) + (-1)
    BY <1>3, <1>5, <2>1
  <2>6. QED
    BY <1>6, <1>8, <2>2, <2>4, <2>5
<1>9. ASSUME NEW cards, PlaySecret(p, cards)
      PROVE  MovesLeft' < MovesLeft /\ MovesLeft' >= 0
  <2> DEFINE l == LaidDown(p, "secret", cards)
             t == [l EXCEPT !.secret[p] = cards]
  <2>1. MayPlay(p, "secret", cards) /\ AdvanceAfterCompletedAction(t, Other(p))
    BY <1>9 DEF PlaySecret
  <2>2. t.used = [used EXCEPT ![p] = @ \cup {"secret"}]
    BY LaidDownIs
  <2>3. cards \in SUBSET Cards /\ l \in Tables
    BY <1>2, <2>1, LaidDownType DEF MayPlay, TypeOK
  <2> HIDE DEF l
  <2>4. t \in Tables
    BY <2>3 DEF Tables
  <2> HIDE DEF t
  <2>5. MovesLeft' = Measure(t.used, round, 0)
    BY <1>2, <2>1, <2>4, AdvanceCounts
  <2>6. QED
    BY <1>8, <2>1, <2>2, <2>5
<1>10. ASSUME NEW cards, PlayDiscard(p, cards)
       PROVE  MovesLeft' < MovesLeft /\ MovesLeft' >= 0
  <2> DEFINE l == LaidDown(p, "discard", cards)
             t == [l EXCEPT !.discardPile = @ \cup cards]
  <2>1. MayPlay(p, "discard", cards) /\ AdvanceAfterCompletedAction(t, Other(p))
    BY <1>10 DEF PlayDiscard
  <2>2. t.used = [used EXCEPT ![p] = @ \cup {"discard"}]
    BY LaidDownIs
  <2>3. cards \in SUBSET Cards /\ l \in Tables
    BY <1>2, <2>1, LaidDownType DEF MayPlay, TypeOK
  <2> HIDE DEF l
  <2>4. t \in Tables
    BY <2>3 DEF Tables
  <2> HIDE DEF t
  <2>5. MovesLeft' = Measure(t.used, round, 0)
    BY <1>2, <2>1, <2>4, AdvanceCounts
  <2>6. QED
    BY <1>8, <2>1, <2>2, <2>5
<1>11. ASSUME NEW type, NEW cards, PlayOffer(p, type, cards)
       PROVE  MovesLeft' < MovesLeft /\ MovesLeft' >= 0
  <2>1. /\ MayPlay(p, type, cards) /\ round' = round
        /\ phase' = PhaseForSelect(Other(p)) /\ used' = LaidDown(p, type, cards).used
    BY <1>11 DEF PlayOffer
  <2>2. used' = [used EXCEPT ![p] = @ \cup {type}]
    BY <2>1, LaidDownIs
  <2>3. PhaseMoves' = 1
    BY <1>2, <2>1 DEF PhaseMoves, PhaseForSelect
  <2>4. MovesLeft' = Measure(used', round, 1)
    BY <2>1, <2>3 DEF MovesLeft, Measure, Left
  <2>5. QED
    BY <1>8, <2>1, <2>2, <2>4
<1>12. ASSUME NEW chosen, Resolve(p, chosen)
       PROVE  MovesLeft' < MovesLeft /\ MovesLeft' >= 0
  <2> DEFINE t == Divided(p, chosen)
  <2>1. /\ AdvanceAfterCompletedAction(t, p) /\ phase = PhaseForSelect(p)
        /\ chosen \in pending.groups
    BY <1>12 DEF Resolve
  <2>2. t.used = used /\ t \in Tables
    BY <1>2, <2>1, ResolveTable
  <2> HIDE DEF t
  <2>3. MovesLeft' = Measure(used, round, 0)
    BY <1>2, <2>1, <2>2, AdvanceCounts
  <2>4. MovesLeft = Measure(used, round, 0) + 1
    BY <1>3, <1>4, <1>5, <2>1
  <2>5. Measure(used, round, 0) >= 0
    BY <1>2, MeasureType
  <2>6. QED
    BY <1>6, <2>3, <2>4, <2>5
<1>13. QED
  BY <1>1, <1>7, <1>9, <1>10, <1>11, <1>12

(* MovesLeft falls with every command and never below zero: a match is over*)
(* after finitely many commands, whatever the players do.                  *)
THEOREM EveryMoveDoesCount == Spec => EveryMoveCounts
<1>1. TurnInv /\ [Next]_vars => [MovesLeft' < MovesLeft /\ MovesLeft' >= 0]_vars
  BY StepCounts
<1>2. QED
  BY <1>1, TurnInvariant, PTL DEF Spec, EveryMoveCounts

-----------------------------------------------------------------------------
(* Cards that are down.                                                    *)

\* The table t has whatever lies on the present one.
Grown(t) ==
  /\ t \in Tables
  /\ discardPile \subseteq t.discardPile
  /\ \A p \in Players : placed[p] \subseteq t.placed[p] /\ secret[p] \subseteq t.secret[p]

Stays ==
  round' = round =>
    /\ discardPile \subseteq discardPile'
    /\ \A p \in Players :
         /\ placed[p] \subseteq placed'[p]
         /\ secret[p] \subseteq secret'[p] \cup placed'[p]

LEMMA AdvanceStays ==
  ASSUME TypeOK, NEW t, Grown(t), NEW next, AdvanceAfterCompletedAction(t, next)
  PROVE  Stays
<1>1. CASE NextTurn(t, next)
  BY <1>1 DEF NextTurn, Lay, Grown, Stays
<1>2. CASE StartNextRound
  <2>1. round' = round + 1 /\ round \in Nat
    BY <1>2, EngineAssumption DEF StartNextRound, TypeOK
  <2>2. QED
    BY <2>1 DEF Stays
<1>3. ASSUME NEW w, EndMatch(t, w)
      PROVE  Stays
  <2> DEFINE e == [t EXCEPT !.secret = [p \in Players |-> {}], !.placed = Revealed(t)]
  <2>1. placed' = e.placed /\ discardPile' = e.discardPile
    BY <1>3 DEF EndMatch, Lay
  <2>2. e.placed = Revealed(t) /\ e.discardPile = t.discardPile
    BY DEF Grown, Tables
  <2>3. QED
    BY <2>1, <2>2 DEF Revealed, Grown, Stays
<1>4. QED
  BY <1>1, <1>2, <1>3 DEF AdvanceAfterCompletedAction, FinishRound

LEMMA StepStays ==
  ASSUME AccountingInv, Next
  PROVE  Stays
<1>1. PICK p \in Players :
        \/ Draw(p)
        \/ \E cards \in SUBSET hand[p] :
              \/ PlaySecret(p, cards)
              \/ PlayDiscard(p, cards)
              \/ \E type \in {"gift", "competition"} : PlayOffer(p, type, cards)
        \/ \E chosen \in pending.groups : Resolve(p, chosen)
  BY DEF Next
<1>2. TypeOK /\ SecretsPlayed
  BY DEF AccountingInv
<1>3. CASE Draw(p)
  BY <1>3 DEF Draw, Stays
<1>4. ASSUME NEW cards, PlaySecret(p, cards)
      PROVE  Stays
  <2> DEFINE l == LaidDown(p, "secret", cards)
             t == [l EXCEPT !.secret[p] = cards]
  <2>1. MayPlay(p, "secret", cards) /\ AdvanceAfterCompletedAction(t, Other(p))
    BY <1>4 DEF PlaySecret
  <2>2. secret[p] = {} /\ cards \in SUBSET Cards /\ l \in Tables
    BY <1>2, <2>1, LaidDownType DEF MayPlay, SecretsPlayed, TypeOK
  <2>3. l.secret = secret /\ l.placed = placed /\ l.discardPile = discardPile
    BY LaidDownIs
  <2> HIDE DEF l
  <2>4. /\ t \in Tables /\ t.placed = placed /\ t.discardPile = discardPile
        /\ \A r \in Players \ {p} : t.secret[r] = secret[r]
    BY <2>2, <2>3 DEF Tables
  <2>5. Grown(t)
    BY <2>2, <2>4 DEF Grown
  <2> HIDE DEF t
  <2>6. QED
    BY <1>2, <2>1, <2>5, AdvanceStays
<1>5. ASSUME NEW cards, PlayDiscard(p, cards)
      PROVE  Stays
  <2> DEFINE l == LaidDown(p, "discard", cards)
             t == [l EXCEPT !.discardPile = @ \cup cards]
  <2>1. MayPlay(p, "discard", cards) /\ AdvanceAfterCompletedAction(t, Other(p))
    BY <1>5 DEF PlayDiscard
  <2>2. cards \in SUBSET Cards /\ l \in Tables
    BY <1>2, <2>1, LaidDownType DEF MayPlay, TypeOK
  <2>3. l.secret = secret /\ l.placed = placed /\ l.discardPile = discardPile
    BY LaidDownIs
  <2> HIDE DEF l
  <2>4. Grown(t)
    BY <2>2, <2>3 DEF Grown, Tables
  <2> HIDE DEF t
  <2>5. QED
    BY <1>2, <2>1, <2>4, AdvanceStays
<1>6. ASSUME NEW type, NEW cards, PlayOffer(p, type, cards)
      PROVE  Stays
  BY <1>6 DEF PlayOffer, Stays
<1>7. ASSUME NEW chosen, Resolve(p, chosen)
      PROVE  Stays
  <2>1. AdvanceAfterCompletedAction(Divided(p, chosen), p) /\ chosen \in pending.groups
    BY <1>7 DEF Resolve
  <2>2. Grown(Divided(p, chosen))
    BY <1>2, <2>1, ResolveTable DEF Grown
  <2>3. QED
    BY <1>2, <2>1, <2>2, AdvanceStays
<1>8. QED
  BY <1>1, <1>3, <1>4, <1>5, <1>6, <1>7

(* Within a round no command takes a card back from the geishas, the       *)
(* secrets or the discard pile; the secrets move to the geishas at its end.*)
THEOREM CardsDoStayDown == Spec => CardsStayDown
<1>1. AccountingInv /\ [Next]_vars =>
        [round' = round =>
           /\ discardPile \subseteq discardPile'
           /\ \A p \in Players :
                /\ placed[p] \subseteq placed'[p]
                /\ secret[p] \subseteq secret'[p] \cup placed'[p]]_vars
  BY StepStays DEF Stays
<1>2. QED
  BY <1>1, AccountingHolds, PTL DEF Spec, CardsStayDown

-----------------------------------------------------------------------------
(* Scores.                                                                 *)

LEMMA CharmOfNone == CharmOfSet({}) = 0
<1> DEFINE Sums(f) == f = [gs \in SUBSET {} |->
                             IF gs = {} THEN 0
                             ELSE LET g == CHOOSE g \in gs : TRUE IN Value[g] + f[gs \ {g}]]
<1>1. Sums([gs \in SUBSET {} |-> 0])
  OBVIOUS
<1>2. \A f : Sums(f) => f[{}] = 0
  OBVIOUS
<1>3. CharmOfSet({}) = (CHOOSE f : Sums(f))[{}]
  BY DEF CharmOfSet, MapThenSumSet, MapThenFoldSet
<1>4. QED
  BY <1>1, <1>2, <1>3

ScoreInv == TypeOK /\ ScoresFollowOwners

LEMMA InitScores ==
  ASSUME Init
  PROVE  ScoresFollowOwners
<1>1. /\ score = [p \in Players |-> [geishaCount |-> 0, totalCharm |-> 0]]
      /\ owner = [g \in Geishas |-> Nobody] /\ winner = Nobody /\ isDraw = FALSE
      /\ phase # "game_over"
  BY PlayersFacts, PhasesDiffer DEF Init, Players
<1>2. ASSUME NEW p \in Players
      PROVE  ScoreOf(owner, p) = [geishaCount |-> 0, totalCharm |-> 0]
  <2>1. {g \in Geishas : owner[g] = p} = {}
    BY <1>1 DEF Players, Nobody
  <2>2. QED
    BY <2>1, CharmOfNone, FS_EmptySet DEF ScoreOf
<1>3. score = Scores(owner)
  BY <1>1, <1>2 DEF Scores
<1>4. score["p1"] = score["p2"] /\ score["p1"].totalCharm = 0 /\ score["p1"].geishaCount = 0
  BY <1>1 DEF Players
<1>5. \A p \in Players : ~Wins(score, p)
  BY <1>4 DEF Wins, Beats, Players, Other
<1>6. QED
  BY <1>1, <1>3, <1>5 DEF ScoresFollowOwners, VictoryOf

LEMMA AdvanceScores ==
  ASSUME ScoreInv, NEW t, NEW next \in Players, phase # "game_over",
         AdvanceAfterCompletedAction(t, next)
  PROVE  ScoresFollowOwners'
<1>1. /\ score = Scores(owner) /\ winner = VictoryOf(score)
      /\ winner = Nobody /\ isDraw = FALSE
  BY DEF ScoreInv, ScoresFollowOwners, TypeOK
<1>2. CASE NextTurn(t, next)
  <2>1. /\ UNCHANGED <<owner, score, winner, isDraw>> /\ phase' # "game_over"
    BY <1>2, PhasesDiffer DEF NextTurn
  <2>2. QED
    BY <1>1, <2>1 DEF ScoresFollowOwners
<1>3. CASE FinishRound(t)
  <2> DEFINE w == VictoryOf(score')
  <2>1. /\ score' = Scores(owner')
        /\ IF w # Nobody \/ LastRound THEN EndMatch(t, w) ELSE StartNextRound
    BY <1>3 DEF FinishRound, Score
  <2>2. ASSUME EndMatch(t, w)
        PROVE  ScoresFollowOwners'
    BY <2>1, <2>2 DEF EndMatch, ScoresFollowOwners
  <2>3. ASSUME StartNextRound, w = Nobody
        PROVE  ScoresFollowOwners'
    <3>1. /\ winner' = winner /\ isDraw' = isDraw /\ round + 1 \in Nat
          /\ phase' = PhaseForDraw(FirstPlayer(round + 1))
      BY <2>3, EngineAssumption DEF StartNextRound, ScoreInv, TypeOK
    <3>2. phase' # "game_over"
      BY <3>1, PlayersFacts, PhasesDiffer
    <3>3. QED
      BY <1>1, <2>1, <2>3, <3>1, <3>2 DEF ScoresFollowOwners
  <2>4. QED
    BY <2>1, <2>2, <2>3
<1>4. QED
  BY <1>2, <1>3 DEF AdvanceAfterCompletedAction

LEMMA StepScores ==
  ASSUME ScoreInv, Next
  PROVE  ScoresFollowOwners'
<1>1. PICK p \in Players :
        \/ Draw(p)
        \/ \E cards \in SUBSET hand[p] :
              \/ PlaySecret(p, cards)
              \/ PlayDiscard(p, cards)
              \/ \E type \in {"gift", "competition"} : PlayOffer(p, type, cards)
        \/ \E chosen \in pending.groups : Resolve(p, chosen)
  BY DEF Next
<1>2. Other(p) \in Players
  BY PlayersFacts
<1>3. /\ PhaseForDraw(p) # "game_over" /\ PhaseForAction(p) # "game_over"
      /\ PhaseForSelect(p) # "game_over" /\ PhaseForSelect(Other(p)) # "game_over"
  BY <1>2, PhasesDiffer DEF PhaseForAction
<1>4. ASSUME UNCHANGED <<owner, score, winner, isDraw>>, phase # "game_over",
             phase' # "game_over"
      PROVE  ScoresFollowOwners'
  BY <1>4 DEF ScoreInv, ScoresFollowOwners
<1>5. CASE Draw(p)
  BY <1>3, <1>4, <1>5 DEF Draw
<1>6. ASSUME NEW cards, PlaySecret(p, cards)
      PROVE  ScoresFollowOwners'
  BY <1>2, <1>3, <1>6, AdvanceScores DEF PlaySecret, MayPlay
<1>7. ASSUME NEW cards, PlayDiscard(p, cards)
      PROVE  ScoresFollowOwners'
  BY <1>2, <1>3, <1>7, AdvanceScores DEF PlayDiscard, MayPlay
<1>8. ASSUME NEW type, NEW cards, PlayOffer(p, type, cards)
      PROVE  ScoresFollowOwners'
  BY <1>3, <1>4, <1>8 DEF PlayOffer, MayPlay
<1>9. ASSUME NEW chosen, Resolve(p, chosen)
      PROVE  ScoresFollowOwners'
  BY <1>3, <1>9, AdvanceScores DEF Resolve
<1>10. QED
  BY <1>1, <1>5, <1>6, <1>7, <1>8, <1>9

(* finishRound scores before it looks for a winner, and nothing else moves *)
(* owners, scores or the result: the scores are those of the owners, and a *)
(* match is over exactly when it has a winner or is drawn.                 *)
THEOREM ScoresDoFollowOwners == Spec => []ScoresFollowOwners
<1>1. Init => ScoreInv
  BY InitType, InitScores DEF ScoreInv
<1>2. ScoreInv /\ [Next]_vars => ScoreInv'
  <2>1. ASSUME ScoreInv, Next PROVE ScoresFollowOwners'
    BY <2>1, StepScores
  <2>2. ASSUME ScoreInv, UNCHANGED vars PROVE ScoresFollowOwners'
    BY <2>2 DEF ScoreInv, ScoresFollowOwners, vars
  <2>3. QED
    BY <2>1, <2>2, StepType DEF ScoreInv
<1>3. ScoreInv => ScoresFollowOwners
  BY DEF ScoreInv
<1>4. QED
  BY <1>1, <1>2, <1>3, PTL DEF Spec

-----------------------------------------------------------------------------
(* The abstract match.                                                     *)

LEMMA SameCharm ==
  ASSUME NEW gs
  PROVE  Match!CharmOfSet(gs) = CharmOfSet(gs)
BY DEF Match!CharmOfSet, CharmOfSet, Match!MapThenSumSet, MapThenSumSet,
   Match!MapThenFoldSet, MapThenFoldSet

LEMMA SameCount ==
  ASSUME NEW gs
  PROVE  Match!Cardinality(gs) = Cardinality(gs)
BY DEF Match!Cardinality, Cardinality

LEMMA SameRules ==
  ASSUME NEW o, NEW m
  PROVE  /\ Match!NewOwners(o, m) = NewOwners(o, m)
         /\ Match!VictoryOf(Match!Scores(o)) = VictoryOf(Scores(o))
<1>1. Match!NewOwners(o, m) = NewOwners(o, m)
  BY DEF Match!NewOwners, NewOwners, Match!Nobody, Nobody
<1>2. ASSUME NEW p \in Players
      PROVE  Match!ScoreOf(o, p) = ScoreOf(o, p)
  <2> DEFINE mine == {g \in Geishas : o[g] = p}
  <2>1. /\ Match!ScoreOf(o, p) = [geishaCount |-> Match!Cardinality(mine),
                                  totalCharm |-> Match!CharmOfSet(mine)]
        /\ ScoreOf(o, p) = [geishaCount |-> Cardinality(mine), totalCharm |-> CharmOfSet(mine)]
    BY DEF Match!ScoreOf, ScoreOf
  <2>2. Match!CharmOfSet(mine) = CharmOfSet(mine)
    BY SameCharm
  <2>3. Match!Cardinality(mine) = Cardinality(mine)
    BY SameCount
  <2>4. QED
    BY <2>1, <2>2, <2>3
<1>3. Match!Scores(o) = Scores(o)
  BY <1>2 DEF Match!Scores, Scores, Match!Players, Players
<1>4. ASSUME NEW s
      PROVE  Match!VictoryOf(s) = VictoryOf(s)
  BY DEF Match!VictoryOf, VictoryOf, Match!Wins, Wins, Match!MeetsGoal, MeetsGoal,
     Match!Beats, Beats, Match!Other, Other, Match!Players, Players, Match!Nobody, Nobody
<1>5. QED
  BY <1>1, <1>3, <1>4

LEMMA MajorityType ==
  ASSUME NEW side
  PROVE  RoundMajority(side) \in [Geishas -> Players \cup {Nobody}]
<1>1. ASSUME NEW g \in Geishas
      PROVE  RoundMajority(side)[g] \in Players \cup {Nobody}
  <2> DEFINE count == [p \in Players |-> Cardinality(Items(side, g, p))]
             lead == {p \in Players : count[p] > count[Other(p)]}
  <2>1. RoundMajority(side)[g] = IF lead = {} THEN Nobody ELSE CHOOSE p \in lead : TRUE
    BY DEF RoundMajority, MajorityAt
  <2>2. lead \subseteq Players
    OBVIOUS
  <2> HIDE DEF lead
  <2>3. QED
    BY <2>1, <2>2
<1>2. QED
  BY <1>1 DEF RoundMajority

LEMMA Victor ==
  ASSUME NEW s
  PROVE  VictoryOf(s) \in Players \cup {Nobody}
<1>1. (\E p \in Players : Wins(s, p)) => (CHOOSE p \in Players : Wins(s, p)) \in Players
  OBVIOUS
<1>2. QED
  BY <1>1 DEF VictoryOf

(* A command that completes a round is EndRound; any other changes nothing *)
(* that the match is about.                                                *)
LEMMA AdvanceRefines ==
  ASSUME TypeOK, NEW t, NEW next \in Players, phase # "game_over",
         AdvanceAfterCompletedAction(t, next)
  PROVE  [Match!MatchNext]_(Match!matchVars)
<1>1. MatchResult = "playing"
  BY DEF MatchResult
<1>2. CASE NextTurn(t, next)
  <2>1. owner' = owner /\ round' = round /\ phase' # "game_over"
    BY <1>2, PhasesDiffer DEF NextTurn
  <2>2. MatchResult' = "playing"
    BY <2>1 DEF MatchResult
  <2>3. QED
    BY <1>1, <2>1, <2>2 DEF Match!matchVars
<1>3. CASE FinishRound(t)
  <2> DEFINE m == RoundMajority(Revealed(t))
             w == VictoryOf(score')
  <2>1. /\ owner' = NewOwners(owner, m) /\ score' = Scores(owner')
        /\ IF w # Nobody \/ round >= MaxRounds THEN EndMatch(t, w) ELSE StartNextRound
    BY <1>3 DEF FinishRound, Score, LastRound
  <2>2. m \in [Geishas -> Players \cup {Nobody}] /\ w \in Players \cup {Nobody}
    BY MajorityType, Victor
  <2>3. Match!NewOwners(owner, m) = owner' /\ Match!VictoryOf(Match!Scores(owner')) = w
    BY <2>1, SameRules
  <2> HIDE DEF m, w
  <2>4. Match!ResultOf(owner', round) =
          IF w # Nobody THEN w ELSE IF round >= MaxRounds THEN "draw" ELSE "playing"
    BY <2>3 DEF Match!ResultOf, Match!Nobody, Nobody
  <2>5. /\ MatchResult' = Match!ResultOf(owner', round)
        /\ round' = IF MatchResult' = "playing" THEN round + 1 ELSE round
    <3>1. CASE w # Nobody \/ round >= MaxRounds
      <4>1. /\ winner' = w /\ isDraw' = (w = Nobody) /\ phase' = "game_over"
            /\ round' = round
        BY <2>1, <3>1 DEF EndMatch
      <4>2. w # "playing"
        BY <2>2 DEF Players, Nobody
      <4>3. MatchResult' = IF w = Nobody THEN "draw" ELSE w
        BY <4>1 DEF MatchResult
      <4>4. QED
        BY <2>4, <3>1, <4>1, <4>2, <4>3
    <3>2. CASE ~(w # Nobody \/ round >= MaxRounds)
      <4>1. round' = round + 1 /\ phase' = PhaseForDraw(FirstPlayer(round + 1))
        BY <2>1, <3>2 DEF StartNextRound
      <4>2. round + 1 \in Nat
        BY EngineAssumption DEF TypeOK
      <4>3. phase' # "game_over"
        BY <4>1, <4>2, PlayersFacts, PhasesDiffer
      <4>4. MatchResult' = "playing"
        BY <4>3 DEF MatchResult
      <4>5. QED
        BY <2>4, <3>2, <4>1, <4>4
    <3>3. QED
      BY <3>1, <3>2
  <2>6. Match!EndRound(m)
    BY <1>1, <2>3, <2>5 DEF Match!EndRound
  <2>7. m \in [Geishas -> Match!Players \cup {Match!Nobody}]
    BY <2>2 DEF Match!Players, Match!Nobody, Players, Nobody
  <2>8. QED
    BY <2>6, <2>7 DEF Match!MatchNext
<1>4. QED
  BY <1>2, <1>3 DEF AdvanceAfterCompletedAction

LEMMA StepRefines ==
  ASSUME TypeOK, Next
  PROVE  [Match!MatchNext]_(Match!matchVars)
<1>1. PICK p \in Players :
        \/ Draw(p)
        \/ \E cards \in SUBSET hand[p] :
              \/ PlaySecret(p, cards)
              \/ PlayDiscard(p, cards)
              \/ \E type \in {"gift", "competition"} : PlayOffer(p, type, cards)
        \/ \E chosen \in pending.groups : Resolve(p, chosen)
  BY DEF Next
<1>2. Other(p) \in Players
  BY PlayersFacts
<1>3. /\ PhaseForDraw(p) # "game_over" /\ PhaseForAction(p) # "game_over"
      /\ PhaseForSelect(p) # "game_over" /\ PhaseForSelect(Other(p)) # "game_over"
  BY <1>2, PhasesDiffer DEF PhaseForAction
<1>4. CASE Draw(p)
  BY <1>3, <1>4 DEF Draw, Match!matchVars, MatchResult
<1>5. ASSUME NEW cards, PlaySecret(p, cards)
      PROVE  [Match!MatchNext]_(Match!matchVars)
  BY <1>2, <1>3, <1>5, AdvanceRefines DEF PlaySecret, MayPlay
<1>6. ASSUME NEW cards, PlayDiscard(p, cards)
      PROVE  [Match!MatchNext]_(Match!matchVars)
  BY <1>2, <1>3, <1>6, AdvanceRefines DEF PlayDiscard, MayPlay
<1>7. ASSUME NEW type, NEW cards, PlayOffer(p, type, cards)
      PROVE  [Match!MatchNext]_(Match!matchVars)
  BY <1>3, <1>7 DEF PlayOffer, MayPlay, Match!matchVars, MatchResult
<1>8. ASSUME NEW chosen, Resolve(p, chosen)
      PROVE  [Match!MatchNext]_(Match!matchVars)
  BY <1>3, <1>8, AdvanceRefines DEF Resolve
<1>9. QED
  BY <1>1, <1>4, <1>5, <1>6, <1>7, <1>8

(* The engine implements the match: owners, the round and the result move  *)
(* only when a round is scored, and then as finishRound says.              *)
THEOREM EngineImplementsMatch == Spec => ImplementsMatch
<1>1. Init => Match!MatchInit
  BY PhasesDiffer DEF Init, Match!MatchInit, Match!Nobody, Nobody, MatchResult, Players
<1>2. TypeOK /\ [Next]_vars => [Match!MatchNext]_(Match!matchVars)
  <2>1. ASSUME TypeOK, Next PROVE [Match!MatchNext]_(Match!matchVars)
    BY <2>1, StepRefines
  <2>2. ASSUME UNCHANGED vars PROVE UNCHANGED Match!matchVars
    BY <2>2 DEF vars, Match!matchVars, MatchResult
  <2>3. QED
    BY <2>1, <2>2
<1>3. QED
  BY <1>1, <1>2, TypeCorrect, PTL DEF Spec, ImplementsMatch, Match!MatchSpec

-----------------------------------------------------------------------------
(* The deal pays for the round: HandsCoverActions for every deck, hand     *)
(* size and set of actions that DealAssumption lets fit together, and so   *)
(* for the 21 cards, hands of six and four actions of the game.            *)

LEMMA CardsFinite == IsFiniteSet(Cards) /\ \A S \in SUBSET Cards : IsFiniteSet(S)
<1>1. PICK s \in Shuffles : s \in [1..CardCount -> Cards]
  BY EngineAssumption
<1>2. s \in Surjection(1..CardCount, Cards)
  BY <1>1, EngineAssumption DEF Surjection
<1>3. IsFiniteSet(1..CardCount)
  BY FS_Interval, EngineAssumption
<1>4. IsFiniteSet(Cards)
  BY <1>2, <1>3, FS_Surjection
<1>5. QED
  BY <1>4, FS_Subset

-----------------------------------------------------------------------------
(* What an action costs.                                                   *)

LEMMA Cost ==
  ASSUME NEW T \in SUBSET Types, NEW type \in T
  PROVE  /\ CardsFor(T) \in Nat /\ ActionsIn(T) \in Nat
         /\ CardsFor(T \ {type}) = CardsFor(T) - RequiredCount[type]
         /\ ActionsIn(T \ {type}) = ActionsIn(T) - 1
         /\ RequiredCount[type] <= CardsFor(T) - (ActionsIn(T) - 1)
         /\ RequiredCount[type] \in Nat
<1> DEFINE W(S, a, n) == IF a \in S THEN n ELSE 0
<1>1. \A S : /\ ActionsIn(S) = W(S, "secret", 1) + W(S, "discard", 1) + W(S, "gift", 1)
                                 + W(S, "competition", 1)
             /\ CardsFor(S) = W(S, "secret", 1) + W(S, "discard", 2) + W(S, "gift", 3)
                                + W(S, "competition", 4)
  BY DEF ActionsIn, CardsFor, Weigh, RequiredCount
<1>2. CASE type = "secret"
  BY <1>1, <1>2 DEF RequiredCount
<1>3. CASE type = "discard"
  BY <1>1, <1>3 DEF RequiredCount
<1>4. CASE type = "gift"
  BY <1>1, <1>4 DEF RequiredCount
<1>5. CASE type = "competition"
  BY <1>1, <1>5 DEF RequiredCount
<1>6. QED
  BY <1>2, <1>3, <1>4, <1>5 DEF Types

-----------------------------------------------------------------------------
(* The first half of HandsCoverActions implies the other: who has enough   *)
(* for all that is left has enough for each.                               *)
Covers ==
  phase # "game_over" =>
    /\ Len(deck) = DrawsLeft("p1") + DrawsLeft("p2")
    /\ \A p \in Players :
         Cardinality(hand[p]) = CardsFor(ActionTypes \ used[p]) - DrawsLeft(p)

LEMMA CoversAffords ==
  ASSUME TypeOK, Covers
  PROVE  HandsCoverActions
<1>1. ASSUME NEW p \in Players, phase = PhaseForAction(p), NEW type \in ActionTypes \ used[p]
      PROVE  RequiredCount[type] <= Cardinality(hand[p])
  <2>1. phase # "game_over"
    BY <1>1 DEF PhaseForAction
  <2>2. ActionTypes \ used[p] \in SUBSET Types
    BY EngineAssumption DEF Types
  <2>3. RequiredCount[type] <= CardsFor(ActionTypes \ used[p])
                               - (ActionsIn(ActionTypes \ used[p]) - 1)
    BY <2>2, Cost
  <2>4. QED
    BY <1>1, <2>1, <2>3 DEF Covers, DrawsLeft
<1>2. QED
  BY <1>1 DEF Covers, HandsCoverActions

-----------------------------------------------------------------------------
(* A deal.                                                                 *)

LEMMA DealCovers ==
  ASSUME NEW s \in Shuffles
  PROVE  /\ Len(DealtDeck(s)) = 2 * ActionsIn(ActionTypes)
         /\ \A p \in Players : Cardinality(DealtHand(s, p)) = HandSize
<1>1. Len(DealtDeck(s)) = 2 * ActionsIn(ActionTypes)
  BY DealSizes DEF DealtDeck
<1>2. ASSUME NEW p \in Players
      PROVE  Cardinality(DealtHand(s, p)) = HandSize
  <2> DEFINE top == IF p = "p1" THEN CardCount - 1 ELSE CardCount - 2
             f == [i \in 0 .. HandSize - 1 |-> s[top - 2 * i]]
  <2>1. /\ HandSize \in Nat /\ CardCount \in Nat
        /\ CardCount >= 2 * HandSize + 1
    BY DealSizes, EngineAssumption
  <2>2. \A i \in 0 .. HandSize - 1 : top - 2 * i \in 1..CardCount
    BY <2>1
  <2>3. \A i, j \in 1..CardCount : s[i] = s[j] => i = j
    BY EngineAssumption
  <2>4. \A i, j \in 0 .. HandSize - 1 : f[i] = f[j] => i = j
    <3>1. ASSUME NEW i \in 0 .. HandSize - 1, NEW j \in 0 .. HandSize - 1, f[i] = f[j]
          PROVE  i = j
      <4>1. top - 2 * i = top - 2 * j
        BY <2>2, <2>3, <3>1
      <4>2. top \in Int
        BY <2>1
      <4>3. QED
        BY <4>1, <4>2
    <3>2. QED
      BY <3>1
  <2>5. DealtHand(s, p) = {f[i] : i \in 0 .. HandSize - 1}
    BY DEF DealtHand
  <2>6. f \in Bijection(0 .. HandSize - 1, DealtHand(s, p))
    <3>1. DOMAIN f = 0 .. HandSize - 1 /\ f = [i \in 0 .. HandSize - 1 |-> f[i]]
      OBVIOUS
    <3> HIDE DEF f
    <3>2. f \in [0 .. HandSize - 1 -> DealtHand(s, p)]
      BY <2>5, <3>1
    <3>3. f \in Injection(0 .. HandSize - 1, DealtHand(s, p))
      BY <2>4, <3>2 DEF Injection, IsInjective
    <3>4. f \in Surjection(0 .. HandSize - 1, DealtHand(s, p))
      BY <2>5, <3>2 DEF Surjection
    <3>5. QED
      BY <3>3, <3>4 DEF Bijection
  <2>7. IsFiniteSet(0 .. HandSize - 1) /\ Cardinality(0 .. HandSize - 1) = HandSize
    BY <2>1, FS_Interval
  <2>8. QED
    BY <2>6, <2>7, FS_Bijection DEF ExistsBijection
<1>3. QED
  BY <1>1, <1>2

\* The deal pays for all of the actions but their draws.
LEMMA FreshCovers ==
  /\ ActionsIn(ActionTypes) \in Nat /\ CardsFor(ActionTypes) \in Nat
  /\ HandSize = CardsFor(ActionTypes) - ActionsIn(ActionTypes)
BY DealSizes, DealAssumption DEF CardsFor, Weigh, RequiredCount

-----------------------------------------------------------------------------
\* What every table handed to advanceAfterCompletedAction satisfies.
TableCovers(t) ==
  /\ Len(deck) = Left(t.used, "p1") + Left(t.used, "p2")
  /\ \A r \in Players :
       Cardinality(t.hand[r]) = CardsFor(ActionTypes \ t.used[r]) - Left(t.used, r)

\* Nobody is about to act: every action left has its draw to come.
LEMMA DrawsAll ==
  ASSUME NEW p \in Players, NEW r \in Players,
         phase = PhaseForDraw(p) \/ phase = PhaseForSelect(p)
  PROVE  DrawsLeft(r) = Left(used, r)
<1>1. phase # PhaseForAction(r)
  BY DEF PhaseForDraw, PhaseForSelect, PhaseForAction, Players
<1>2. Left(used, r) \in Int
  BY DEF Left, ActionsIn, Weigh
<1>3. QED
  BY <1>1, <1>2 DEF DrawsLeft, Left

LEMMA DrawsAllNext ==
  ASSUME NEW p \in Players, NEW r \in Players,
         phase' = PhaseForDraw(p) \/ phase' = PhaseForSelect(p)
  PROVE  DrawsLeft(r)' = Left(used', r)
<1>1. phase' # PhaseForAction(r)
  BY DEF PhaseForDraw, PhaseForSelect, PhaseForAction, Players
<1>2. Left(used', r) \in Int
  BY DEF Left, ActionsIn, Weigh
<1>3. QED
  BY <1>1, <1>2 DEF DrawsLeft, Left

LEMMA AdvanceCovers ==
  ASSUME TypeOK, NEW t, TableCovers(t), NEW next \in Players,
         AdvanceAfterCompletedAction(t, next)
  PROVE  Covers'
<1>1. CASE NextTurn(t, next)
  <2>1. /\ used' = t.used /\ hand' = t.hand /\ deck' = deck /\ phase' = PhaseForDraw(next)
    BY <1>1 DEF NextTurn, Lay
  <2>2. \A r \in Players : DrawsLeft(r)' = Left(t.used, r)
    BY <2>1, DrawsAllNext
  <2>3. QED
    BY <2>1, <2>2 DEF Covers, TableCovers, Players
<1>2. CASE FinishRound(t)
  <2>1. ASSUME NEW w, EndMatch(t, w)
        PROVE  Covers'
    BY <2>1 DEF EndMatch, Covers
  <2>2. CASE StartNextRound
    <3>1. PICK s \in Shuffles : deck' = DealtDeck(s) /\ Lay(FreshTable(s))
      BY <2>2 DEF StartNextRound
    <3>2. /\ hand' = [p \in Players |-> DealtHand(s, p)] /\ used' = [p \in Players |-> {}]
      BY <3>1 DEF Lay, FreshTable
    <3>3. phase' = PhaseForDraw(FirstPlayer(round + 1)) /\ FirstPlayer(round + 1) \in Players
      BY <2>2, PlayersFacts, EngineAssumption DEF StartNextRound, TypeOK
    <3>4. \A r \in Players : /\ DrawsLeft(r)' = Left(used', r)
                             /\ ActionTypes \ used'[r] = ActionTypes
      BY <3>2, <3>3, DrawsAllNext
    <3>5. \A r \in Players : DrawsLeft(r)' = ActionsIn(ActionTypes)
      BY <3>4 DEF Left
    <3>6. Len(deck') = DrawsLeft("p1")' + DrawsLeft("p2")'
      BY <3>1, <3>5, DealCovers, FreshCovers DEF Players
    <3>7. \A r \in Players :
            Cardinality(hand'[r]) = CardsFor(ActionTypes \ used'[r]) - DrawsLeft(r)'
      BY <3>2, <3>4, <3>5, DealCovers, FreshCovers
    <3>8. QED
      BY <3>6, <3>7 DEF Covers
  <2>3. QED
    BY <1>2, <2>1, <2>2 DEF FinishRound
<1>3. QED
  BY <1>1, <1>2 DEF AdvanceAfterCompletedAction

LEMMA PlayedCovers ==
  ASSUME TypeOK, Covers, NEW p \in Players, NEW type, NEW cards, MayPlay(p, type, cards)
  PROVE  TableCovers(LaidDown(p, type, cards))
<1> DEFINE l == LaidDown(p, type, cards)
           q == Other(p)
<1>1. /\ q \in Players /\ q # p /\ \A r \in Players : r = p \/ r = q
      /\ hand \in [Players -> SUBSET Cards] /\ used \in [Players -> SUBSET ActionTypes]
      /\ type \in ActionTypes \ used[p] /\ cards \subseteq hand[p]
      /\ Cardinality(cards) = RequiredCount[type] /\ phase = PhaseForAction(p)
  BY DEF Players, Other, MayPlay, TypeOK
<1>2. /\ l.used = [used EXCEPT ![p] = @ \cup {type}] /\ l.hand = [hand EXCEPT ![p] = @ \ cards]
  BY DEF LaidDown, Table
<1>3. /\ l.used[p] = used[p] \cup {type} /\ l.hand[p] = hand[p] \ cards
      /\ l.used[q] = used[q] /\ l.hand[q] = hand[q]
  BY <1>1, <1>2
<1> HIDE DEF l
<1>4. /\ ActionTypes \ used[p] \in SUBSET Types
      /\ ActionTypes \ l.used[p] = (ActionTypes \ used[p]) \ {type}
  BY <1>1, <1>3, EngineAssumption DEF Types
<1>5. /\ CardsFor(ActionTypes \ l.used[p]) = CardsFor(ActionTypes \ used[p]) - RequiredCount[type]
      /\ Left(l.used, p) = Left(used, p) - 1
      /\ CardsFor(ActionTypes \ used[p]) \in Nat /\ Left(used, p) \in Nat
      /\ RequiredCount[type] \in Nat
  BY <1>1, <1>4, Cost DEF Left
<1>6. Cardinality(l.hand[p]) = Cardinality(hand[p]) - RequiredCount[type]
  <2>1. hand[p] \in SUBSET Cards /\ hand[p] \cap cards = cards
    BY <1>1
  <2>2. IsFiniteSet(hand[p])
    BY <2>1, CardsFinite
  <2>3. QED
    <3>1. Cardinality(hand[p] \ cards) = Cardinality(hand[p]) - Cardinality(hand[p] \cap cards)
      BY <2>2, FS_Difference
    <3>2. QED
      BY <1>1, <1>3, <2>1, <3>1
<1>7. /\ phase # "game_over" /\ phase # PhaseForAction(q)
  BY <1>1 DEF PhaseForAction, Players
<1>8. DrawsLeft(p) = Left(used, p) - 1 /\ DrawsLeft(q) = Left(used, q) - 0
  BY <1>1, <1>7 DEF DrawsLeft, Left
<1>9. Left(l.used, q) = Left(used, q) /\ Left(used, q) \in Nat
  BY <1>1, <1>3, LeftFacts DEF Left
<1>10. Len(deck) = Left(l.used, "p1") + Left(l.used, "p2")
  <2>1. Len(deck) = DrawsLeft("p1") + DrawsLeft("p2")
    BY <1>7 DEF Covers
  <2>2. CASE p = "p1"
    BY <1>5, <1>8, <1>9, <2>1, <2>2 DEF Other
  <2>3. CASE p = "p2"
    BY <1>5, <1>8, <1>9, <2>1, <2>3 DEF Other
  <2>4. QED
    BY <2>2, <2>3 DEF Players
<1>11. Cardinality(l.hand[p]) = CardsFor(ActionTypes \ l.used[p]) - Left(l.used, p)
  <2>1. Cardinality(hand[p]) = CardsFor(ActionTypes \ used[p]) - DrawsLeft(p)
    BY <1>7 DEF Covers
  <2>2. QED
    BY <1>5, <1>6, <1>8, <2>1
<1>12. Cardinality(l.hand[q]) = CardsFor(ActionTypes \ l.used[q]) - Left(l.used, q)
  <2>1. Cardinality(hand[q]) = CardsFor(ActionTypes \ used[q]) - DrawsLeft(q)
    BY <1>1, <1>7 DEF Covers
  <2>2. QED
    BY <1>3, <1>8, <1>9, <2>1
<1>13. QED
  BY <1>1, <1>10, <1>11, <1>12 DEF TableCovers, l

LEMMA DrawCovers ==
  ASSUME AccountingInv, Covers, NEW p \in Players, Draw(p)
  PROVE  Covers'
<1> DEFINE q == Other(p)
           c == deck[Len(deck)]
<1>1. /\ q \in Players /\ q # p /\ \A r \in Players : r = p \/ r = q
      /\ hand \in [Players -> SUBSET Cards] /\ used \in [Players -> SUBSET ActionTypes]
      /\ deck \in Seq(Cards)
  BY DEF Players, Other, AccountingInv, TypeOK
<1>2. /\ Len(deck) > 0 /\ deck' = SubSeq(deck, 1, Len(deck) - 1) /\ used' = used
      /\ hand' = [hand EXCEPT ![p] = @ \cup {c}]
      /\ phase = PhaseForDraw(p) /\ phase' = PhaseForAction(p)
  BY DEF Draw
<1>3. Len(deck') = Len(deck) - 1 /\ Len(deck) \in Nat
  <2> DEFINE n == Len(deck)
  <2>1. n \in Nat /\ n > 0
    BY <1>1, <1>2
  <2>2. deck' = SubSeq(deck, 1, n - 1)
    BY <1>2
  <2> HIDE DEF n
  <2>3. Len(SubSeq(deck, 1, n - 1)) = n - 1
    BY <1>1, <2>1
  <2>4. QED
    BY <2>1, <2>2, <2>3 DEF n
<1>4. c \notin hand[p]
  <2>1. PICK hidden \in Cards : Accounted(PilesOf(deck, Table, pending), hidden)
    BY DEF AccountingInv, CardAccounting
  <2>2. /\ PilesOf(deck, Table, pending)["deck"] = DeckCards(deck)
        /\ PilesOf(deck, Table, pending)[HandPile(p)] = hand[p]
        /\ HandPile(p) \in DOMAIN PilesOf(deck, Table, pending)
        /\ "deck" \in DOMAIN PilesOf(deck, Table, pending) /\ HandPile(p) # "deck"
    BY DEF PilesOf, Table, HandPile, Players
  <2>3. DeckCards(deck) \cap hand[p] = {}
    BY <2>1, <2>2 DEF Accounted
  <2>4. c \in DeckCards(deck)
    BY <1>1, <1>2 DEF DeckCards
  <2>5. QED
    BY <2>3, <2>4
<1> HIDE DEF c
<1>5. Cardinality(hand'[p]) = Cardinality(hand[p]) + 1
  <2>1. IsFiniteSet(hand[p]) /\ hand'[p] = hand[p] \cup {c}
    BY <1>1, <1>2, CardsFinite
  <2>2. QED
    BY <1>4, <2>1, FS_AddElement
<1>6. hand'[q] = hand[q]
  BY <1>1, <1>2
<1>7. /\ phase # "game_over" /\ phase # PhaseForAction(p) /\ phase # PhaseForAction(q)
      /\ phase' # PhaseForAction(q)
  BY <1>1, <1>2 DEF PhaseForDraw, PhaseForAction, Players
<1>8. Left(used, p) \in Nat /\ Left(used, q) \in Nat
  BY <1>1, LeftFacts
<1>9. /\ DrawsLeft(p) = Left(used, p) - 0 /\ DrawsLeft(q) = Left(used, q) - 0
      /\ DrawsLeft(p)' = Left(used, p) - 1 /\ DrawsLeft(q)' = Left(used, q) - 0
  BY <1>2, <1>7 DEF DrawsLeft, Left
<1>10. /\ Len(deck) = DrawsLeft("p1") + DrawsLeft("p2")
       /\ Cardinality(hand[p]) = CardsFor(ActionTypes \ used[p]) - DrawsLeft(p)
       /\ Cardinality(hand[q]) = CardsFor(ActionTypes \ used[q]) - DrawsLeft(q)
  BY <1>1, <1>7 DEF Covers
<1>11. CardsFor(ActionTypes \ used[p]) \in Nat
  BY DEF CardsFor, Weigh, RequiredCount
<1>12. Len(deck') = DrawsLeft("p1")' + DrawsLeft("p2")'
  <2>1. CASE p = "p1"
    BY <1>3, <1>8, <1>9, <1>10, <2>1 DEF Other
  <2>2. CASE p = "p2"
    BY <1>3, <1>8, <1>9, <1>10, <2>2 DEF Other
  <2>3. QED
    BY <2>1, <2>2 DEF Players
<1>13. Cardinality(hand'[p]) = CardsFor(ActionTypes \ used'[p]) - DrawsLeft(p)'
  BY <1>2, <1>5, <1>8, <1>9, <1>10, <1>11
<1>14. Cardinality(hand'[q]) = CardsFor(ActionTypes \ used'[q]) - DrawsLeft(q)'
  BY <1>2, <1>6, <1>9, <1>10
<1>15. QED
  BY <1>1, <1>12, <1>13, <1>14 DEF Covers

LEMMA StepCovers ==
  ASSUME AccountingInv, Covers, Next
  PROVE  Covers'
<1>1. PICK p \in Players :
        \/ Draw(p)
        \/ \E cards \in SUBSET hand[p] :
              \/ PlaySecret(p, cards)
              \/ PlayDiscard(p, cards)
              \/ \E type \in {"gift", "competition"} : PlayOffer(p, type, cards)
        \/ \E chosen \in pending.groups : Resolve(p, chosen)
  BY DEF Next
<1>2. TypeOK /\ Other(p) \in Players
  BY PlayersFacts DEF AccountingInv
<1>3. CASE Draw(p)
  BY <1>3, DrawCovers
<1>4. ASSUME NEW cards, PlaySecret(p, cards)
      PROVE  Covers'
  <2> DEFINE l == LaidDown(p, "secret", cards)
             t == [l EXCEPT !.secret[p] = cards]
  <2>1. MayPlay(p, "secret", cards) /\ AdvanceAfterCompletedAction(t, Other(p))
    BY <1>4 DEF PlaySecret
  <2>2. TableCovers(l)
    BY <1>2, <2>1, PlayedCovers
  <2>3. t.used = l.used /\ t.hand = l.hand
    BY DEF LaidDown, Table
  <2> HIDE DEF l, t
  <2>4. TableCovers(t)
    BY <2>2, <2>3 DEF TableCovers
  <2>5. QED
    BY <1>2, <2>1, <2>4, AdvanceCovers
<1>5. ASSUME NEW cards, PlayDiscard(p, cards)
      PROVE  Covers'
  <2> DEFINE l == LaidDown(p, "discard", cards)
             t == [l EXCEPT !.discardPile = @ \cup cards]
  <2>1. MayPlay(p, "discard", cards) /\ AdvanceAfterCompletedAction(t, Other(p))
    BY <1>5 DEF PlayDiscard
  <2>2. TableCovers(l)
    BY <1>2, <2>1, PlayedCovers
  <2>3. t.used = l.used /\ t.hand = l.hand
    BY DEF LaidDown, Table
  <2> HIDE DEF l, t
  <2>4. TableCovers(t)
    BY <2>2, <2>3 DEF TableCovers
  <2>5. QED
    BY <1>2, <2>1, <2>4, AdvanceCovers
<1>6. ASSUME NEW type, NEW cards, PlayOffer(p, type, cards)
      PROVE  Covers'
  <2> DEFINE l == LaidDown(p, type, cards)
  <2>1. /\ MayPlay(p, type, cards) /\ phase' = PhaseForSelect(Other(p)) /\ deck' = deck
        /\ used' = l.used /\ hand' = l.hand
    BY <1>6 DEF PlayOffer
  <2>2. TableCovers(l)
    BY <1>2, <2>1, PlayedCovers
  <2> HIDE DEF l
  <2>3. \A r \in Players : DrawsLeft(r)' = Left(l.used, r)
    BY <1>2, <2>1, DrawsAllNext
  <2>4. QED
    BY <2>1, <2>2, <2>3 DEF Covers, TableCovers, Players
<1>7. ASSUME NEW chosen, Resolve(p, chosen)
      PROVE  Covers'
  <2> DEFINE t == Divided(p, chosen)
  <2>1. /\ AdvanceAfterCompletedAction(t, p) /\ phase = PhaseForSelect(p)
    BY <1>7 DEF Resolve
  <2>2. t.used = used /\ t.hand = hand
    BY DEF Divided, Table
  <2> HIDE DEF t
  <2>3. \A r \in Players : DrawsLeft(r) = Left(used, r)
    BY <2>1, DrawsAll
  <2>4. phase # "game_over"
    BY <2>1, PhasesDiffer
  <2>5. TableCovers(t)
    BY <2>2, <2>3, <2>4 DEF Covers, TableCovers, Players
  <2>6. QED
    BY <1>2, <2>1, <2>5, AdvanceCovers
<1>8. QED
  BY <1>1, <1>3, <1>4, <1>5, <1>6, <1>7

LEMMA InitCovers ==
  ASSUME Init
  PROVE  Covers
<1>1. PICK s \in Shuffles : deck = DealtDeck(s) /\ hand = [p \in Players |-> DealtHand(s, p)]
  BY DEF Init
<1>2. used = [p \in Players |-> {}] /\ phase = PhaseForDraw("p1") /\ "p1" \in Players
  BY DEF Init, Players
<1>3. \A r \in Players : DrawsLeft(r) = Left(used, r) /\ ActionTypes \ used[r] = ActionTypes
  BY <1>2, DrawsAll
<1>4. \A r \in Players : DrawsLeft(r) = ActionsIn(ActionTypes)
  BY <1>3 DEF Left
<1>5. Len(deck) = DrawsLeft("p1") + DrawsLeft("p2")
  BY <1>1, <1>4, DealCovers, FreshCovers DEF Players
<1>6. \A r \in Players : Cardinality(hand[r]) = CardsFor(ActionTypes \ used[r]) - DrawsLeft(r)
  BY <1>1, <1>3, <1>4, DealCovers, FreshCovers
<1>7. QED
  BY <1>5, <1>6 DEF Covers

(* dealRoundCards, reduceDraw and reducePlayAction keep hands, deck and    *)
(* unused actions in step, so that nobody meets an empty deck and no action*)
(* is unaffordable in its turn.                                            *)
THEOREM HandsDoCoverActions == Spec => []HandsCoverActions
<1>1. Init => Covers
  BY InitCovers
<1>2. AccountingInv /\ Covers /\ [Next]_vars => Covers'
  <2>1. ASSUME Covers, UNCHANGED vars PROVE Covers'
    BY <2>1 DEF Covers, DrawsLeft, vars
  <2>2. QED
    BY <2>1, StepCovers
<1>3. AccountingInv /\ Covers => HandsCoverActions
  BY CoversAffords DEF AccountingInv
<1>4. QED
  BY <1>1, <1>2, <1>3, AccountingHolds, PTL DEF Spec
=============================================================================
