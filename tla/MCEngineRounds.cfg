SPECIFICATION Spec
CONSTANTS
  Geishas <- MCGeishas
  Value <- MCValue
  GeishaGoal = 3
  CharmGoal = 3
  Cards <- MCCards
  CharmOf <- MCCharmOf
  CardCount <- MCCardCount
  HandSize <- MCHandSize
  Shuffles <- MCOneShuffle
  ActionTypes = {"secret", "discard", "gift"}
  MaxRounds = 2
INVARIANTS
  TypeOK
  TurnsAlternate
  ScoresFollowOwners
  HandsCoverActions
PROPERTIES
  EveryMoveCounts
  CardsStayDown
  ImplementsMatch
CHECK_DEADLOCK FALSE
