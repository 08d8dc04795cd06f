SPECIFICATION PageSpec
CONSTANTS
  Geishas <- MCGeishas
  Value <- MCValue
  GeishaGoal = 2
  CharmGoal = 3
  Cards <- MCCards
  CharmOf <- MCCharmOf
  CardCount <- MCCardCount
  HandSize <- MCHandSize
  Shuffles <- MCShuffles
  Considered <- MCConsidered
  ActionTypes = {"gift", "competition"}
  MaxRounds = 1
  Me = "p1"
  Old = {"old"}
  MaxCommands = 1
  MaxEvents = 0
INVARIANTS
  PageOffers
  PageInv
  CardAccounting
CHECK_DEADLOCK FALSE
