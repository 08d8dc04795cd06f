SPECIFICATION MatchSpec
CONSTANTS
  Geishas <- MCGeishas
  Value <- MCValue
  GeishaGoal = 4
  CharmGoal = 11
  MaxRounds = 3
INVARIANTS
  UndecidedMeansNoGoal
  CharmGoalWins
CHECK_DEADLOCK FALSE
