SPECIFICATION Spec
CONSTANTS
  MaxMoves = 2
  MaxQueue = 1
  Tokens <- MCTokens
  SavesFail = TRUE
INVARIANTS
  GuestSeesGame
  InformedMoves
