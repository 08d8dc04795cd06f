SPECIFICATION FairSpec
CONSTANTS
  MaxMoves = 3
  MaxQueue = 2
  Tokens <- MCTokens
  SavesFail = FALSE
INVARIANTS
  SessionInv
  PeersAgree
  NoGaps
  ResumableSeats
PROPERTIES
  ImplementsSharedGame
  GuestCatchesUp
