SPECIFICATION Spec
CONSTANTS
  r1 = r1
  r2 = r2
  g1 = g1
  g2 = g2
  Rooms <- TwoRooms
  Guests <- TwoGuests
  Texts <- OneGuest
  MaxInvites = 1
SYMMETRY RoomsAlike
CHECK_DEADLOCK FALSE
INVARIANTS
  PromiseKept
  AnswerFits
  ExpiredForGood
  RelayInv

  
