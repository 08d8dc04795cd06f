SPECIFICATION FairSpec
CONSTANTS
  r1 = r1
  r2 = r2
  g1 = g1
  g2 = g2
  Rooms <- OneRoom
  Guests <- TwoGuests
  Texts <- NoText
  MaxInvites = 1
CHECK_DEADLOCK FALSE
PROPERTY
  AnswerArrives
