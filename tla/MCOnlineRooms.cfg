SPECIFICATION FairSpec
CONSTANTS
  a = a
  b = b
  a1 = a1
  a2 = a2
  b1 = b1
  b2 = b2
  Browsers = {a, b}
  Sockets <- MCThreeSockets
  BrowserOf <- MCBrowserOfThree
  Rooms = {r1, r2}
  MaxTokens = 4
CHECK_DEADLOCK FALSE
INVARIANTS
  OnlineInv
  SeatHolders
  WaitingRooms
  AddressesAgree
  NoGhosts
PROPERTIES
  ReleasedRoomsGo
