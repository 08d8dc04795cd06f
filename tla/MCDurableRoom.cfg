SPECIFICATION FairSpec
CONSTANTS
  a = a
  b = b
  c = c
  a1 = a1
  a2 = a2
  b1 = b1
  c1 = c1
  Clients = {a, b, c}
  Sockets <- MCSockets
  ClientOf <- MCClientOf
  MaxTimers = 2
INVARIANTS
  RoomInv
PROPERTIES
  RoomBecomesFree
CHECK_DEADLOCK FALSE
