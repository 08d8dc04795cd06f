SPECIFICATION FairSpec
CONSTANTS
  Sockets = {s1, s2, s3, s4}
  Bases = 3
  MaxEmits = 5
INVARIANTS
  OneConnection
  OnceInOrder
  StatusSettles
PROPERTIES
  AttemptsSettle
CHECK_DEADLOCK FALSE
