SPECIFICATION FairTreeSpec
CONSTANTS
  Users = {u1, u2}
  Admins = {u1}
  Rotators = {u2}
  Cleaner = cleaner
  Nodes = {n1, n2}
  Forever = {}
  InPointerMap = FALSE
INVARIANTS MemTreeTypeOK HeldAlive NodeFreedOnce
PROPERTIES JoinReturns
CHECK_DEADLOCK FALSE
