SPECIFICATION EpochSpec
CONSTANTS
  Threads = {t1, t2}
  Ptrs = {p1}
  MaxSlots = 2
  Cells = 1
  EpochMod = 4
  EpochLimit = 4
  IdleReclaim = TRUE
  None = None
INVARIANTS GraceSafe
CHECK_DEADLOCK FALSE
