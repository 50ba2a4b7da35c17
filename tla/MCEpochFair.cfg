SPECIFICATION EpochFairSpec
CONSTANTS
  Threads = {t1, t2}
  Ptrs = {p1}
  MaxSlots = 2
  Cells = 2
  EpochMod = 8
  EpochLimit = 7
  IdleReclaim = FALSE
  None = None
PROPERTIES EventuallyFreed RefinesContract
CHECK_DEADLOCK FALSE
