SPECIFICATION EpochSpec
CONSTANTS
  Threads = {t1, t2, t3}
  Ptrs = {p1}
  MaxSlots = 2
  Cells = 1
  EpochMod = 8
  EpochLimit = 3
  IdleReclaim = TRUE
  None = None
SYMMETRY Symmetry
INVARIANTS EpochTypeOK GraceSafe SlotExclusive RetiredOnce
CHECK_DEADLOCK FALSE
