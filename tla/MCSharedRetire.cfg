SPECIFICATION RetireSpec
CONSTANTS
  Threads = {r, w1, g}
  Readers = {r}
  Writers = {}
  Reclaimers = {g}
  Retirers = {w1}
  Owners = {r, w1}
  Levels = {0}
  Ptrs = {p0, box}
  First = p0
  Container = box
  MaxClock = 3
  MaxSlots = 3
  Cells = 1
  EpochMod = 8
  EpochLimit = 3
  IdleReclaim = TRUE
  None = None
INVARIANTS NoUseAfterFree
CHECK_DEADLOCK FALSE
