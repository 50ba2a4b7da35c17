SPECIFICATION SharedSpec
CONSTANTS
  Threads = {r, w1, w2}
  Readers = {r}
  Writers = {w1, w2}
  Reclaimers = {w2}
  Retirers = {}
  Owners = {r, w1}
  Levels = {0, 2, 3}
  Ptrs = {p0, p1, p2, box}
  First = p0
  Container = box
  MaxClock = 3
  MaxSlots = 3
  Cells = 1
  EpochMod = 8
  EpochLimit = 3
  IdleReclaim = FALSE
  None = None
INVARIANTS SharedTypeOK NoUseAfterFree SwappedOutOnce NoLeakedSection
CHECK_DEADLOCK FALSE
