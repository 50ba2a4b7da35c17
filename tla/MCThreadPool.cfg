SPECIFICATION PoolSpec
CONSTANTS
  NumThreads = 2
  ShardCount = 2
  Clients = {c, d}
  Tasks = {k1, k2, n}
  Async = {k1, k2}
  Nested = {n}
  Aborting = {k1, k2}
  None = None
SYMMETRY Symmetry
INVARIANTS PoolTypeOK OnePlace FreedByTheLast FutureAlive SectionPerBody
CHECK_DEADLOCK FALSE
