SPECIFICATION PoolSpec
CONSTANTS
  NumThreads = 1
  ShardCount = 2
  Clients = {c}
  Tasks = {k1}
  Async = {k1}
  Nested = {}
  Aborting = {}
  None = None
INVARIANT TemporaryExit
CHECK_DEADLOCK FALSE
