SPECIFICATION PoolFairSpec
CONSTANTS
  NumThreads = 2
  ShardCount = 2
  Clients = {c}
  Tasks = {k1, n}
  Async = {k1}
  Nested = {n}
  Aborting = {k1}
  None = None
PROPERTIES TaskTaken WorkersStop RefinesExecutor
CHECK_DEADLOCK FALSE
