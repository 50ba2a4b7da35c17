INIT ComponentsInit
NEXT ComponentsNext
CONSTANTS
  Threads = {a, b, c}
  Testers = {a}
  Setters = {c}
  Ptrs = {p0, p1, p2}
  Bits = {1, 3}
  FirstCapacity = 1
  FirstArray = p0
  Clients = {a, b}
  Chunks = {c1, c2, c3}
  Null = Null
  MatrixRows = 2
  Generations = 2
  EpochDelay = 1
  CacheSlots = 2
  QuarantineLimit = 1
  Flags = {{"urgent", "ebr"}, {"ebr", "detached", "flip"}, {}}
  Holders = {o1, o2}
  Names = {n1, n2}
  Resources = {d1, d2}
  Carriers = {t1}
  Absent = Absent
  WordAnd <- MCAnd
  WordXor <- MCXor
  RingSizes = {1, 3, 4}
  Payloads = {x, y}
  PoolSizes = {3, 5}
  Nothing = Nothing
  TableKeys = {1, 2, 3, 4, 5}
  TableValues = {1, 2}
  TableHash <- MCHash
  TableCapacity = 4
  MaxProbe = 2
  NoEntry = NoEntry
  QueuedTasks = {x, y, z}
  Priorities = {1, 2}
  HeapCapacity = 1
  FirstBuffer = 1
  SlotSpace = 4
  BuddyClients = {x, y}
  Pools <- MCPools
  Orders = {0, 1}
  MinGrowth = 2
  MaxSegments = 2
  BTreeKeys = {1, 2, 3}
  BPlusKeys = {1, 2, 3, 4, 5, 6, 7}
  BPlusValues = {1, 2}
  Degree = 2
  BPlusOrder = 3
  MaxInserts = 9
  NotFound = NotFound
  NetClients = {x, y}
  SessionIds = {s1, s2, s3, s4}
  NoSession = NoSession
  Callers = {x, y}
  Binders = {x}
  Descriptors = {0, 1}
  MaxGeneration = 3
  MaxGuards = 2
  LatticeWorkers = {"w0", "w2"}
  Releaser = "r"
  WorkerId <- MCWorkerId
  Crews <- MCCrews
  MaxNodes = 2
  MaxViews = 1
  MaxPackets <- MCMaxPackets
  LimbBits = 2
  Words = {0, 1, 7}
  Exponents = {1, 2, 3}
  MaxMagnitude = 32
  ScanWorkers = {"v1", "v2"}
  MaxInflight = 2
  LastBlock = 1
  MaxLines = 3
  Seeds = {q1}
  NoSeed = NoSeed
  Hunters = {scout}
  Crew = {"v1", "v2"}
  QueueCap = 2
  Headroom = 1
  MaxTracks = 1
  MaxBoots = 2
INVARIANTS
  MaskExact TestLinear
  ChunkInOnePlace
  OwnerBindings RingFifo PoolItems TableFinds QueueInStep BlocksTile
  TreesFind SessionTree EndpointFds LatticeSlots BigIntExact
  FrontierSound BlockInOnePlace SeedKept LogsInStep
CHECK_DEADLOCK FALSE
