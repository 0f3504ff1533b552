SPECIFICATION ServicesSpec
CONSTANTS
  KafkaClients = {c1, c2}
  KafkaTopics = {t1}
  Size <- Sizes
  MaxProduced = 2
  MaxLog = 2
  MaxDeletes = 1
  OffsetGroups = {g1}
  OffsetPartitions = {p0, p1}
  Committers = {k1, k2}
  MaxOffset = 0
  TxnPartitions = {"p", "q"}
  Senders = {s1, s2}
  MaxSends = 3
  MaxTxns = 3
  CgMembers = {m1, m2}
  MaxGeneration = 4
  MaxPartitions = 4
  Messages = {1, 2}
  ApiRequests = {"r1", "r2"}
  MaxMessages = 1
  Sockets = {"k1", "k2"}
  SocketBuffer = 1
  MaxPublished = 3
  PoolUsers = {"u1", "u2"}
  MaxObjects = 3
  PoolSizes = 2
  PrCallers = {"u1"}
  PrWorkers = {"w"}
  QueueSize = 1
  BatchSize = 2
  EnableZeroCopy = TRUE
  EnableBackpressure = TRUE
  MaxBuffered = 2
  Jobs = {"j1"}
  WorkerNames = {"w1", "w2"}
  MaxWorkers = 2
  Clients = {"c1", "c2"}
  MaxConnections = 1
  MaxRequests = 1
  NgMembers = {"m1", "m2", "m3"}
  NgParts = {"p", "q"}
  MaxGenerations = 4
  MaxEnd = 2
  NgMaxCalls = 3
  WsClients = {"c1", "c2"}
  WsBuffer = 1
  MaxBroadcasts = 1
  WsMaxMessages = 2
  Requests = {"r1", "r2"}
  Configs = {1, 2}
  UltraThreads <- TwoAndOne
  UltraCapacity = 2
  MaxUltra = 3
  UltraWorkers = 2
  WorkerChannel = 1
  UltraBatch = 2
  ProcMaxRetries = 1
  Latencies = {1, 2}
  MetricBuffer = 1
  MaxRecords = 2
  MaxStarts = 2
  SampleSize = 3
  MaxSamples = 3
  Percentiles = {50, 100}
  Readers = {"r1", "r2"}
  SmoothingWindow = 4
  MaxDecisions = 6
  RlRequests = {"a", "b"}
  Rate = 1
  Burst = 2
  StaleAfter = 1
  MaxTime = 2
  MaxBuckets = 2
INVARIANTS
  ConsumedPrefix TransactionExact AssignmentsCover
  BuffersOwned    CountsExact
 
CHECK_DEADLOCK FALSE
