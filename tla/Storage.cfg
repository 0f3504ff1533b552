SPECIFICATION StorageSpec
CONSTANTS
  Data = {d1, d2, d3}
  maxSegmentSize = 4
  MaxSegments = 3
  MaxErrors = 1
  MaxRestarts = 1
  Readers = {r1, r2}
  Contents = {c1, c2}
  MaxEntries = 2
  MaxReads = 3
  DfClients = {c1, c2}
  DfIds = {m1, m2}
  DfTopics = {"t"}
  DfTopicOf <- TopicOf
  DfTtl = {m1}
  DfOld = {m2}
  DfLimit = 2
  DfMaxOps = 2
  EsClients = {e1, e2}
  EsBatch = {"a", "b"}
  EsSingles = {"x", "y"}
  MaxWrites = 3
INVARIANTS OffsetsRead SyncedSurvives  DragonflyKeeps EmbeddedAtomic
PROPERTY CurrentDurable
CHECK_DEADLOCK FALSE
