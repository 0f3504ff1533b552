SPECIFICATION WritersSpec
CONSTANTS
  Messages = {m1, m2, m3}
  ShardMessages = {m1, m2, m3}
  BatchSize = 2
  MaxRetries = 1
  MaxErrors = 2
  NumShards = 2
  getShardID <- OneTopic
  Capacity = 1
  AsyncMessages = {m1, m2, m3}
  AsyncBatchSize = 2
  AsyncMaxErrors = 2
  AsyncShards = 1
  asyncShardID <- OneTopic
  AsyncCapacity = 1
  ConfirmBuffer = 1
INVARIANTS StopFlushes 
PROPERTIES WritersImplementLog WritersStore WritersStop
\* A writer that is stopped, and whose messages are all written, has nothing to do.
CHECK_DEADLOCK FALSE
