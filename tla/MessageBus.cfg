SPECIFICATION FairSpec
CONSTANTS
  m1 = m1
  m2 = m2
  m3 = m3
  t1 = t1
  None = None
  Messages = {m1, m2, m3}
  Routes <- TopicOrHigh
  Topics = {t1}
  Workers = {w1, w2}
  Capacity = 2
  HighBatch = 1
  NormalBatch = 1
  LowBatch = 1
  TopicBatch = 1
  MaxBatches = 2
  MaxStarts = 1
INVARIANTS  LowVisited
PROPERTIES  StopReturns
CHECK_DEADLOCK FALSE
