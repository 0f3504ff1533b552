SPECIFICATION Spec
CONSTANTS
  c1 = c1
  c2 = c2
  m1 = m1
  m2 = m2
  m3 = m3
  q1 = q1
  q2 = q2
  Conns = {c1, c2}
  Channels = {1, 2}
  Queues = {q1, q2}
  Messages = {m1, m2, m3}
  ChannelMaps <- OwnOrShared
  publisherOf <- Publisher
  routingKey <- Key
  bodySize <- Size
  None = None
  MaxConsumes = 2
  MaxNacks = 1
INVARIANTS NothingLost UnackedExact RoutedWhole
CHECK_DEADLOCK FALSE
