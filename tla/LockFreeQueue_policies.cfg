SPECIFICATION PoliciesSpec
CONSTANTS
  Producers = {p1, p2, p3}
  Consumers = {c1}
  Capacity = 2
  DropPolicy = "DropOldest"
  Policies = {"DropOldest", "Block"}
  MaxRetries = 2
  ForceDrop = TRUE
  MaxMessages = 1
  Nil = Nil
INVARIANTS TypeOK ProducersExclusive
PROPERTY EnqueueReturns
