SPECIFICATION Spec
CONSTANTS
  Producers = {p1}
  Consumers = {c1, c2}
  Capacity = 4
  DropPolicy = "DropOldest"
  MaxRetries = 2
  ForceDrop = FALSE
  MaxMessages = 5
  Nil = Nil
INVARIANT DeliveredOnce
