SPECIFICATION PoliciesSpec
CONSTANTS
  Producers = {p1, p2}
  Consumers = {c1, c2}
  Capacity = 2
  DropPolicy = "DropNewest"
  Policies = {"DropNewest"}
  MaxRetries = 2
  ForceDrop = FALSE
  MaxMessages = 2
  Nil = Nil
INVARIANTS SlotExclusive DeliveredInOrder DeliveredOnce RingInv
PROPERTIES RefinesFifo AcceptedDelivered
