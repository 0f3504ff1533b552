SPECIFICATION Spec
CONSTANTS
  Consumers = {c1, c2}
  Nobody = Nobody
  MaxJoins = 3
INVARIANT StableAssigned
CHECK_DEADLOCK FALSE
