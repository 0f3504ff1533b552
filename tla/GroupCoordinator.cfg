SPECIFICATION FairSpec
CONSTANTS
  Consumers = {c1, c2, c3}
  Nobody = Nobody
  MaxJoins = 4
INVARIANTS OwnersDisjoint GroupInv
PROPERTIES ChangeFences StoppedRemoved
CHECK_DEADLOCK FALSE
