SPECIFICATION Spec
CONSTANTS
  Data = {d1, d2}
  maxSegmentSize = 6
  MaxSegments = 1
  MaxErrors = 0
  MaxRestarts = 1
INVARIANT OffsetsAlwaysRead
CHECK_DEADLOCK FALSE
