SPECIFICATION Spec
CONSTANTS
  Items = {0, 1, 2, 3, 4, 5, 6, 7}
  Infinity = 8
  Units = {1, 2, 4}
  Buckets = 2
  BoundSize = 1
  IdSize = 1
  FingerprintSize = 1
  FrameLimits = {NoLimit, 10}
  FrameMargin = 5
  NoLimit = NoLimit
  MaxRounds = 2
  MaxLimitedRounds = 5
CHECK_DEADLOCK FALSE
INVARIANTS ExactUnlimited Sound FitsFrame EndsInTime
