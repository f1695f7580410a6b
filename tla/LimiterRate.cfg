SPECIFICATION RateSpec
CONSTANTS
  Addrs = {a1, a2}
  NoAddr = NoAddr
  Burst = 2
  RefillInterval = 2
  MaxHalfOpen = 2
  HalfOpenTimeout = 3
  LastTime = 6
INVARIANTS RateBound RefusalIsEarned
PROPERTY BucketsAreRecent
CHECK_DEADLOCK FALSE
