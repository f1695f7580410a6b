SPECIFICATION FairSpec
CONSTANTS
  Addrs = {a1, a2}
  Burst = 2
  RefillInterval = 1
  MaxHalfOpen = 2
  HalfOpenTimeout = 2
  HandshakeTimeout = 2
  MaxLifetime = 4
  Skew = 1
  MaxTime = 5
  MaxLinks = 3
INVARIANTS HandshakesTracked ClosedOnce NothingFromTheFuture
PROPERTY HalfOpenEnds
