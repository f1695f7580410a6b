SPECIFICATION Spec
CONSTANTS
  Instances = {1, 2}
  Scenarios <- MCScenarios
  Addrs = {a1}
  BackoffBase = 1
  BackoffCap = 2
  ShiftCap = 2
  MaxTime = 5
INVARIANTS ToggleTells StopReleases PolicyAgrees
PROPERTIES AttemptsBackOff StartsConclude
CHECK_DEADLOCK FALSE
