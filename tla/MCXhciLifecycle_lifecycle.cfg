SPECIFICATION Spec
CONSTANTS
  MaxStarts = 3
  MaxSchedules = 4
  MaxErrors = 2
INVARIANTS
  LifecycleInvariant
  MonitorIsSafe
  NoDmaAfterFree
  NoDanglingInstance
CHECK_DEADLOCK FALSE
