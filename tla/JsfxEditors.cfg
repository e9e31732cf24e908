SPECIFICATION Spec
CHECK_DEADLOCK FALSE
CONSTANTS
  Web = {"w1"}
  Plain = {"p"}
  Hosts = {1, 2, 3, 4}
  Sessions = {1}
  MaxChains = 1
  MaxSwitches = 1
  MaxDeletes = 0
  MaxFailures = 1
INVARIANTS
  NativeRestored
