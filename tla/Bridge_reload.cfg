SPECIFICATION Spec
CHECK_DEADLOCK FALSE
CONSTANTS
  Kinds = {"sync"}
  Sizes = {TRUE}
  MaxPosts = 3
  MaxNavigations = 2
  MaxEvents = 0
  PendingLimit = 2
  OutputLimit = 2
  OutputGate = 1
  WorkerCapacity = 3
  Timers = FALSE
INVARIANTS
  ReloadInvalidates
