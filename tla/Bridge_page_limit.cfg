SPECIFICATION Spec
CHECK_DEADLOCK FALSE
CONSTANTS
  Kinds = {"sync", "modal"}
  Sizes = {TRUE}
  MaxPosts = 4
  MaxNavigations = 1
  MaxEvents = 0
  PendingLimit = 2
  OutputLimit = 2
  OutputGate = 1
  WorkerCapacity = 3
  Timers = TRUE
INVARIANTS
  PageLimitProtects
