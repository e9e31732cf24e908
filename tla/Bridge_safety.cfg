SPECIFICATION Spec
CHECK_DEADLOCK FALSE
CONSTANTS
  Kinds = {"sync", "modal", "async", "file", "close", "input", "bad"}
  Sizes = {TRUE, FALSE}
  MaxPosts = 3
  MaxNavigations = 2
  MaxEvents = 1
  PendingLimit = 2
  OutputLimit = 2
  OutputGate = 1
  WorkerCapacity = 3
  Timers = FALSE
INVARIANTS
  RunsInOrder
  AnsweredOnce
  CountersExact
