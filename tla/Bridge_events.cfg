SPECIFICATION FairSpec
CHECK_DEADLOCK FALSE
CONSTANTS
  Kinds = {"modal", "bad", "file", "async", "close"}
  Sizes = {TRUE}
  MaxPosts = 2
  MaxNavigations = 2
  MaxEvents = 2
  PendingLimit = 2
  OutputLimit = 2
  OutputGate = 2
  WorkerCapacity = 3
  Timers = TRUE
INVARIANTS
  EventsInOrder
PROPERTIES
  NoLateExecution
  CloseFlushes
  
