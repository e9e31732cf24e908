SPECIFICATION Safety
CHECK_DEADLOCK FALSE
CONSTANTS
  Windows = {"w1", "w2", "jsfx"}
  External = {"e1"}
  Native = "native"
  Effects = {"jsfx"}
  None = "none"
  Projects = {"p1", "p2"}
  MaxChanges = 2
  MaxGestures = 3
  MaxDocuments = 2
  QueueLimit = 2
  BatchCalls = 1
  TwoPages <- OnePage
  TwoTickets <- Renewal
  Resource <- TwoChunks
  Tries = 2
  QueuedReplies = 2
  MaxBroken = 1
  MaxCalls = 3
INVARIANTS
  BlocksOwned
  WindowTyped
  PacketsHeld
PROPERTIES
  ImplementsChannel
  EndsForCause
