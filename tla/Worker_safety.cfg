SPECIFICATION FairSpec
CONSTANTS
  Sessions = {s1, s2}
  QueueLimit = 2
  ByteLimit = 3
  MaxSubmits = 3
  InCost <- MCInCost
  OutCost <- MCOutCost
INVARIANTS
  NothingLost
  StateFileNewest
PROPERTIES
  Answered
  StopEnds
