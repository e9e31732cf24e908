SPECIFICATION FairSpec
CONSTANTS
  Names = {n1, n2}
  Windows = {w1}
  Externals = {x1}
  Everyone = Everyone
  Sizes = {1}
  ServiceLimit = 2
  PendingLimit = 2
  OutputLimit = 2
  ByteLimit = 3
  MaxServices = 2
  MaxRequests = 2
  MaxEvents = 1
  MaxCancels = 1
  MaxDepth = 3
INVARIANTS
  AnswersStand
  CallsAccounted
PROPERTIES
  EveryCallEnds
