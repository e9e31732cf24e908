SPECIFICATION FairSpec
CONSTANTS
  Sessions = {s1}
  QueueLimit = 2
  ByteLimit = 3
  MaxSubmits = 3
  InCost <- MCInCost
  OutCost <- MCJamCost
PROPERTIES Answered
