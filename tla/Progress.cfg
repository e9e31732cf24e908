SPECIFICATION Progress
CHECK_DEADLOCK FALSE
CONSTANTS
  MaxCleanups = 3
  MaxNavigations = 3
  MaxReloads = 2
  MaxListens = 2
PROPERTIES
  BothEnd
  CleanupFirst
  PageCatchesUp
  RevokedEnds
  NewestShown
  TurnComes
