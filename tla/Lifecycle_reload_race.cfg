SPECIFICATION FairSpec
CHECK_DEADLOCK FALSE
CONSTANTS
  MaxCleanups = 3
  MaxNavigations = 3
  MaxReloads = 1
  MaxListens = 1
PROPERTIES
  CloseHappens
