SPECIFICATION AllSpec
CHECK_DEADLOCK FALSE
CONSTANTS
  Producers = {p1, p2}
  Places = 1
  Capacity = 2
  PassLimit = 2
  AllocationLimit = 1
  MaxStreams = 2
  MaxPackets = 3
  Visitor <- OneVisitor
  Rival <- OneRival
  Contexts = {1, 2}
  Addresses = {a1, a2, a3}
  NoObject = null
  MaxObjects = 3
  MaxTokens = 3
  MaxResets = 1
  PruneStep = 1
  Windows = {1, 2}
  Callers = {3}
  MaxIds = 3
  WatchLimit = 2
  TimerLimit = 2
  ChangeLimit = 2
  EventLimit = 4
  MaxFound = 2
  Subscribers = {1}
  Rates = {1, 2}
  MaxSerial = 3
  MaxActive = 2
  MaxFailures = 2
  Gestures = {upload, state}
  Notes = {on, off}
  Uploads = {upload}
  Undone = {upload, state, off}
  NodeLimit = 2
  MaxDocuments = 2
  MaxEffects = 1
  Apps = {app}
  FxPages = {fx}
  MaxNavigations = 2
  MaxViews = 1
  MaxAttempts = 2
  Dockers = {docker, frame1}
  Nested = {docker}
  MaxDepth = 1
  MaxNested = 2
  Frames = {1, 2}
  MaxPresses = 1
  MaxFronts = 2
  Shortcuts <- OneShortcut
  Space <- OneSpace
  Single = {1}
  Several = {1, 2}
  Overlays = {2}
  Spots = {1, 2}
  MaxSessions = 2
  MaxSaves = 2
  FewSaves = 1
  MaxMoves = 2
  FewMoves = 0
  MaxCrashes = 1
  FewCrashes = 0
INVARIANTS
  OwnStream
  SlotExclusive
  Kept
  RequestsHonest
  OwnersReal
  
  
  
  
  InspectorKept
  
  ThreadsHonest
  EditorsWhole
  KeysComeUp
  PlacesRemembered
