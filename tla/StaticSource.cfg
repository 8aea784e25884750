SPECIFICATION HandlerFairSpec
CONSTANTS
  Kinds = {"network", "camera", "secondary"}
  MaxReloads = 2
CHECK_DEADLOCK FALSE
INVARIANTS
  StreamFollowsInstance
  StoppedIsQuiet
  
PROPERTIES
  SourceRetried
  CallsReturn
