SPECIFICATION FairSpec
CHECK_DEADLOCK FALSE
CONSTANTS
  r1 = r1
  r2 = r2
  Readers = {r1, r2}
  NoReader = NoReader
  Settings <- Pick
  QueueSize = 1
  MaxUnits = 3
INVARIANTS
  UnitsAreUsable
  NothingAfterRemove
PROPERTIES
  RemoveEnds
