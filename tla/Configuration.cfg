SPECIFICATION Spec
CONSTANTS
  Unset = Unset
  cam = cam
  door = door
  anyOther = anyOther
  bad = bad
  custom = custom
  MaxEdits = 3
  Names = {cam, door, bad}
  RegexpNames = {anyOther}
  BadNames = {bad}
  AllOthers = {anyOther}
  Files <- MCFiles
  Globals <- MCGlobals
  PathValues <- MCPathValues
CHECK_DEADLOCK FALSE
INVARIANTS
  CamerasPaired
  RevalidationIsIdentity
PROPERTIES
  EditsTakeEffect
