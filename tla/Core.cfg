SPECIFICATION FairSpec
CONSTANTS
  Nil = Nil
  Invalid = Invalid
  Gone = Gone
  Requests = {r1, r2}
  ApiIds = {1, 2, 3}
  Touched <- Representative
  Values = {0, 2}
  HasFile = {TRUE, FALSE}
  MaxChanges = 2
CHECK_DEADLOCK FALSE
INVARIANTS
  PointersAreCurrent
  OneConfiguration

  
