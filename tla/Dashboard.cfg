\* Two tabs; the bounds let a login, a change and a second change overlap.
SPECIFICATION Spec
CHECK_DEADLOCK FALSE
CONSTANTS
  u1 = u1
  n1 = n1
  n2 = n2
  Nil = Nil
  Users = {u1, u2}
  Names = {n1, n2}
  Pages = {d1, d2}
  Stores <- MCStores
  MaxCameras = 2
  MaxRequests = 3
  Profiles <- MCProfiles
SYMMETRY Symmetry
INVARIANTS
  StoreIsConsistent
  
