SPECIFICATION FairSpec
CONSTANTS
  Nil = Nil
  cam = cam
  Names = {cam}
  Clients = {c1}
  Ids = {i1, i2}
  Configs <- Moves
\* The manager can be closed.
CHECK_DEADLOCK FALSE
INVARIANTS
  NoConflictingSources
  TableFollowsPaths
  ConfigurationInForce
PROPERTIES
  NoDeadlock
