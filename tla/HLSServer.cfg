SPECIFICATION HLSFairSpec
CONSTANTS
  Nil = Nil
  cam = cam
  Names = {cam}
  Muxers = {m1, m2}
  Clients = {m1, m2}
  Ids = {i1}
  Configs <- Kept
  RemuxSettings = {TRUE, FALSE}
\* The manager can be closed.
CHECK_DEADLOCK FALSE
INVARIANTS
  MuxersFollowPaths
  

  
