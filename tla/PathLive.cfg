SPECIFICATION FairSpec
CONSTANTS
  Readers = {r1, r2}
  Describers = {d1, d2}
  Publishers = {}
  Recordings = {"fmp4"}
  Nil = Nil
  Confs <- StaticKinds
  SetReadyMayFail = TRUE
PROPERTIES
  NobodyWaitsForever
  DemandEnds
