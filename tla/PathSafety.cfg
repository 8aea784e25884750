SPECIFICATION Spec
CONSTANTS
  Readers = {r1, r2, r3}
  Describers = {d1, d2}
  Publishers = {p1, p2}
  Recordings = {"fmp4", "mpegts"}
  Nil = Nil
  Confs <- AllKindsAndReloads
  SetReadyMayFail = FALSE
SYMMETRY Symmetry
INVARIANTS
  HeldExactlyOnce
  ReadersHaveStream
  NeverPanics
  StaticSourceFollowsDemand
  DemandIsBounded
PROPERTIES
  NoUnusedPathLeft
  ImplementsService
