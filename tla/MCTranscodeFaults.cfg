CONSTANTS
  Sessions = {s1, s2}
  Calls = {c1, c2}
  Options = {o1, o2}
  None = None
  MaxTranscodes = 1
  MaxCrashes = 1
  Revocable = {}
  DiskMayFail = TRUE
  MayStop = TRUE
SPECIFICATION Spec
SYMMETRY Symmetry
INVARIANTS
  TypeOK
  CapRespected
  CreationsExclusive
  StartingOwnsJob
  RightTimeline
PROPERTY
  ImplementsPool
