CONSTANTS
  Sessions = {s1}
  Calls = {c1, c2}
  Options = {o1, o2}
  None = None
  MaxTranscodes = 1
  MaxCrashes = 0
  Revocable = {s1}
  DiskMayFail = FALSE
  MayStop = FALSE
SPECIFICATION FairSpec
PROPERTIES
  EveryCallAnswered
  RevokedSessionQuiesces
