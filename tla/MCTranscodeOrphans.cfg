CONSTANTS
  Sessions = {s1}
  Calls = {c1, c2, c3}
  Options = {o1, o2}
  None = None
  MaxTranscodes = 2
  MaxCrashes = 0
  Revocable = {}
  DiskMayFail = FALSE
  MayStop = FALSE
SPECIFICATION Spec
SYMMETRY Symmetry
INVARIANT EveryFfmpegIsOwned
