SPECIFICATION FairSpec
CONSTANTS
  Jobs = {j1, j2}
  Optimized = {}
  Sized = {j1}
  Concurrency = 1
  MaxRetries = 0
  MaxEvents = 0
  MaxUpdates = 2
  DiskMayFail = FALSE
  Clicks = {"pause", "stop", "retry"}
  MaxClicks = 1
  MaxRestarts = 0
CHECK_DEADLOCK FALSE
INVARIANTS
  TypeOK
  SlotCap
PROPERTY
  EveryDownloadComesToRest
