SPECIFICATION FairSpec
CONSTANTS
  Jobs = {j1}
  Optimized = {j1}
  Sized = {j1}
  Concurrency = 1
  MaxRetries = 1
  MaxEvents = 1
  MaxUpdates = 1
  DiskMayFail = TRUE
  Clicks = {"pause", "retry", "resume"}
  MaxClicks = 2
  MaxRestarts = 1
CHECK_DEADLOCK FALSE
PROPERTIES
  
  RetriesAreBounded
