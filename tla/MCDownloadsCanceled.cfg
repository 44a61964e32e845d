SPECIFICATION Spec
CONSTANTS
  Jobs = {j1}
  Optimized = {}
  Sized = {}
  Concurrency = 1
  MaxRetries = 0
  MaxEvents = 0
  MaxUpdates = 2
  DiskMayFail = FALSE
  Clicks = {"stop"}
  MaxClicks = 1
  MaxRestarts = 0
CHECK_DEADLOCK FALSE
PROPERTY
  CanceledIsFinal
