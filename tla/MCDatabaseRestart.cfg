SPECIFICATION DbSpec
CONSTANTS
  Runs = 2
  ReusePids = TRUE
  Pids = {1}
  Careful = TRUE
  Latest = 1
  UserSchema = 1
  BackupSchemas = {1}
  MaxCommits = 1
  MaxFaults = 1
  None = None
PROPERTY RefusedOnlyWhenOpen
CHECK_DEADLOCK FALSE
