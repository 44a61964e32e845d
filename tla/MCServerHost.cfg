SPECIFICATION HostSpec
CONSTANTS
  Runs = 4
  ReusePids = FALSE
  Pids = {1}
  Careful = TRUE
  Latest = 2
  UserSchema = 1
  BackupSchemas = {0, 3}
  MaxCommits = 1
  MaxFaults = 1
  MaxGeneration = 2
  MaxRespawns = 2
  None = None
INVARIANTS HostTypeOK OneServer NoStrayServer StoppedMeansStopped
PROPERTIES NothingIsLost UpgradesAreSnapshotted ServerSettles
CHECK_DEADLOCK FALSE
