SPECIFICATION WatchedSpec
CONSTANTS
  Modes <- SlaveOnly
  Backups <- NoBackup
  MaxCrashes = 1
  Keeps = {FALSE}
  MaxBroken = 0
CHECK_DEADLOCK FALSE
INVARIANTS
  SlaveIsReadOnly
