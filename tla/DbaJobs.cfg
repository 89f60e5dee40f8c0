SPECIFICATION FairSpec
CONSTANTS
  b1 = b1
  b2 = b2
  b3 = b3
  v1 = v1
  BackupRuns <- MCBackupRuns
  VacRuns <- MCVacRuns
  Texts <- MCTexts
  Tables <- MCTables
  Settings <- MCSettings
  MaxFaults = 2
CHECK_DEADLOCK FALSE
INVARIANTS
  TypeOK
  NothingInVain
  StatementAsAsked
PROPERTIES
  EveryRunWorks
  FailedForGood
  BackupKept
  VolumesKept
