SPECIFICATION WatchedFairSpec
CONSTANTS
  Modes <- BothModes
  Backups <- AllBackups
  MaxCrashes = 2
  Keeps = {TRUE, FALSE}
  MaxBroken = 1
CHECK_DEADLOCK FALSE
INVARIANTS
  WatchedTypeOK
  StuckOnlyAfterBreak
  ReadOnlyUnlessCrashed
PROPERTIES
  DatabaseKept
  NothingIsMadeUpFor
  RunsUnlessStuck
  AlwaysRuns
  ImplementsPgPod
  StandbyTakesOver
  MissedForGood
  TouchSurvivesRestart
