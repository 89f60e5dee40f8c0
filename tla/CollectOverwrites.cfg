SPECIFICATION Spec
CONSTANTS
  postgres = postgres
  userdb = userdb
  Databases <- MCDatabases
  HomeDb = postgres
  Bare <- NoneBare
  MaxFaults = 0
  Settings <- CompleteOnly
INVARIANTS
  EveryDatabaseKept
