SPECIFICATION FairSpec
CONSTANTS
  postgres = postgres
  userdb = userdb
  Databases <- MCDatabases
  HomeDb = postgres
  Bare <- OneBare
  MaxFaults = 1
  Settings <- MCSettings
INVARIANTS
  TypeOK
  PollsDeliver
  ConnectionsBounded
  OnlyCountWithoutSettings
PROPERTIES
  CollectionResumes
