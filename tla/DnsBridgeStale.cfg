SPECIFICATION Spec
CONSTANTS
  c1 = c1
  c2 = c2
  c3 = c3
  pg = pg
  web = web
  a1 = a1
  a2 = a2
  Containers <- MCContainers
  Names <- MCNames
  NameOf <- MCNameOf
  Addresses <- MCAddresses
  NoAddress = NoAddress
  MaxQueue = 3
  MaxHttpFails = 0
  MaxRestarts = 0
CHECK_DEADLOCK FALSE
INVARIANTS
  NoStaleNames
