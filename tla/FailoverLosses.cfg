SPECIFICATION FairSpec
CONSTANTS
  m = m
  s1 = s1
  s2 = s2
  s3 = s3
  s4 = s4
  Pods <- MCPods5
  FirstMaster = m
  Replicas = 2
  Budget <- Losses
  Scenarios = {TRUE, FALSE}
CHECK_DEADLOCK FALSE
INVARIANTS
  SinglePrimary
  DefinitionKept
  DataSurvives
PROPERTIES
  NeverTwoMasters
  HealsAgain
  ServedOrNoData
