SPECIFICATION Spec
CONSTANTS
  m = m
  s1 = s1
  s2 = s2
  s3 = s3
  s4 = s4
  Pods <- MCPods4
  FirstMaster = m
  Replicas = 2
  Budget <- TwoLosses
  Scenarios = {FALSE}
CHECK_DEADLOCK FALSE
PROPERTIES
  NewMasterHasData
