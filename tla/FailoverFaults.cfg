SPECIFICATION Spec
CONSTANTS
  m = m
  s1 = s1
  s2 = s2
  s3 = s3
  s4 = s4
  Pods <- MCPods4
  FirstMaster = m
  Replicas = 2
  Budget <- AllFaults
  Scenarios = {FALSE}
CHECK_DEADLOCK FALSE
SYMMETRY Symmetry4
INVARIANTS
  TypeOK
PROPERTIES
  LostForGood
  Fenced
  ReadOnlyStays
  PodsArePgPods
