SPECIFICATION FairSpec
CONSTANTS
  p1 = p1
  p2 = p2
  Ports <- MCPorts
  MaxBridges = 3
INVARIANTS
  TypeOK
  AssertionsHold
  MasterHasOwner
  OneMaster
PROPERTY
  DroppedBridgesEnd
CHECK_DEADLOCK FALSE
