SPECIFICATION DiscoverySpec
CONSTANTS
  a = a
  b = b
  c = c
  Declarers = {a, b}
  SessionOf <- MCApart
  Period = 3
  MaxTasks = 2
  MaxInbox = 2
  MaxMissed = 1
SYMMETRY MCSymmetry
INVARIANTS
  DiscoveryTypeOK
  DeclaredKeyIsAnnounced
  LossMeansSilence
  OneLossIsTolerated
  UndeclaredKeyIsLost
CHECK_DEADLOCK FALSE
