SPECIFICATION Spec
CONSTANTS
  a = a
  b = b
  c = c
  Declarers = {a, b, c}
  SessionOf <- MCApart
  Period = 5
  MaxTasks = 2
SYMMETRY MCSymmetry
INVARIANTS
  TypeOK
  LiveKeyIsHeard
  SilenceIsShort
  OrphansFallSilent
CHECK_DEADLOCK FALSE
