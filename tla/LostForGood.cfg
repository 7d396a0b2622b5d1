SPECIFICATION FairSpec
CONSTANTS
  k1 = k1
  k2 = k2
  Keys = {k1}
PROPERTY
  HeardKeyIsAnnounced
CHECK_DEADLOCK FALSE
