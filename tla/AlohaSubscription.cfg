SPECIFICATION FairSpec
CONSTANTS
  k1 = k1
  k2 = k2
  Keys <- MCKeys
INVARIANTS
  TypeOK
  CallbacksExclude
  AnnouncedAreTracked
  AnnouncedOnce
  FreshIsNotLost
PROPERTIES
  SilentKeyIsLost
  DroppedSubscriptionEnds
CHECK_DEADLOCK FALSE
