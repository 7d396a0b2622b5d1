SPECIFICATION FairSpec
CONSTANTS
  t1 = t1
  Topics = {t1}
  Mode <- MCMode
  LocalResources <- MCLocalAuto
  RemoteResources <- MCRemoteAuto
  MayFail = FALSE
INVARIANTS
  BridgesFollowFlags
PROPERTIES
  LocalTopicsConverge
  AutoBridgesLocalTopics
CHECK_DEADLOCK FALSE
