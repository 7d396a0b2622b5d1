SPECIFICATION FairSpec
CONSTANTS
  t1 = t1
  Topics = {t1}
  Mode <- MCMode
  LocalResources <- MCLocalOne
  RemoteResources <- MCRemoteOne
  MayFail = FALSE
PROPERTY
  AutoBridgesDiscoveredTopics
CHECK_DEADLOCK FALSE
