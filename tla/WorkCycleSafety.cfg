SPECIFICATION Spec
CONSTANTS
  t1 = t1
  Topics = {t1}
  Mode <- MCMode
  LocalResources <- MCLocal
  RemoteResources <- MCRemote
  MayFail = TRUE
INVARIANTS
  TypeOK
  EntriesFollowViews
  BridgesFollowFlags
PROPERTIES
  PaceFollowsChange
  RefinesBridgeTable
CHECK_DEADLOCK FALSE
