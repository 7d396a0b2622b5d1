SPECIFICATION FairSpec
CONSTANTS
  t1 = t1
  a = a
  b = b
  c = c
  d = d
  n1 = n1
  n2 = n2
  Wild = Wild
  Topics = {t1}
  Mode <- MCAuto
  Bridges = {a, b, c, d}
  Namespace <- MCNamespace
  UserResources <- MCUserResources
INVARIANTS
  TypeOK
  StorageFollowsDiscovery
PROPERTIES
  NetworkConverges
CHECK_DEADLOCK FALSE
