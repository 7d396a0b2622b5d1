SPECIFICATION FairSpec
CONSTANTS
  t1 = t1
  a = a
  b = b
  c = c
  d = d
  n1 = n1
  n2 = n2
  Wild = Wild
  Topics = {t1}
  Mode <- MCLazy
  Bridges = {a, b}
  Namespace <- MCDefault
  UserResources <- MCBothPublish
PROPERTY
  PeersAreHeard
CHECK_DEADLOCK FALSE
