SPECIFICATION FairSpec
CONSTANTS
  c1 = c1
  c2 = c2
  Calls = {c1, c2}
  Bare = {c2}
  Elsewhere = {c2}
  MayHang = {c1, c2}
  MaxSamples = 3
  Threads = 2
INVARIANTS
  TypeOK
  EachOnce
  FewAreOvertaken
PROPERTIES
  NothingStarves
CHECK_DEADLOCK FALSE
