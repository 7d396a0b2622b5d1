SPECIFICATION FairSpec
CONSTANTS
  topic = topic
  service = service
  a = a
  b = b
  String = String
  Int32 = Int32
  Bool = Bool
  Bridge = Bridge
  Aux = Aux
  AnyType = AnyType
  MayOffer <- MCTypes
INVARIANTS
  TypeOK
  OwnIsIgnored
PROPERTIES
  MappingFollowsGraph
CHECK_DEADLOCK FALSE
