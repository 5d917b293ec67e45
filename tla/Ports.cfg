CONSTANTS
  Names = {"const", "address", "port"}
  Types <- SomeTypes
  EMPTY = EMPTY
  Kinds = {"behavior", "const", "sockaddr", "javaIn", "javaOut"}
  BehaviorPorts <- ThreePorts
  MaxOutputs = 3
  Constants <- SomeConstants
  NULL = NULL
SPECIFICATION Spec
INVARIANTS
  PortsCorrespond
  WiresStayWithTheirPorts
  CreatorFindsItsInputs
  NamesLeadToPorts
PROPERTIES
  PortsLikeAMap
CHECK_DEADLOCK FALSE
