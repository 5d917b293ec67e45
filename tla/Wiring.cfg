CONSTANTS
  InPorts <- TwoGatesIn
  OutPorts <- TwoGatesOut
  Wires = {w1, w2}
  Signals = {"bool", "int"}
  Tokens = {k1, k2, k3, k4, k5}
  NULL = NULL
SPECIFICATION Spec
SYMMETRY Symmetry
INVARIANTS
  SlotsHoldTheirToken
  SidesAgree
  OnlyUnlistedPortsStayWired
PROPERTIES
  WiresLikeANetlist
CHECK_DEADLOCK FALSE
