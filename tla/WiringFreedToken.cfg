CONSTANTS
  InPorts <- SubtypesIn
  OutPorts <- SubtypesOut
  Wires = {w1}
  Signals = {"struct"}
  Tokens = {k1, k2, k3}
  NULL = NULL
SPECIFICATION Spec
INVARIANT SlotsHoldTheirToken
CHECK_DEADLOCK FALSE
