CONSTANTS
  Libraries <- SomeLibraries
  Builtin = "builtin"
  Embedded <- SomeEmbedded
  Room = 6
  FewerRoom = 5
  Loads = 5
SPECIFICATION Spec
INVARIANTS
  TreeHasTheGates
  LeftOutIsReported
  ReadyHasItsSignals
PROPERTIES
  AgainChangesNothing
CHECK_DEADLOCK FALSE
