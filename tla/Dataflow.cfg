CONSTANTS
  Circuits <- AllCircuits
  Numbers = {1, 2, 3}
  Values <- SomeValues
  Drives = 4
  NULL = NULL
SPECIFICATION Spec
INVARIANTS
  ResultIsRight
  ReferencesAreHolders
  NoFreedValueIsUsed
PROPERTIES
  WritesReturn
CHECK_DEADLOCK FALSE
