CONSTANTS
  Cap = 6
  NUL = NUL
  DIRECTORY = DIRECTORY
  Junk = {NUL, "n"}
  Files <- SomeFiles
  Tasks = {1, 2}
SPECIFICATION Spec
INVARIANTS
  FittingFilesArePrinted
  ReferencesAreHolders
PROPERTIES
  ProgramEnds
CHECK_DEADLOCK FALSE
