\* The rings of oscillators.c.
SPECIFICATION Spec
CONSTANTS
  NULL = NULL
  Main = main
  Workers = {t1, t2}
  Circuits <- Oscillators
  History = 2
INVARIANT TasksAreAccepted
CHECK_DEADLOCK FALSE
