\* The benches of prell.c, and the one it lacks: a "bool and".
SPECIFICATION Spec
CONSTANTS
  NULL = NULL
  Main = main
  Workers = {}
  Circuits <- PrellCircuits
  History = 3
INVARIANTS
  MeansItsName
