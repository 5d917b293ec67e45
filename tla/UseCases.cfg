\* The rings of oscillators.c, and one in which tasks meet the loopbreaker; the network
\* of prell.c with both handlers and its gate benches. Two threads are enough: one edge
\* circulates, so a second thread only finds work while the first returns. A drive gives
\* the sniffer at most two values, so History does not cut.
SPECIFICATION Spec
CONSTANTS
  NULL = NULL
  Main = main
  Workers = {t1, t2}
  Circuits <- UseCases
  History = 3
INVARIANTS
  
  LoopsAreBroken
  DestroyedIsIdle
  NoTokenLeft
  ComputesItsFunction
PROPERTIES
  WritesAreCurrent
  Prelling
  GoesIdle
  Oscillates
CHECK_DEADLOCK FALSE
