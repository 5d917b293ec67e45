---------------------------- MODULE MCWorkerPool ----------------------------
(* Instances of WorkerPool for TLC.  There is no symmetry: the runs check     *)
(* liveness as well.                                                        *)
EXTENDS WorkerPool, TLC
=============================================================================
