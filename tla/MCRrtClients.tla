---------------------------- MODULE MCRrtClients ----------------------------
(* Instances of RrtClients for TLC.  There is no symmetry: the runs check     *)
(* liveness as well.                                                        *)
EXTENDS RrtClients, TLC
=============================================================================
