---------------------------- MODULE MCEmailQueue ----------------------------
(* EmailQueue for TLC.  No symmetry: the run checks liveness.              *)
EXTENDS EmailQueue
=============================================================================
