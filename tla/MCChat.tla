------------------------------- MODULE MCChat -------------------------------
(* Chat for TLC.  No symmetry: the run checks liveness.                    *)
EXTENDS Chat
=============================================================================
