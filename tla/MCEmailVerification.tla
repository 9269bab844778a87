------------------------ MODULE MCEmailVerification ------------------------
(* EmailVerification for TLC: codes and requests are interchangeable.      *)
EXTENDS EmailVerification, TLC

Symmetry == Permutations(Codes) \cup Permutations(Requests)
=============================================================================
