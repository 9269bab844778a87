---------------------------- MODULE MCOnboarding ----------------------------
(* Onboarding for TLC: serial numbers and requests are interchangeable;    *)
(* users are not, because Idle names one of them.                          *)
EXTENDS Onboarding, TLC

Symmetry == Permutations(Serials) \cup Permutations(Requests)
=============================================================================
