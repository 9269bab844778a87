-------------------------- MODULE MCPasswordReset --------------------------
(* PasswordReset for TLC: links, passwords and requests are interchangeable. *)
EXTENDS PasswordReset, TLC

Symmetry == Permutations(Links) \cup Permutations(Passwords) \cup Permutations(Requests)
=============================================================================
