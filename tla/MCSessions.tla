----------------------------- MODULE MCSessions -----------------------------
(* Sessions for TLC: users, requests and token serials are interchangeable. *)
EXTENDS Sessions, TLC

Symmetry == Permutations(Users) \cup Permutations(Requests) \cup Permutations(Serials)
=============================================================================
