----------------------------- MODULE MCAccounts -----------------------------
(* Accounts for TLC: addresses, Google ids and requests are interchangeable *)
(* except that an idle request names some address, so addresses are not.    *)
EXTENDS Accounts, TLC

Symmetry == Permutations(Googles) \cup Permutations(Requests)
=============================================================================
