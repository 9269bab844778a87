----------------------------- MODULE MCRequests -----------------------------
(* Requests for TLC: slots and serial numbers are interchangeable.          *)
EXTENDS Requests, TLC

CONSTANTS id1, id2

MCHeaders == {[request |-> id1, correlation |-> id2],
              [request |-> NoId, correlation |-> id2],
              [request |-> Blank, correlation |-> id2],
              [request |-> NoId, correlation |-> NoId]}

\* A few watts (in tenths) and charges, each of them zero, given or missing.
Readings == {Missing, 0, 12}

MCRaws ==
    [brand : {"GROWATT"}, state : {1, 3}, power : Readings, charge : Readings \X Readings]
      \cup [brand : {"SUNSYNK"}, state : {2}, power : Readings,
            charge : {<<>>} \cup {<<v>> : v \in Readings} \cup Readings \X Readings]

Symmetry == Permutations(Slots) \cup Permutations(Serials)
=============================================================================
