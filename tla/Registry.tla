------------------------------ MODULE Registry ------------------------------
(***************************************************************************)
(* What a user may rely on when an installation was connected: it is held  *)
(* by that account until the account leaves for good, and nobody else can  *)
(* claim it, not even while it is suspended.  A suspended installation     *)
(* does not come back.  An account that has left claims nothing any more.  *)
(***************************************************************************)
CONSTANTS
    Installations,
    Accounts

VARIABLES
    holders,  \* holders[s]: the accounts that hold installation s
    working,  \* the installations that are not suspended
    left      \* the accounts that have left

registryVars == <<holders, working, left>>

Init ==
    /\ holders = [s \in Installations |-> {}]
    /\ working = {}
    /\ left = {}

Claim(s, a) ==
    /\ holders[s] = {}
    /\ a \notin left
    /\ holders' = [holders EXCEPT ![s] = {a}]
    /\ working' = working \cup {s}
    /\ UNCHANGED left

Suspend(s) ==
    /\ s \in working
    /\ working' = working \ {s}
    /\ UNCHANGED <<holders, left>>

Leave(a) ==
    /\ a \notin left
    /\ left' = left \cup {a}
    /\ holders' = [s \in Installations |-> holders[s] \ {a}]
    /\ working' = {s \in working : a \notin holders[s]}

Next ==
    \/ \E s \in Installations, a \in Accounts : Claim(s, a)
    \/ \E s \in Installations : Suspend(s)
    \/ \E a \in Accounts : Leave(a)

Spec == Init /\ [][Next]_registryVars
=============================================================================
