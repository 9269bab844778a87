---------------------------- MODULE SessionGate ----------------------------
(***************************************************************************)
(* What the stored refresh-token hash promises, told without tokens or     *)
(* hashes.  A user's session is open or closed.  A request may enter with  *)
(* credentials at any time, with a refresh token only while the session is *)
(* open; whatever has entered may still open the session when it is done.  *)
(***************************************************************************)
CONSTANTS Users, Requests

VARIABLES
    open,      \* the users whose session is open
    signing,   \* signing[u]: requests inside for u that brought credentials
    renewing   \* renewing[u]: requests inside for u that brought a token

vars == <<open, signing, renewing>>

Inside(r) == \E u \in Users : r \in signing[u] \cup renewing[u]

Init ==
    /\ open = {}
    /\ signing = [u \in Users |-> {}]
    /\ renewing = [u \in Users |-> {}]

SignIn(r, u) ==
    /\ ~Inside(r)
    /\ signing' = [signing EXCEPT ![u] = @ \cup {r}]
    /\ UNCHANGED <<open, renewing>>

Renew(r, u) ==
    /\ ~Inside(r)
    /\ u \in open
    /\ renewing' = [renewing EXCEPT ![u] = @ \cup {r}]
    /\ UNCHANGED <<open, signing>>

Leave(r, u) ==
    /\ r \in signing[u] \cup renewing[u]
    /\ signing' = [signing EXCEPT ![u] = @ \ {r}]
    /\ renewing' = [renewing EXCEPT ![u] = @ \ {r}]

Complete(r, u) == Leave(r, u) /\ open' = open \cup {u}

\* The request failed, or its user is gone.
Abandon(r, u) == Leave(r, u) /\ UNCHANGED open

Close(u) == open' = open \ {u} /\ UNCHANGED <<signing, renewing>>

Next ==
    \E u \in Users :
        \/ \E r \in Requests :
             SignIn(r, u) \/ Renew(r, u) \/ Complete(r, u) \/ Abandon(r, u)
        \/ Close(u)

Spec == Init /\ [][Next]_vars
=============================================================================
