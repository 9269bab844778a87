------------------------------- MODULE Outbox -------------------------------
(***************************************************************************)
(* What AuthService may rely on when a method of EmailService returns: the *)
(* mail was asked for, and is later either confirmed or given up.  A       *)
(* confirmed mail was accepted by the mail provider at least once.  Nothing*)
(* is promised about order, about a single delivery, or about a mail that  *)
(* was given up, which may have been sent all the same.                    *)
(***************************************************************************)
CONSTANT Jobs

VARIABLES
    asked,    \* the mails handed to the queue
    mailed,   \* those the provider accepted at least once
    outcome   \* "open", "confirmed" or "given up"

outboxVars == <<asked, mailed, outcome>>

Init ==
    /\ asked = {}
    /\ mailed = {}
    /\ outcome = [j \in Jobs |-> "open"]

Ask(j) ==
    /\ j \notin asked
    /\ asked' = asked \cup {j}
    /\ UNCHANGED <<mailed, outcome>>

Mail(j) ==
    /\ j \in asked
    /\ mailed' = mailed \cup {j}
    /\ UNCHANGED <<asked, outcome>>

Confirm(j) ==
    /\ j \in mailed
    /\ outcome[j] = "open"
    /\ outcome' = [outcome EXCEPT ![j] = "confirmed"]
    /\ UNCHANGED <<asked, mailed>>

GiveUp(j) ==
    /\ j \in asked
    /\ outcome[j] = "open"
    /\ outcome' = [outcome EXCEPT ![j] = "given up"]
    /\ UNCHANGED <<asked, mailed>>

Next == \E j \in Jobs : Ask(j) \/ Mail(j) \/ Confirm(j) \/ GiveUp(j)

Spec == Init /\ [][Next]_outboxVars

\* Every mail asked for is confirmed or given up in the end.
EveryMailSettles == \A j \in Jobs : j \in asked ~> outcome[j] # "open"
=============================================================================
