------------------------------ MODULE Delivery ------------------------------
(***************************************************************************)
(* What the outbox promises about one account's outgoing messages: a       *)
(* message is delivered at most once for each time the user asked for it,  *)
(* only while its row is open, and never again once the row is closed.     *)
(***************************************************************************)
EXTENDS Integers

CONSTANT Msgs

VARIABLES
    st,      \* a message is new, open (listed in the outbox) or closed
    credit,  \* the user asked for a delivery that has not happened yet
    count    \* deliveries so far

vars == <<st, credit, count>>

Init ==
    /\ st \in [Msgs -> {"new", "open", "closed"}]
    /\ credit \in [Msgs -> BOOLEAN]
    /\ count = [m \in Msgs |-> 0]

\* Sending a new message, or retrying one that is still listed.
Ask(m) ==
    /\ st[m] \in {"new", "open"}
    /\ st' = [st EXCEPT ![m] = "open"]
    /\ credit' = [credit EXCEPT ![m] = TRUE]
    /\ UNCHANGED count

Deliver(m) ==
    /\ st[m] = "open" /\ credit[m]
    /\ credit' = [credit EXCEPT ![m] = FALSE]
    /\ count' = [count EXCEPT ![m] = @ + 1]
    /\ UNCHANGED st

Close(m) ==
    /\ st[m] # "closed"
    /\ st' = [st EXCEPT ![m] = "closed"]
    /\ UNCHANGED <<credit, count>>

Next == \E m \in Msgs : Ask(m) \/ Deliver(m) \/ Close(m)

Spec == Init /\ [][Next]_vars
=============================================================================
