----------------------------- MODULE ReviewBudget -----------------------------
(***************************************************************************)
(* What an allocation of reviewer time promises: reviews are chosen one by *)
(* one within the time there is, and it is over only when none of the      *)
(* others would still fit ("respecting time budget ... nodes not fitting   *)
(* in the budget are omitted", portfolio_optimizer.py).                    *)
(***************************************************************************)
EXTENDS Naturals

CONSTANT Nodes

VARIABLES
    offered,   \* nodes that can be reviewed
    hours,     \* what a review of each takes
    budget,
    chosen, spent, closed

vars == <<offered, hours, budget, chosen, spent, closed>>

Init ==
    /\ offered \subseteq Nodes /\ hours \in [Nodes -> Nat] /\ budget \in Nat
    /\ chosen = {} /\ spent = 0 /\ closed = FALSE

Choose(i) ==
    /\ ~closed /\ i \in offered \ chosen /\ spent + hours[i] <= budget
    /\ chosen' = chosen \cup {i}
    /\ spent' = spent + hours[i]
    /\ UNCHANGED <<offered, hours, budget, closed>>

Close ==
    /\ \A i \in offered \ chosen : spent + hours[i] > budget
    /\ closed' = TRUE
    /\ UNCHANGED <<offered, hours, budget, chosen, spent>>

Next == Close \/ \E i \in offered : Choose(i)

Spec == Init /\ [][Next]_vars
===============================================================================
