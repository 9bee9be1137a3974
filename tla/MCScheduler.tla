----------------------------- MODULE MCScheduler ------------------------------
(***************************************************************************)
(* Scheduler for TLC: a chain parent -> child, and a node whose pinned     *)
(* configuration no pipeline run accepts.                                  *)
(***************************************************************************)
EXTENDS Scheduler

CONSTANTS parent, child, broken

Configs == [n \in Nodes |->
    IF n = broken THEN [DefaultCostConfig EXCEPT !.weights["s"] = 4] ELSE DefaultCostConfig]

\* The parent does not decay; the child is stale after a day.
Decay == [n \in Nodes |-> [d \in Days |->
    IF n = parent \/ d = 0 THEN 10 ELSE 0]]

Chain == {[parent |-> parent, child |-> child, edge_type |-> "DATA_DEP",
           coeffs |-> [a \in {"p", "c"} |-> Scale]]}

\* A drift that leaves the parent ACTIVE, and a structural break with a drift of
\* negative severity, which raises its axis.
Signals == {[NoShock EXCEPT !.drift = 5], [NoShock EXCEPT !.structural = TRUE, !.drift = -10]}
===============================================================================
