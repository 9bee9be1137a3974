------------------------------- MODULE Scheduler -------------------------------
(***************************************************************************)
(* run_scheduled_cycle of src/core/scheduler/runner.py: the loop over the  *)
(* nodes that are not under review, the dependency propagation after each  *)
(* of them, and the reconciliation of IN_REVIEW nodes at the end, with the *)
(* exceptions each part raises and where they are caught.                  *)
(*                                                                         *)
(* A pipeline run is one step here: what happens when another session's    *)
(* commit falls inside it is the subject of Governance.  Signals and       *)
(* recertifications still arrive between any two steps of a cycle.         *)
(*                                                                         *)
(* reconcile_in_review_nodes and _evaluate_child_status unpack the result  *)
(* of compute_governance_action into two names.  It returns three values,  *)
(* so both raise ValueError at that line; the lines after it never run and *)
(* have no counterpart below.                                              *)
(***************************************************************************)
EXTENDS Hazard, Sequences

CONSTANTS
    Nodes,
    Edges,      \* dependency_edges: parent, child, coeffs, edge_type
    ConfigOf,   \* the cost configuration pinned to each node
    Freshness,  \* Freshness[n][d] is exp(-decay_alpha * d) for node n
    Batches,    \* the shocks a signal may turn into
    MaxDay,     \* bound on the clock
    Cooldown,   \* IN_REVIEW_COOLDOWN_DAYS
    DemoMode    \* whether administrators recertify nodes

Days == 0 .. MaxDay

ASSUME SchedulerAssumption ==
    /\ MaxDay \in Nat /\ Cooldown \in Nat
    /\ ConfigOf \in [Nodes -> CostConfigs]
    /\ Freshness \in [Nodes -> [Days -> Level]]
    /\ Batches \subseteq ShockBatch
    /\ DemoMode \in BOOLEAN
    /\ \A e \in Edges : e.parent \in Nodes /\ e.child \in Nodes /\ DOMAIN e.coeffs \subseteq Axes

VARIABLES
    row,    \* the nodes table; changedAt is status_changed_at
    now,
    cycle   \* the local state of run_scheduled_cycle

vars == <<row, now, cycle>>

Row == [status : Statuses, rel : Vector, validatedAt : Days, changedAt : Days]
Cycle == [pc : {"idle", "loop", "propagate", "reconcile"}, listed : SUBSET Nodes,
          todo : SUBSET Nodes, parent : SUBSET Nodes, day : Days]

NoCycle == [pc |-> "idle", listed |-> {}, todo |-> {}, parent |-> {}, day |-> 0]

Init ==
    /\ row = [n \in Nodes |->
                 [status |-> "ACTIVE", rel |-> Healthy, validatedAt |-> 0, changedAt |-> 0]]
    /\ now = 0
    /\ cycle = NoCycle

\* process_node_lifecycle on node n with the clock at d.
Processed(n, d, b) ==
    LET r == row[n]
        elapsed == IF d > r.validatedAt THEN d - r.validatedAt ELSE 0
        newR == compute_reliability_vector(r.rel, elapsed, Freshness[n][elapsed], b)
        target == SuggestedStatus(newR, ConfigOf[n])
    IN  IF Severity(target) > Severity(r.status)
        THEN [r EXCEPT !.rel = newR, !.status = target, !.changedAt = d]
        ELSE [r EXCEPT !.rel = newR]

-------------------------------------------------------------------------------
Tick ==
    /\ now < MaxDay
    /\ now' = now + 1
    /\ UNCHANGED <<row, cycle>>

\* A request of the API that reaches node n.
ingest_signals(n, b) ==
    /\ ValidCostConfig(ConfigOf[n])
    /\ row' = [row EXCEPT ![n] = Processed(n, now, b)]
    /\ UNCHANGED <<now, cycle>>

admin_recertify_node(n) ==
    /\ DemoMode
    /\ row' = [row EXCEPT ![n] = [status |-> "ACTIVE", rel |-> Healthy,
                                  validatedAt |-> now, changedAt |-> now]]
    /\ UNCHANGED <<now, cycle>>

\* Mutant: healthy nodes are left out.
ListedProvisional == {n \in Nodes : row[n].status = "PROVISIONAL"}

Listed == {n \in Nodes : row[n].status \in {"ACTIVE", "PROVISIONAL"}}

run_scheduled_cycle ==
    /\ cycle.pc = "idle"
    /\ cycle' = [NoCycle EXCEPT !.pc = "loop", !.listed = Listed, !.todo = Listed, !.day = now]
    /\ UNCHANGED <<row, now>>

ProcessNode(n) ==
    /\ cycle.pc = "loop" /\ n \in cycle.todo
    /\ ValidCostConfig(ConfigOf[n])
    /\ row' = [row EXCEPT ![n] = Processed(n, cycle.day, NoShock)]
    /\ cycle' = [cycle EXCEPT !.pc = "propagate", !.todo = @ \ {n}, !.parent = {n}]
    /\ UNCHANGED now

\* Mutant: an invalid configuration ends the loop.
StopAtInvalid(n) ==
    /\ cycle.pc = "loop" /\ n \in cycle.todo
    /\ ~ValidCostConfig(ConfigOf[n])
    /\ cycle' = [cycle EXCEPT !.todo = {}]
    /\ UNCHANGED <<row, now>>

\* The pipeline raises ValueError: rolled back, and the loop goes on.
SkipInvalid(n) ==
    /\ cycle.pc = "loop" /\ n \in cycle.todo
    /\ ~ValidCostConfig(ConfigOf[n])
    /\ cycle' = [cycle EXCEPT !.todo = @ \ {n}]
    /\ UNCHANGED <<row, now>>

Shock(e) == compute_child_degradation(row[e.parent].rel, row[e.child].rel, e.coeffs, e.edge_type)

DragsDown(e) == e.parent \in cycle.parent /\ DOMAIN Shock(e) # {}

\* "_, hazard = compute_governance_action(...)" has two names on its left.
Unpacks(result) == Len(result) = 2

\* _evaluate_child_status raises with the child's new axes still unflushed:
\* the rollback of the loop's except branch discards them.
PropagateRaises ==
    /\ cycle.pc = "propagate"
    /\ \E e \in Edges : /\ DragsDown(e)
                        /\ ~Unpacks(compute_governance_action(row[e.child].rel, DefaultCostConfig))
    /\ cycle' = [cycle EXCEPT !.pc = "loop", !.parent = {}]
    /\ UNCHANGED <<row, now>>

\* No edge of the node drags a child down.
PropagateNothing ==
    /\ cycle.pc = "propagate"
    /\ \A e \in Edges : ~DragsDown(e)
    /\ cycle' = [cycle EXCEPT !.pc = "loop", !.parent = {}]
    /\ UNCHANGED <<row, now>>

EndLoop ==
    /\ cycle.pc = "loop" /\ cycle.todo = {}
    /\ cycle' = [cycle EXCEPT !.pc = "reconcile"]
    /\ UNCHANGED <<row, now>>

CooledDown == {n \in Nodes : /\ row[n].status = "IN_REVIEW"
                             /\ cycle.day - row[n].changedAt >= Cooldown}

\* The first node past its cooldown raises, and nothing catches it.
ReconcileRaises ==
    /\ cycle.pc = "reconcile"
    /\ \E n \in CooledDown : ~Unpacks(compute_governance_action(row[n].rel, DefaultCostConfig))
    /\ cycle' = NoCycle
    /\ UNCHANGED <<row, now>>

ReconcileNothing ==
    /\ cycle.pc = "reconcile"
    /\ CooledDown = {}
    /\ cycle' = NoCycle
    /\ UNCHANGED <<row, now>>

CycleStep ==
    \/ run_scheduled_cycle
    \/ \E n \in Nodes : ProcessNode(n) \/ SkipInvalid(n)
    \/ PropagateRaises
    \/ PropagateNothing
    \/ EndLoop
    \/ ReconcileRaises
    \/ ReconcileNothing

Next ==
    \/ Tick
    \/ \E n \in Nodes, b \in Batches : ingest_signals(n, b)
    \/ \E n \in Nodes : admin_recertify_node(n)
    \/ CycleStep

Spec == Init /\ [][Next]_vars

\* Cycles are run again and again and time passes; signals and administrators
\* owe nothing.  The repository leaves the schedule to its operator.
FairSpec == Spec /\ WF_vars(CycleStep) /\ WF_vars(Tick)
-------------------------------------------------------------------------------
TypeOK == row \in [Nodes -> Row] /\ now \in Days /\ cycle \in Cycle

\* Whatever fails on the way - an invalid configuration, a propagation that
\* raises - a cycle that reaches its end has re-evaluated every node it listed:
\* none keeps a freshness, or a status, better than the cycle's day allows.
CycleReachesAll ==
    cycle.pc = "reconcile" => \A n \in cycle.listed : ValidCostConfig(ConfigOf[n]) =>
        LET d == cycle.day - row[n].validatedAt IN
        /\ d >= 0 => row[n].rel["t"] <= update_axis_temporal(d, Freshness[n][d])
        /\ Severity(SuggestedStatus(row[n].rel, ConfigOf[n])) <= Severity(row[n].status)

\* A node that is not recertified does not stay ACTIVE once its decay alone calls
\* for more: some cycle gets to it (the loop of run_scheduled_cycle).
Overdue(n) ==
    LET d == now - row[n].validatedAt IN
    /\ ValidCostConfig(ConfigOf[n])
    /\ SuggestedStatus([row[n].rel EXCEPT !["t"] = update_axis_temporal(d, Freshness[n][d])],
                       ConfigOf[n]) # "ACTIVE"

OverdueIsNoticed ==
    \A n \in Nodes : Overdue(n) ~> row[n].status # "ACTIVE" \/ ~Overdue(n)

\* "Neutral-time recovery - stale IN_REVIEW nodes automatically return to ACTIVE
\* after cooldown" (README): low hazard and an old status are enough.
Recoverable(n) ==
    /\ row[n].status = "IN_REVIEW"
    /\ LinearHazard(row[n].rel, DefaultCostConfig)
           < DefaultCostConfig.provisional_hazard * Scale * Scale
    /\ now - row[n].changedAt >= Cooldown

NeutralTimeRecovery == \A n \in Nodes :
    Recoverable(n) ~> row[n].status = "ACTIVE" \/ ~Recoverable(n)

\* "propagates dependency degradation to child nodes" (runner.py): a child does
\* not stay better than a parent the cycles visit on an axis it fully inherits.
Lags(e) ==
    /\ row[e.parent].status \in {"ACTIVE", "PROVISIONAL"}
    /\ \E a \in DOMAIN e.coeffs : e.coeffs[a] = Scale /\ row[e.parent].rel[a] < row[e.child].rel[a]

DegradationPropagates == \A e \in Edges : Lags(e) ~> ~Lags(e)
===============================================================================
