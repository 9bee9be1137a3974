---------------------------- MODULE SchedulerProofs ----------------------------
(***************************************************************************)
(* Theorems about the scheduler's cycle for every set of nodes, edges and  *)
(* configurations, whatever signals and recertifications fall into it.     *)
(***************************************************************************)
EXTENDS Scheduler, HazardLemmas

\* The row a pipeline run writes is a row of the table.
LEMMA ProcessedIsRow ==
    ASSUME TypeOK, NEW n \in Nodes, NEW d \in Days, NEW b \in ShockBatch
    PROVE  /\ Processed(n, d, b) \in Row
           /\ Processed(n, d, b).validatedAt = row[n].validatedAt
  <1> DEFINE r == row[n]
             elapsed == IF d > r.validatedAt THEN d - r.validatedAt ELSE 0
             newR == compute_reliability_vector(r.rel, elapsed, Freshness[n][elapsed], b)
             target == SuggestedStatus(newR, ConfigOf[n])
  <1>1. r \in Row /\ r.rel \in Vector /\ r.validatedAt \in Days
    BY DEF TypeOK, Row
  <1>2. elapsed \in Days /\ elapsed \in Int
    BY <1>1, SchedulerAssumption DEF Days
  <1>3. Freshness[n][elapsed] \in Level
    BY <1>2, SchedulerAssumption
  <1>4. newR \in Vector
    BY <1>1, <1>2, <1>3, ComputedIsVector
  <1>5. target \in Statuses
    BY SuggestionIsStatus DEF Statuses
  <1>6. Processed(n, d, b) = IF Severity(target) > Severity(r.status)
                             THEN [r EXCEPT !.rel = newR, !.status = target, !.changedAt = d]
                             ELSE [r EXCEPT !.rel = newR]
    BY DEF Processed
  <1> HIDE DEF r, newR, target
  <1> QED
    BY <1>1, <1>4, <1>5, <1>6 DEF Row, r

LEMMA RecertifiedIsRow ==
    ASSUME TypeOK
    PROVE  [status |-> "ACTIVE", rel |-> Healthy, validatedAt |-> now, changedAt |-> now] \in Row
  <1>1. Healthy \in Vector
    BY ScaleAssumption DEF Healthy, Vector, Level
  <1> QED
    BY <1>1 DEF TypeOK, Row, Statuses

\* The shocks a run may be handed.
LEMMA RunsAreTyped == NoShock \in ShockBatch /\ Batches \subseteq ShockBatch
  BY SchedulerAssumption DEF NoShock, ShockBatch

LEMMA InitTyped == Init => TypeOK
  <1>1. Healthy \in Vector /\ 0 \in Days
    BY ScaleAssumption, SchedulerAssumption DEF Healthy, Vector, Level, Days
  <1> QED
    BY <1>1 DEF Init, TypeOK, Row, Cycle, NoCycle, Statuses

LEMMA NextTyped == TypeOK /\ [Next]_vars => TypeOK'
  <1> SUFFICES ASSUME TypeOK, [Next]_vars PROVE TypeOK'
    OBVIOUS
  <1>0. NoCycle \in Cycle
    BY SchedulerAssumption DEF NoCycle, Cycle, Days
  <1>1. CASE Tick
    BY <1>1, SchedulerAssumption DEF Tick, TypeOK, Days
  <1>2. CASE \E n \in Nodes, b \in Batches : ingest_signals(n, b)
    BY <1>2, ProcessedIsRow, RunsAreTyped DEF ingest_signals, TypeOK
  <1>3. CASE \E n \in Nodes : admin_recertify_node(n)
    BY <1>3, RecertifiedIsRow DEF admin_recertify_node, TypeOK
  <1>4. CASE run_scheduled_cycle
    BY <1>4, <1>0 DEF run_scheduled_cycle, Listed, TypeOK, Cycle
  <1>5. CASE \E n \in Nodes : ProcessNode(n)
    <2>1. PICK n \in Nodes : ProcessNode(n)
      BY <1>5
    <2>2. cycle.day \in Days
      BY DEF TypeOK, Cycle
    <2>3. row' \in [Nodes -> Row]
      BY <2>1, <2>2, ProcessedIsRow, RunsAreTyped DEF ProcessNode, TypeOK
    <2>4. cycle' \in Cycle
      BY <2>1 DEF ProcessNode, TypeOK, Cycle
    <2> QED
      BY <2>1, <2>3, <2>4 DEF ProcessNode, TypeOK
  <1>6. CASE \E n \in Nodes : SkipInvalid(n)
    BY <1>6 DEF SkipInvalid, TypeOK, Cycle
  <1>7. CASE PropagateRaises \/ PropagateNothing
    BY <1>7 DEF PropagateRaises, PropagateNothing, TypeOK, Cycle
  <1>8. CASE EndLoop
    BY <1>8 DEF EndLoop, TypeOK, Cycle
  <1>9. CASE ReconcileRaises \/ ReconcileNothing
    BY <1>9, <1>0 DEF ReconcileRaises, ReconcileNothing, TypeOK
  <1>10. CASE UNCHANGED vars
    BY <1>10 DEF vars, TypeOK
  <1> QED
    BY <1>1, <1>2, <1>3, <1>4, <1>5, <1>6, <1>7, <1>8, <1>9, <1>10 DEF Next, CycleStep

\* Rows, clock and the cycle's local state keep their types.
THEOREM SchedulerTyped == Spec => []TypeOK
  BY InitTyped, NextTyped, PTL DEF Spec
-------------------------------------------------------------------------------
(***************************************************************************)
(* Coverage of the cycle.  What one run establishes for a node is lost     *)
(* neither by a later run on the same node nor by a recertification, both  *)
(* of which happen on the cycle's day or after it; and every way out of    *)
(* the loop's body takes the node off the list.                            *)
(***************************************************************************)

\* A reliability does not recover by itself.
NoRevival == \A n \in Nodes : \A d, e \in Days : d <= e => Freshness[n][e] <= Freshness[n][d]

\* A healthy node is ACTIVE under every configuration a run accepts.
HealthyIsActive == \A n \in Nodes :
    ValidCostConfig(ConfigOf[n]) => SuggestedStatus(Healthy, ConfigOf[n]) = "ACTIVE"

\* r has been evaluated on day d or later.
EvaluatedOn(r, n, d) ==
    LET age == d - r.validatedAt IN
    /\ age >= 0 => r.rel["t"] <= update_axis_temporal(age, Freshness[n][age])
    /\ Severity(SuggestedStatus(r.rel, ConfigOf[n])) <= Severity(r.status)

\* Nothing is dated in the future, and every node behind the loop is evaluated.
CycleInv ==
    /\ cycle.pc # "idle" => cycle.day <= now
    /\ cycle.pc = "reconcile" => cycle.todo = {}
    /\ cycle.pc # "idle" => \A n \in cycle.listed \ cycle.todo :
           ValidCostConfig(ConfigOf[n]) => EvaluatedOn(row[n], n, cycle.day)

\* A longer time leaves no more freshness.
LEMMA FreshnessFalls ==
    ASSUME NoRevival, NEW n \in Nodes, NEW d \in Days, NEW e \in Days, d <= e
    PROVE  /\ update_axis_temporal(e, Freshness[n][e]) \in Level
           /\ update_axis_temporal(e, Freshness[n][e]) <= update_axis_temporal(d, Freshness[n][d])
  <1>1. d \in Int /\ e \in Int
    BY SchedulerAssumption DEF Days
  <1>2. /\ Freshness[n][d] \in Level /\ Freshness[n][e] \in Level
        /\ Freshness[n][e] <= Freshness[n][d]
    BY SchedulerAssumption DEF NoRevival
  <1> QED
    BY <1>1, <1>2, TemporalFalls

\* A pipeline run on a day not before d evaluates the node for d.
LEMMA RunEvaluates ==
    ASSUME TypeOK, NoRevival, NEW n \in Nodes, NEW day \in Days, NEW b \in ShockBatch,
           NEW d \in Days, d <= day
    PROVE  EvaluatedOn(Processed(n, day, b), n, d)
  <1> DEFINE r == row[n]
             elapsed == IF day > r.validatedAt THEN day - r.validatedAt ELSE 0
             newR == compute_reliability_vector(r.rel, elapsed, Freshness[n][elapsed], b)
             target == SuggestedStatus(newR, ConfigOf[n])
             p == Processed(n, day, b)
             age == d - p.validatedAt
  <1>1. r \in Row /\ r.validatedAt \in Days
    BY DEF TypeOK, Row
  <1>2. p = IF Severity(target) > Severity(r.status)
            THEN [r EXCEPT !.rel = newR, !.status = target, !.changedAt = day]
            ELSE [r EXCEPT !.rel = newR]
    BY DEF Processed
  <1>3. p.validatedAt = r.validatedAt /\ p.rel = newR
        /\ p.status = IF Severity(target) > Severity(r.status) THEN target ELSE r.status
    <2> HIDE DEF p, newR, target, r
    <2> QED
      BY <1>1, <1>2 DEF Row
  <1>4. Severity(SuggestedStatus(p.rel, ConfigOf[n])) <= Severity(p.status)
    <2>1. target \in Statuses /\ r.status \in Statuses
      BY <1>1, SuggestionIsStatus DEF Statuses, Row
    <2>2. Severity(target) \in Nat /\ Severity(r.status) \in Nat
      BY <2>1, SeverityIsNat
    <2> HIDE DEF p, newR, r
    <2> QED
      BY <1>3, <2>2
  <1>5. ASSUME age >= 0
        PROVE  p.rel["t"] <= update_axis_temporal(age, Freshness[n][age])
    <2>1. age \in Days /\ elapsed \in Days /\ age <= elapsed
      <3> HIDE DEF p
      <3> QED
        BY <1>1, <1>3, <1>5, SchedulerAssumption DEF Days
    <2>2. newR["t"] = update_axis_temporal(elapsed, Freshness[n][elapsed])
      BY DEF compute_reliability_vector, Axes
    <2> HIDE DEF p, newR, elapsed, age
    <2> QED
      BY <1>3, <2>1, <2>2, FreshnessFalls
  <1> QED
    BY <1>4, <1>5 DEF EvaluatedOn, p

\* So does a recertification.
LEMMA RecertificationEvaluates ==
    ASSUME HealthyIsActive, NEW n \in Nodes, ValidCostConfig(ConfigOf[n]),
           NEW d \in Days, NEW day \in Days, d <= day
    PROVE  EvaluatedOn([status |-> "ACTIVE", rel |-> Healthy, validatedAt |-> day,
                        changedAt |-> day], n, d)
  <1>1. d - day \in Int /\ (d - day >= 0 => d - day <= 0)
    BY SchedulerAssumption DEF Days
  <1>2. Healthy["t"] = Scale
    BY DEF Healthy, Axes
  <1>3. d - day >= 0 => Scale <= update_axis_temporal(d - day, Freshness[n][d - day])
    BY <1>1, ScaleAssumption DEF update_axis_temporal
  <1>4. Severity(SuggestedStatus(Healthy, ConfigOf[n])) <= Severity("ACTIVE")
    BY DEF HealthyIsActive, Severity
  <1> QED
    BY <1>2, <1>3, <1>4 DEF EvaluatedOn

LEMMA CycleStart == Init => CycleInv
  BY DEF Init, CycleInv, NoCycle

LEMMA CyclePreserved ==
    ASSUME NoRevival, HealthyIsActive, TypeOK, CycleInv, [Next]_vars
    PROVE  CycleInv'
  <1>0. /\ now \in Days /\ now \in Int /\ cycle.day \in Int
        /\ cycle \in Cycle /\ cycle.day \in Days /\ cycle.listed \subseteq Nodes
    BY SchedulerAssumption DEF TypeOK, Cycle, Days
  <1>1. CASE Tick
    <2>1. now < now' /\ UNCHANGED <<row, cycle>>
      BY <1>0, <1>1 DEF Tick
    <2>2. now \in Int /\ now' \in Int /\ cycle.day \in Int
      BY <1>0, <1>1 DEF Tick
    <2>3. cycle.pc # "idle" => cycle.day <= now'
      <3>1. cycle.pc # "idle" => cycle.day <= now
        BY DEF CycleInv
      <3> QED
        BY <2>1, <2>2, <3>1
    <2> QED
      BY <2>1, <2>3 DEF CycleInv
  <1>2. CASE \E n \in Nodes, b \in Batches : ingest_signals(n, b)
    <2>1. PICK n \in Nodes, b \in Batches : ingest_signals(n, b)
      BY <1>2
    <2>2. UNCHANGED <<now, cycle>> /\ row' = [row EXCEPT ![n] = Processed(n, now, b)]
      BY <2>1 DEF ingest_signals
    <2>3. cycle.pc # "idle" => EvaluatedOn(Processed(n, now, b), n, cycle.day)
      BY <1>0, RunsAreTyped, RunEvaluates DEF CycleInv
    <2> QED
      BY <1>0, <2>2, <2>3 DEF CycleInv, TypeOK
  <1>3. CASE \E n \in Nodes : admin_recertify_node(n)
    <2>1. PICK n \in Nodes : admin_recertify_node(n)
      BY <1>3
    <2> DEFINE r == [status |-> "ACTIVE", rel |-> Healthy, validatedAt |-> now, changedAt |-> now]
    <2>2. UNCHANGED <<now, cycle>> /\ row' = [row EXCEPT ![n] = r]
      BY <2>1 DEF admin_recertify_node
    <2>3. cycle.pc # "idle" /\ ValidCostConfig(ConfigOf[n]) => EvaluatedOn(r, n, cycle.day)
      BY <1>0, RecertificationEvaluates DEF CycleInv
    <2> HIDE DEF r
    <2> QED
      BY <1>0, <2>2, <2>3 DEF CycleInv, TypeOK
  <1>4. CASE run_scheduled_cycle
    <2>1. /\ cycle'.pc = "loop" /\ cycle'.listed \ cycle'.todo = {} /\ cycle'.day = now
          /\ now' = now
      BY <1>4 DEF run_scheduled_cycle, NoCycle
    <2> QED
      BY <1>0, <2>1 DEF CycleInv
  <1>5. CASE \E n \in Nodes : ProcessNode(n)
    <2>1. PICK n \in Nodes : ProcessNode(n)
      BY <1>5
    <2>2. /\ cycle.pc = "loop" /\ cycle'.pc = "propagate" /\ cycle'.day = cycle.day
          /\ cycle'.listed = cycle.listed /\ cycle'.todo = cycle.todo \ {n} /\ now' = now
          /\ row' = [row EXCEPT ![n] = Processed(n, cycle.day, NoShock)]
      BY <1>0, <2>1 DEF ProcessNode, Cycle
    <2>3. EvaluatedOn(Processed(n, cycle.day, NoShock), n, cycle.day)
      <3>1. cycle.day <= cycle.day
        BY <1>0
      <3> QED
        BY <1>0, <3>1, RunsAreTyped, RunEvaluates
    <2> QED
      BY <1>0, <2>2, <2>3 DEF CycleInv, TypeOK
  <1>6. CASE \E n \in Nodes : SkipInvalid(n)
    <2>1. PICK n \in Nodes : SkipInvalid(n)
      BY <1>6
    <2>2. /\ cycle.pc = "loop" /\ cycle'.pc = "loop" /\ cycle'.day = cycle.day
          /\ cycle'.listed = cycle.listed /\ cycle'.todo = cycle.todo \ {n}
          /\ UNCHANGED <<now, row>> /\ ~ValidCostConfig(ConfigOf[n])
      BY <1>0, <2>1 DEF SkipInvalid, Cycle
    <2> QED
      BY <2>2 DEF CycleInv
  <1>7. CASE PropagateRaises \/ PropagateNothing \/ EndLoop
    <2>1. /\ cycle.pc # "idle" /\ cycle'.pc # "idle" /\ cycle'.day = cycle.day
          /\ cycle'.listed = cycle.listed /\ cycle'.todo = cycle.todo
          /\ cycle'.pc = "reconcile" => cycle.todo = {}
          /\ UNCHANGED <<now, row>>
      BY <1>0, <1>7 DEF PropagateRaises, PropagateNothing, EndLoop, Cycle
    <2> QED
      BY <2>1 DEF CycleInv
  <1>8. CASE ReconcileRaises \/ ReconcileNothing
    BY <1>8 DEF ReconcileRaises, ReconcileNothing, NoCycle, CycleInv
  <1>9. CASE UNCHANGED vars
    BY <1>9 DEF vars, CycleInv
  <1> QED
    BY <1>1, <1>2, <1>3, <1>4, <1>5, <1>6, <1>7, <1>8, <1>9 DEF Next, CycleStep

\* Whatever raises and whoever interferes, a cycle that ends has evaluated every node
\* of its list that has a valid configuration.
THEOREM CycleCoversList ==
    ASSUME NoRevival, HealthyIsActive
    PROVE  Spec => []CycleReachesAll
  <1>1. TypeOK /\ CycleInv /\ [Next]_vars => CycleInv'
    BY CyclePreserved
  <1>2. CycleInv => CycleReachesAll
    BY DEF CycleInv, CycleReachesAll, EvaluatedOn
  <1> QED
    BY <1>1, <1>2, CycleStart, SchedulerTyped, PTL DEF Spec
===============================================================================
