------------------------------ MODULE Governance ------------------------------
(***************************************************************************)
(* The governance core: HTTP requests and scheduler cycles that run        *)
(* process_node_lifecycle on rows of the nodes table, and the two          *)
(* administrator requests that write the same rows.                        *)
(*                                                                         *)
(* A worker is whatever holds a database session: a thread of the API's    *)
(* pool serving one request, or a process running run_scheduled_cycle.     *)
(* Sessions are PostgreSQL READ COMMITTED transactions behind SQLAlchemy   *)
(* with autoflush off (src/core/api/database.py): a row is read once, kept *)
(* in the session until a commit expires it, and written back at commit    *)
(* one changed column at a time.  Each action below is therefore one read  *)
(* that starts a snapshot, or one commit.                                  *)
(*                                                                         *)
(* A pipeline run that escalates commits twice: create_escalation_task     *)
(* commits the node and its task, and the audit rows follow in a second    *)
(* transaction.  Dependency propagation and the reconciliation of          *)
(* IN_REVIEW nodes that a cycle also calls leave nothing in the database   *)
(* (module Scheduler shows why), so a cycle here is its pipeline runs.     *)
(***************************************************************************)
EXTENDS Hazard, FiniteSets

CONSTANTS
    Nodes,       \* primary keys of the nodes table
    Workers,     \* database sessions that may be open at a time
    TaskIds,     \* bound on the escalation tasks ever created
    MaxDay,      \* bound on the clock
    ConfigOf,    \* the cost configuration pinned to each node
    Freshness,   \* Freshness[n][d] is exp(-decay_alpha * d) for node n
    Batches,     \* the shocks a signal may turn into for a node
    DemoMode,    \* DEMO_MODE: whether the admin endpoints answer
    MayCrash,    \* whether a session may die between two commits
    None

Days == 0 .. MaxDay
TaskStatuses == {"PENDING", "IN_PROGRESS", "COMPLETED"}
Row == [status : Statuses, rel : Vector, validatedAt : Days]
Task == [node : Nodes, status : TaskStatuses]

ASSUME GovernanceAssumption ==
    /\ MaxDay \in Nat
    /\ ConfigOf \in [Nodes -> CostConfigs]
    /\ Freshness \in [Nodes -> [Days -> Level]]
    /\ Batches \subseteq ShockBatch
    /\ DemoMode \in BOOLEAN /\ MayCrash \in BOOLEAN
    /\ None \notin Task /\ None \notin Nodes /\ None \notin TaskIds

VARIABLES
    registered,  \* nodes with a row
    row,         \* the nodes table
    task,        \* the escalation_tasks table
    logged,      \* the status the audit ledger last gave a node
    now,         \* the wall clock, in days
    session      \* what each worker holds in memory

vars == <<registered, row, task, logged, now, session>>

Points == {"idle", "next", "loaded", "escalated", "reloaded",
           "recertify", "resolve_task", "resolve_node", "resolve_counted"}
Kinds == {"none", "ingest", "cycle", "recertify", "resolve"}

Session == [pc : Points, kind : Kinds, todo : SUBSET Nodes, node : Nodes \cup {None},
            task : TaskIds \cup {None}, snap : Row, day : Days, changed : BOOLEAN]

\* The column defaults of a row inserted on day d.
FreshRow(d) == [status |-> "ACTIVE", rel |-> Healthy, validatedAt |-> d]

Idle == [pc |-> "idle", kind |-> "none", todo |-> {}, node |-> None,
         task |-> None, snap |-> FreshRow(0), day |-> 0, changed |-> FALSE]

Init ==
    /\ registered = {}
    /\ row = [n \in Nodes |-> FreshRow(0)]
    /\ task = [t \in TaskIds |-> None]
    /\ logged = [n \in Nodes |-> "ACTIVE"]
    /\ now = 0
    /\ session = [w \in Workers |-> Idle]

-------------------------------------------------------------------------------
(***************************************************************************)
(* What a session does to the tables.                                      *)
(***************************************************************************)

\* Mutant: every column is written back, changed or not.
FlushAlways(current, loaded, assigned) == assigned

\* A flush: a column is written only if its value differs from the one loaded.
Flush(current, loaded, assigned) == IF assigned = loaded THEN current ELSE assigned

FlushVector(current, loaded, assigned) ==
    [a \in Axes |-> Flush(current[a], loaded[a], assigned[a])]

Elapsed(s) == IF s.day > s.snap.validatedAt THEN s.day - s.snap.validatedAt ELSE 0

\* Mutant: decay is applied to the stored freshness at every run.
CompoundedVector(s, b) ==
    compute_reliability_vector(s.snap.rel, Elapsed(s),
        (s.snap.rel["t"] * Freshness[s.node][Elapsed(s)]) \div Scale, b)

NewVector(s, b) ==
    compute_reliability_vector(s.snap.rel, Elapsed(s), Freshness[s.node][Elapsed(s)], b)

\* Mutant: the hazard is computed from the vector as stored.
TargetOfStored(s, b) == SuggestedStatus(s.snap.rel, ConfigOf[s.node])

Target(s, b) == SuggestedStatus(NewVector(s, b), ConfigOf[s.node])

\* Mutant: the suggestion is followed in both directions.
FollowsTarget(s, b) == Target(s, b) # s.snap.status

Upgrades(s, b) == Severity(Target(s, b)) > Severity(s.snap.status)

\* Mutants: a task without the guard on the old status; a task only on the way up
\* from PROVISIONAL.
EscalatesAgain(s, b) == Target(s, b) = "IN_REVIEW"
EscalatesFromProvisional(s, b) ==
    s.snap.status = "PROVISIONAL" /\ Target(s, b) = "IN_REVIEW"

Escalates(s, b) == Upgrades(s, b) /\ Target(s, b) = "IN_REVIEW"

AssignedStatus(s, b) == IF Upgrades(s, b) THEN Target(s, b) ELSE s.snap.status

\* The node row after the session's commit of a pipeline run on batch b.
Flushed(s, b) ==
    [row[s.node] EXCEPT
        !.status = Flush(@, s.snap.status, AssignedStatus(s, b)),
        !.rel = FlushVector(@, s.snap.rel, NewVector(s, b))]

\* A cycle passes raw_events=[]; a request passes its signals.
Inputs(s) == IF s.kind = "cycle" THEN {NoShock} ELSE Batches

\* The next node of the request or cycle, or its end.
Advanced(s) ==
    IF s.todo = {} THEN Idle
    ELSE [Idle EXCEPT !.pc = "next", !.kind = s.kind, !.todo = s.todo, !.day = s.day]

Loaded(s, n) ==
    [s EXCEPT !.pc = "loaded", !.node = n, !.todo = s.todo \ {n}, !.snap = row[n]]

OpenTasks(n) == {t \in TaskIds : /\ task[t] # None
                                 /\ task[t].node = n
                                 /\ task[t].status \in {"PENDING", "IN_PROGRESS"}}

FreeTasks == {t \in TaskIds : task[t] = None}

\* Pipeline runs begun that may still create a task.
PendingRuns == {r \in Workers \X Nodes :
                   \/ r[2] \in session[r[1]].todo
                   \/ session[r[1]].pc = "loaded" /\ r[2] = session[r[1]].node}

\* The bound TaskIds: no run starts that could need a task beyond it.
RoomFor(S) == Cardinality(S) + Cardinality(PendingRuns) <= Cardinality(FreeTasks)

-------------------------------------------------------------------------------
(***************************************************************************)
(* Registration and the clock.                                             *)
(***************************************************************************)

create_node(n) ==
    /\ n \notin registered
    /\ registered' = registered \cup {n}
    /\ row' = [row EXCEPT ![n] = FreshRow(now)]
    /\ UNCHANGED <<task, logged, now, session>>

Tick ==
    /\ now < MaxDay
    /\ now' = now + 1
    /\ UNCHANGED <<registered, row, task, logged, session>>

-------------------------------------------------------------------------------
(***************************************************************************)
(* The pipeline, called for each node of a request or a cycle.             *)
(***************************************************************************)

\* The list query loads every matching row; the first one is still unexpired
\* when its turn comes, the others are read again after a commit.
ingest_signals(w, S, n) ==
    /\ session[w].pc = "idle"
    /\ n \in S /\ S \subseteq registered
    /\ RoomFor(S)
    /\ session' = [session EXCEPT ![w] =
           Loaded([Idle EXCEPT !.kind = "ingest", !.todo = S, !.day = now], n)]
    /\ UNCHANGED <<registered, row, task, logged, now>>

run_scheduled_cycle(w) ==
    LET rows == {n \in registered : row[n].status \in {"ACTIVE", "PROVISIONAL"}} IN
    /\ session[w].pc = "idle"
    /\ rows # {}
    /\ RoomFor(rows)
    /\ session' = [session EXCEPT ![w] =
           [Idle EXCEPT !.pc = "next", !.kind = "cycle", !.todo = rows, !.day = now]]
    /\ UNCHANGED <<registered, row, task, logged, now>>

LoadNode(w) ==
    /\ session[w].pc = "next"
    /\ \E n \in session[w].todo :
           session' = [session EXCEPT ![w] = Loaded(session[w], n)]
    /\ UNCHANGED <<registered, row, task, logged, now>>

\* validate_cost_config fails: the request dies, a cycle rolls back and goes on.
RaiseInvalid(w) ==
    /\ session[w].pc = "loaded"
    /\ ~ValidCostConfig(ConfigOf[session[w].node])
    /\ session' = [session EXCEPT ![w] =
           IF session[w].kind = "cycle" THEN Advanced(session[w]) ELSE Idle]
    /\ UNCHANGED <<registered, row, task, logged, now>>

\* A run that opens no task: node and audit rows in one transaction.
CommitRun(w) ==
    LET s == session[w] IN
    /\ s.pc = "loaded"
    /\ ValidCostConfig(ConfigOf[s.node])
    /\ \E b \in Inputs(s) :
           /\ ~Escalates(s, b)
           /\ row' = [row EXCEPT ![s.node] = Flushed(s, b)]
           /\ logged' = IF Upgrades(s, b)
                        THEN [logged EXCEPT ![s.node] = Target(s, b)] ELSE logged
    /\ session' = [session EXCEPT ![w] = Advanced(s)]
    /\ UNCHANGED <<registered, task, now>>

\* create_escalation_task commits the node's columns with the new task.
create_escalation_task(w) ==
    LET s == session[w] IN
    /\ s.pc = "loaded"
    /\ ValidCostConfig(ConfigOf[s.node])
    /\ \E b \in Inputs(s) :
           /\ Escalates(s, b)
           /\ row' = [row EXCEPT ![s.node] = Flushed(s, b)]
    /\ \E t \in FreeTasks :
           task' = [task EXCEPT ![t] = [node |-> s.node, status |-> "PENDING"]]
    /\ session' = [session EXCEPT ![w].pc = "escalated"]
    /\ UNCHANGED <<registered, logged, now>>

\* The commit expired the node: node.status is read again, whatever it is now,
\* and compared with old_status.
ReloadNode(w) ==
    LET s == session[w] IN
    /\ s.pc = "escalated"
    /\ session' = [session EXCEPT ![w].pc = "reloaded",
                       ![w].snap = row[s.node],
                       ![w].changed = row[s.node].status # s.snap.status]
    /\ UNCHANGED <<registered, row, task, logged, now>>

CommitAudit(w) ==
    LET s == session[w] IN
    /\ s.pc = "reloaded"
    /\ logged' = IF s.changed
                 THEN [logged EXCEPT ![s.node] = s.snap.status] ELSE logged
    /\ session' = [session EXCEPT ![w] = Advanced(s)]
    /\ UNCHANGED <<registered, row, task, now>>

-------------------------------------------------------------------------------
(***************************************************************************)
(* The administrator's requests.                                           *)
(***************************************************************************)

admin_recertify_node(w, n) ==
    /\ DemoMode
    /\ session[w].pc = "idle"
    /\ n \in registered
    /\ session' = [session EXCEPT ![w] =
           [Loaded([Idle EXCEPT !.kind = "recertify"], n) EXCEPT !.pc = "recertify"]]
    /\ UNCHANGED <<registered, row, task, logged, now>>

Recertified(s) ==
    [row[s.node] EXCEPT
        !.status = Flush(@, s.snap.status, "ACTIVE"),
        !.rel = FlushVector(@, s.snap.rel, Healthy),
        !.validatedAt = now]

CommitRecertify(w) ==
    LET s == session[w] IN
    /\ s.pc = "recertify"
    /\ row' = [row EXCEPT ![s.node] = Recertified(s)]
    /\ logged' = [logged EXCEPT ![s.node] = "ACTIVE"]
    /\ session' = [session EXCEPT ![w] = Idle]
    /\ UNCHANGED <<registered, task, now>>

admin_resolve_task(w, t) ==
    /\ DemoMode
    /\ session[w].pc = "idle"
    /\ task[t] # None
    /\ task[t].status = "IN_PROGRESS"
    /\ session' = [session EXCEPT ![w] =
           [Idle EXCEPT !.pc = "resolve_task", !.kind = "resolve",
                        !.task = t, !.node = task[t].node]]
    /\ UNCHANGED <<registered, row, task, logged, now>>

ResolveLoadNode(w) ==
    /\ session[w].pc = "resolve_task"
    /\ session' = [session EXCEPT ![w].pc = "resolve_node",
                                  ![w].snap = row[session[w].node]]
    /\ UNCHANGED <<registered, row, task, logged, now>>

\* autoflush=False: the count still sees this task open unless another session
\* has committed it meanwhile.
ResolveCount(w) ==
    LET s == session[w] IN
    /\ s.pc = "resolve_node"
    /\ session' = [session EXCEPT
           ![w].pc = "resolve_counted",
           ![w].changed = (OpenTasks(s.node) = {} /\ s.snap.status = "IN_REVIEW")]
    /\ UNCHANGED <<registered, row, task, logged, now>>

CommitResolve(w) ==
    LET s == session[w] IN
    /\ s.pc = "resolve_counted"
    /\ task' = [task EXCEPT ![s.task] = [@ EXCEPT !.status = "COMPLETED"]]
    /\ row' = IF s.changed THEN [row EXCEPT ![s.node].status = "ACTIVE"] ELSE row
    /\ session' = [session EXCEPT ![w] = Idle]
    /\ UNCHANGED <<registered, logged, now>>

-------------------------------------------------------------------------------
(***************************************************************************)
(* The Temporal side, reduced to the one column it writes; module          *)
(* ReviewWorkflow has the whole handlers and shows why a COMPLETED task    *)
(* may be dispatched again.  Neither handler looks at the node.            *)
(***************************************************************************)

dispatch_pending_tasks(t) ==
    /\ task[t] # None
    /\ task[t].status \in {"PENDING", "COMPLETED"}
    /\ task' = [task EXCEPT ![t] = [@ EXCEPT !.status = "IN_PROGRESS"]]
    /\ UNCHANGED <<registered, row, logged, now, session>>

approve_escalation(t) ==
    /\ task[t] # None
    /\ task[t].status = "IN_PROGRESS"
    /\ task' = [task EXCEPT ![t] = [@ EXCEPT !.status = "COMPLETED"]]
    /\ UNCHANGED <<registered, row, logged, now, session>>

\* A process dies or loses its connection: the open transaction is rolled back.
Crash(w) ==
    /\ MayCrash
    /\ session[w].pc # "idle"
    /\ session' = [session EXCEPT ![w] = Idle]
    /\ UNCHANGED <<registered, row, task, logged, now>>

Pipeline(w) ==
    \/ \E S \in SUBSET Nodes, n \in Nodes : ingest_signals(w, S, n)
    \/ run_scheduled_cycle(w)
    \/ LoadNode(w)
    \/ RaiseInvalid(w)
    \/ CommitRun(w)
    \/ create_escalation_task(w)
    \/ ReloadNode(w)
    \/ CommitAudit(w)

Admin(w) ==
    \/ \E n \in Nodes : admin_recertify_node(w, n)
    \/ CommitRecertify(w)
    \/ \E t \in TaskIds : admin_resolve_task(w, t)
    \/ ResolveLoadNode(w)
    \/ ResolveCount(w)
    \/ CommitResolve(w)

Next ==
    \/ \E n \in Nodes : create_node(n)
    \/ Tick
    \/ \E w \in Workers : Pipeline(w) \/ Admin(w) \/ Crash(w)
    \/ \E t \in TaskIds : dispatch_pending_tasks(t) \/ approve_escalation(t)

Spec == Init /\ [][Next]_vars
-------------------------------------------------------------------------------
(***************************************************************************)
(* Properties.                                                             *)
(***************************************************************************)

\* A session past its first read holds a node; one that resolves holds a task.
SessionOK(s) ==
    /\ s.pc \notin {"idle", "next"} => s.node \in Nodes
    /\ s.pc \in {"resolve_task", "resolve_node", "resolve_counted"} =>
           s.task \in TaskIds /\ task[s.task] # None

TypeOK ==
    /\ registered \subseteq Nodes
    /\ row \in [Nodes -> Row]
    /\ task \in [TaskIds -> Task \cup {None}]
    /\ logged \in [Nodes -> Statuses]
    /\ now \in Days
    /\ session \in [Workers -> Session]
    /\ \A w \in Workers : SessionOK(session[w])

\* A node enters review only in a step that creates its task; no session writes
\* IN_REVIEW back from a stale snapshot (pipeline.py and create_escalation_task).
ReviewOpensTask ==
    [][\A n \in Nodes : row[n].status # "IN_REVIEW" /\ row'[n].status = "IN_REVIEW" =>
          \E t \in TaskIds : task[t] = None /\ task'[t] = [node |-> n, status |-> "PENDING"]]_vars

HumanStep == \E w \in Workers : /\ session[w].kind \in {"recertify", "resolve"}
                                /\ session'[w] # session[w]

\* "risk never auto-downgrades": only an administrator's request makes a node's
\* status less severe (the upgrade-only guard of process_node_lifecycle).
RiskNeverAutoDowngrades ==
    [][\A n \in Nodes : Severity(row'[n].status) < Severity(row[n].status) => HumanStep]_vars

\* However sessions overlap and die, no pipeline run takes a node back to ACTIVE: a
\* stale run may write PROVISIONAL over IN_REVIEW, but to write ACTIVE it would have to
\* flush a status it did not change (the upgrade-only guard and the flush by column).
OnlyHumansActivate ==
    [][\A n \in Nodes : row[n].status # "ACTIVE" /\ row'[n].status = "ACTIVE" => HumanStep]_vars

\* A commit that moves a node's reliability leaves it a status at least as severe
\* as its own hazard function asks for (process_node_lifecycle, recertification).
StatusCoversHazard ==
    [][\A n \in Nodes : row'[n].rel # row[n].rel =>
          Severity(SuggestedStatus(row'[n].rel, ConfigOf[n])) <= Severity(row'[n].status)]_vars

\* Repeated runs do not compound temporal decay: the stored freshness is never
\* below what the time since the last validation gives (update_axis_temporal).
FreshnessNotCompounded ==
    \A n \in Nodes : LET d == now - row[n].validatedAt IN
        row[n].rel["t"] >= update_axis_temporal(d, Freshness[n][d])

\* An overlap may lose a validation (a stale run writes its older freshness over a
\* recertified one), but however many runs overlap it counts no day of decay twice:
\* freshness never falls below what the whole time of the clock takes.
FreshnessCountsOnce ==
    \A n \in Nodes : row[n].rel["t"] >= update_axis_temporal(now, Freshness[n][now])

\* One escalation opens one task: no task is created for a node that is already
\* under review (the old_status guard before create_escalation_task).
EscalatesOnce ==
    [][\A t \in TaskIds : task[t] = None /\ task'[t] # None =>
          row[task'[t].node].status # "IN_REVIEW"]_vars

\* Between runs, the ledger's last word on a node's status is the node's status
\* (the status_changed and node_recertified entries of the audit log).
LedgerAgrees ==
    \A n \in registered :
        \/ logged[n] = row[n].status
        \/ \E w \in Workers : session[w].node = n /\ session[w].pc \in {"escalated", "reloaded"}

\* "IN_REVIEW: human review task open" (models/reliability.py).
ReviewMeansOpenTask ==
    \A n \in Nodes : row[n].status = "IN_REVIEW" => OpenTasks(n) # {}
===============================================================================
