--------------------------- MODULE GovernanceProofs ---------------------------
(***************************************************************************)
(* Theorems about Governance for every set of nodes, sessions and tasks,   *)
(* every configuration and every decay.                                    *)
(***************************************************************************)
EXTENDS Governance, HazardLemmas

\* A run's shocks are a batch.
LEMMA InputsAreShocks == \A s : Inputs(s) \subseteq ShockBatch
  <1>1. NoShock \in ShockBatch
    BY DEF NoShock, ShockBatch
  <1>2. Batches \subseteq ShockBatch
    BY GovernanceAssumption
  <1> QED
    BY <1>1, <1>2 DEF Inputs

\* The engine gives a loaded session a vector of reliabilities.
LEMMA NewVectorIsVector ==
    ASSUME TypeOK, NEW w \in Workers, session[w].pc = "loaded", NEW b \in ShockBatch
    PROVE  NewVector(session[w], b) \in Vector
  <1> DEFINE s == session[w]
  <1>1. s.node \in Nodes /\ s.snap \in Row /\ s.day \in Days
    BY DEF TypeOK, SessionOK, Session
  <1>2. s.snap.validatedAt \in Days /\ s.snap.rel \in Vector
    BY <1>1 DEF Row
  <1>3. Elapsed(s) \in Days /\ Elapsed(s) \in Int
    BY <1>1, <1>2, GovernanceAssumption DEF Elapsed, Days
  <1>4. Freshness[s.node][Elapsed(s)] \in Level
    BY <1>1, <1>3, GovernanceAssumption
  <1> QED
    BY <1>2, <1>3, <1>4, ComputedIsVector DEF NewVector

\* The row a pipeline run commits is a row of the table.
LEMMA FlushedIsRow ==
    ASSUME TypeOK, NEW w \in Workers, session[w].pc = "loaded", NEW b \in ShockBatch
    PROVE  Flushed(session[w], b) \in Row
  <1> DEFINE s == session[w]
  <1>1. row[s.node] \in Row /\ s.snap.status \in Statuses
    BY DEF TypeOK, SessionOK, Session, Row
  <1>2. FlushVector(row[s.node].rel, s.snap.rel, NewVector(s, b)) \in Vector
    BY <1>1, NewVectorIsVector DEF FlushVector, Flush, Vector, Row
  <1>3. Target(s, b) \in Statuses
    BY SuggestionIsStatus DEF Target, Statuses
  <1>4. Flush(row[s.node].status, s.snap.status, AssignedStatus(s, b)) \in Statuses
    BY <1>1, <1>3 DEF Flush, AssignedStatus, Row
  <1> QED
    BY <1>1, <1>2, <1>4 DEF Flushed, Row

\* A recertified row is a row of the table.
LEMMA RecertifiedIsRow ==
    ASSUME TypeOK, NEW w \in Workers, session[w].pc = "recertify"
    PROVE  Recertified(session[w]) \in Row
  <1> DEFINE s == session[w]
  <1>1. s.node \in Nodes /\ row[s.node] \in Row /\ now \in Days
    BY DEF TypeOK, SessionOK
  <1>2. Healthy \in Vector
    BY ScaleAssumption DEF Healthy, Vector, Level
  <1>3. FlushVector(row[s.node].rel, s.snap.rel, Healthy) \in Vector
    BY <1>1, <1>2 DEF FlushVector, Flush, Vector, Row
  <1>4. Flush(row[s.node].status, s.snap.status, "ACTIVE") \in Statuses
    BY <1>1 DEF Flush, Row, Statuses
  <1> QED
    BY <1>1, <1>3, <1>4 DEF Recertified, Row

\* A fresh row, the idle session and the continuation of a loop are well typed.
LEMMA RestIsTyped ==
    /\ \A d \in Days : FreshRow(d) \in Row
    /\ Idle \in Session
    /\ SessionOK(Idle)
    /\ \A s \in Session : Advanced(s) \in Session /\ SessionOK(Advanced(s))
  <1>1. Healthy \in Vector /\ 0 \in Days
    BY ScaleAssumption, GovernanceAssumption DEF Healthy, Vector, Level, Days
  <1>2. \A d \in Days : FreshRow(d) \in Row
    BY <1>1 DEF FreshRow, Row, Statuses
  <1>3. Idle \in Session
    BY <1>1, <1>2 DEF Idle, Session, Points, Kinds
  <1>4. \A s \in Session : Advanced(s) \in Session
    BY <1>3 DEF Advanced, Idle, Session, Points
  <1>5. SessionOK(Idle) /\ \A s \in Session : SessionOK(Advanced(s))
    BY DEF SessionOK, Advanced, Idle
  <1> QED
    BY <1>2, <1>3, <1>4, <1>5

\* Loading a node fills the session with a node of the table and its row.
LEMMA LoadedIsTyped ==
    ASSUME TypeOK, NEW s \in Session, NEW n \in Nodes
    PROVE  Loaded(s, n) \in Session /\ SessionOK(Loaded(s, n))
  BY DEF Loaded, Session, SessionOK, TypeOK, Points
-------------------------------------------------------------------------------
(***************************************************************************)
(* Type correctness.  Two kinds of session step: those that move only the  *)
(* session, and those that also write tables.                              *)
(***************************************************************************)

\* A step that only gives session w a well-typed value keeps TypeOK.
LEMMA SessionStepTyped ==
    ASSUME TypeOK, NEW w \in Workers, NEW s \in Session, SessionOK(s),
           session' = [session EXCEPT ![w] = s],
           UNCHANGED <<registered, row, task, logged, now>>
    PROVE  TypeOK'
  BY DEF TypeOK, SessionOK

\* So does a step that also writes well-typed rows, ledger and tasks, as long
\* as no task leaves the table.
LEMMA TableStepTyped ==
    ASSUME TypeOK, NEW w \in Workers, NEW s \in Session, SessionOK(s),
           session' = [session EXCEPT ![w] = s],
           UNCHANGED <<registered, now>>,
           row' \in [Nodes -> Row], logged' \in [Nodes -> Statuses],
           task' \in [TaskIds -> Task \cup {None}],
           \A t \in TaskIds : task[t] # None => task'[t] # None
    PROVE  TypeOK'
  BY DEF TypeOK, SessionOK

\* A task the Temporal side or a resolution rewrites stays a task of its node.
LEMMA RewrittenTask ==
    ASSUME TypeOK, NEW t \in TaskIds, task[t] # None, NEW st \in TaskStatuses,
           task' = [task EXCEPT ![t] = [@ EXCEPT !.status = st]]
    PROVE  /\ task' \in [TaskIds -> Task \cup {None}]
           /\ \A u \in TaskIds : task[u] # None =>
                  task'[u] # None /\ task'[u].node = task[u].node
  <1>1. task[t] \in Task /\ [task[t] EXCEPT !.status = st] \in Task
    BY DEF TypeOK, Task
  <1>2. [task[t] EXCEPT !.status = st].node = task[t].node
    BY <1>1 DEF Task
  <1> QED
    BY <1>1, <1>2, GovernanceAssumption DEF TypeOK

LEMMA InitTyped == Init => TypeOK
  BY RestIsTyped, GovernanceAssumption DEF Init, TypeOK, Statuses, Days

\* Every step of the pipeline keeps the types.
LEMMA PipelineTyped ==
    ASSUME TypeOK, NEW w \in Workers, Pipeline(w)
    PROVE  TypeOK'
  <1> DEFINE s == session[w]
  <1>0. s \in Session /\ SessionOK(s)
    BY DEF TypeOK
  <1>1. CASE \E S \in SUBSET Nodes, n \in Nodes : ingest_signals(w, S, n)
    <2>1. PICK S \in SUBSET Nodes, n \in Nodes : ingest_signals(w, S, n)
      BY <1>1
    <2> DEFINE s0 == [Idle EXCEPT !.kind = "ingest", !.todo = S, !.day = now]
    <2>2. s0 \in Session
      BY RestIsTyped DEF Session, TypeOK, Kinds
    <2> QED
      BY <2>1, <2>2, LoadedIsTyped, SessionStepTyped DEF ingest_signals
  <1>2. CASE run_scheduled_cycle(w)
    <2> DEFINE rows == {n \in registered : row[n].status \in {"ACTIVE", "PROVISIONAL"}}
               s1 == [Idle EXCEPT !.pc = "next", !.kind = "cycle", !.todo = rows, !.day = now]
    <2>1. s1 \in Session
      BY RestIsTyped DEF Session, TypeOK, Kinds, Points
    <2>2. SessionOK(s1)
      BY DEF SessionOK, Idle
    <2> QED
      BY <1>2, <2>1, <2>2, SessionStepTyped DEF run_scheduled_cycle
  <1>3. CASE LoadNode(w)
    <2>1. PICK n \in s.todo : session' = [session EXCEPT ![w] = Loaded(s, n)]
      BY <1>3 DEF LoadNode
    <2>2. n \in Nodes
      BY <1>0, <2>1 DEF Session
    <2> QED
      BY <1>0, <1>3, <2>1, <2>2, LoadedIsTyped, SessionStepTyped DEF LoadNode
  <1>4. CASE RaiseInvalid(w)
    BY <1>0, <1>4, RestIsTyped, SessionStepTyped DEF RaiseInvalid
  <1>5. CASE CommitRun(w)
    <2>1. PICK b \in Inputs(s) :
              /\ row' = [row EXCEPT ![s.node] = Flushed(s, b)]
              /\ logged' = IF Upgrades(s, b)
                           THEN [logged EXCEPT ![s.node] = Target(s, b)] ELSE logged
      BY <1>5 DEF CommitRun
    <2>2. b \in ShockBatch
      BY <2>1, InputsAreShocks
    <2>3. s.pc = "loaded" /\ UNCHANGED <<registered, task, now>>
          /\ session' = [session EXCEPT ![w] = Advanced(s)]
      BY <1>5 DEF CommitRun
    <2>4. row' \in [Nodes -> Row]
      BY <2>1, <2>2, <2>3, FlushedIsRow DEF TypeOK
    <2>5. Target(s, b) \in Statuses
      BY SuggestionIsStatus DEF Target, Statuses
    <2>6. logged' \in [Nodes -> Statuses]
      BY <2>1, <2>5 DEF TypeOK
    <2>7. task' \in [TaskIds -> Task \cup {None}] /\ \A t \in TaskIds : task'[t] = task[t]
      BY <2>3 DEF TypeOK
    <2> QED
      BY <1>0, <2>3, <2>4, <2>6, <2>7, RestIsTyped, TableStepTyped
  <1>6. CASE create_escalation_task(w)
    <2>1. s.pc = "loaded" /\ UNCHANGED <<registered, logged, now>>
          /\ session' = [session EXCEPT ![w].pc = "escalated"]
      BY <1>6 DEF create_escalation_task
    <2>2. PICK b \in Inputs(s) : row' = [row EXCEPT ![s.node] = Flushed(s, b)]
      BY <1>6 DEF create_escalation_task
    <2>3. PICK t \in FreeTasks :
              task' = [task EXCEPT ![t] = [node |-> s.node, status |-> "PENDING"]]
      BY <1>6 DEF create_escalation_task
    <2>4. b \in ShockBatch
      BY <2>2, InputsAreShocks
    <2>5. row' \in [Nodes -> Row]
      BY <2>1, <2>2, <2>4, FlushedIsRow DEF TypeOK
    <2>6. [node |-> s.node, status |-> "PENDING"] \in Task
      BY <1>0, <2>1 DEF SessionOK, Task, TaskStatuses
    <2>7. task' \in [TaskIds -> Task \cup {None}]
          /\ \A u \in TaskIds : task[u] # None => task'[u] # None
      BY <2>3, <2>6, GovernanceAssumption DEF TypeOK, FreeTasks
    <2>8. [s EXCEPT !.pc = "escalated"] \in Session
          /\ SessionOK([s EXCEPT !.pc = "escalated"])
      BY <1>0, <2>1 DEF Session, SessionOK, Points
    <2>9. session' = [session EXCEPT ![w] = [s EXCEPT !.pc = "escalated"]]
          /\ logged' \in [Nodes -> Statuses]
      BY <2>1 DEF TypeOK
    <2> QED
      BY <2>1, <2>5, <2>7, <2>8, <2>9, TableStepTyped
  <1>7. CASE ReloadNode(w)
    <2> DEFINE r == row[s.node]
               s7 == [s EXCEPT !.pc = "reloaded", !.snap = r, !.changed = r.status # s.snap.status]
    <2>1. s.pc = "escalated" /\ r \in Row
      BY <1>0, <1>7 DEF ReloadNode, SessionOK, TypeOK
    <2>2. s7 \in Session /\ SessionOK(s7)
      BY <1>0, <2>1 DEF Session, SessionOK, Points
    <2>3. session' = [session EXCEPT ![w] = s7]
      BY <1>7 DEF ReloadNode, TypeOK
    <2> QED
      BY <1>7, <2>2, <2>3, SessionStepTyped DEF ReloadNode
  <1>8. CASE CommitAudit(w)
    <2>1. s.pc = "reloaded" /\ UNCHANGED <<registered, row, task, now>>
          /\ session' = [session EXCEPT ![w] = Advanced(s)]
      BY <1>8 DEF CommitAudit
    <2>2. s.snap.status \in Statuses
      BY <1>0 DEF Session, Row
    <2>3. logged' \in [Nodes -> Statuses]
      BY <1>8, <2>2 DEF CommitAudit, TypeOK
    <2>4. row' \in [Nodes -> Row] /\ task' \in [TaskIds -> Task \cup {None}]
          /\ \A t \in TaskIds : task'[t] = task[t]
      BY <2>1 DEF TypeOK
    <2> QED
      BY <1>0, <2>1, <2>3, <2>4, RestIsTyped, TableStepTyped
  <1> QED
    BY <1>1, <1>2, <1>3, <1>4, <1>5, <1>6, <1>7, <1>8 DEF Pipeline

\* Every step of the administrator's requests keeps the types.
LEMMA AdminTyped ==
    ASSUME TypeOK, NEW w \in Workers, Admin(w)
    PROVE  TypeOK'
  <1> DEFINE s == session[w]
  <1>0. s \in Session /\ SessionOK(s)
    BY DEF TypeOK
  <1>1. CASE \E n \in Nodes : admin_recertify_node(w, n)
    <2>1. PICK n \in Nodes : admin_recertify_node(w, n)
      BY <1>1
    <2> DEFINE s1 == Loaded([Idle EXCEPT !.kind = "recertify"], n)
    <2>2. s1 \in Session /\ s1.node \in Nodes
      <3>1. [Idle EXCEPT !.kind = "recertify"] \in Session
        BY RestIsTyped DEF Session, Kinds
      <3> QED
        BY <3>1, LoadedIsTyped DEF Loaded, Session
    <2>3. [s1 EXCEPT !.pc = "recertify"] \in Session
          /\ SessionOK([s1 EXCEPT !.pc = "recertify"])
      BY <2>2 DEF Session, SessionOK, Points
    <2> QED
      BY <2>1, <2>3, SessionStepTyped DEF admin_recertify_node
  <1>2. CASE CommitRecertify(w)
    <2>1. s.pc = "recertify" /\ s.node \in Nodes
          /\ row' = [row EXCEPT ![s.node] = Recertified(s)]
          /\ logged' = [logged EXCEPT ![s.node] = "ACTIVE"]
          /\ session' = [session EXCEPT ![w] = Idle]
          /\ UNCHANGED <<registered, task, now>>
      BY <1>0, <1>2 DEF CommitRecertify, SessionOK
    <2>2. row' \in [Nodes -> Row]
      BY <2>1, RecertifiedIsRow DEF TypeOK
    <2>3. logged' \in [Nodes -> Statuses]
      BY <2>1 DEF TypeOK, Statuses
    <2>4. task' \in [TaskIds -> Task \cup {None}] /\ \A t \in TaskIds : task'[t] = task[t]
      BY <2>1 DEF TypeOK
    <2> QED
      BY <2>1, <2>2, <2>3, <2>4, RestIsTyped, TableStepTyped
  <1>3. CASE \E t \in TaskIds : admin_resolve_task(w, t)
    <2>1. PICK t \in TaskIds : admin_resolve_task(w, t)
      BY <1>3
    <2> DEFINE s3 == [Idle EXCEPT !.pc = "resolve_task", !.kind = "resolve",
                                  !.task = t, !.node = task[t].node]
    <2>2. task[t] # None /\ task[t].node \in Nodes
      BY <2>1 DEF admin_resolve_task, TypeOK, Task
    <2>3. s3 \in Session /\ SessionOK(s3)
      BY <2>2, RestIsTyped DEF Idle, Session, SessionOK, Points, Kinds
    <2> QED
      BY <2>1, <2>3, SessionStepTyped DEF admin_resolve_task
  <1>4. CASE ResolveLoadNode(w)
    <2> DEFINE r == row[s.node]
               s4 == [s EXCEPT !.pc = "resolve_node", !.snap = r]
    <2>1. s.pc = "resolve_task" /\ r \in Row
      BY <1>0, <1>4 DEF ResolveLoadNode, SessionOK, TypeOK
    <2>2. s4 \in Session /\ SessionOK(s4)
      BY <1>0, <2>1 DEF Session, SessionOK, Points
    <2>3. session' = [session EXCEPT ![w] = s4]
      BY <1>4 DEF ResolveLoadNode, TypeOK
    <2> QED
      BY <1>4, <2>2, <2>3, SessionStepTyped DEF ResolveLoadNode
  <1>5. CASE ResolveCount(w)
    <2> DEFINE last == OpenTasks(s.node) = {} /\ s.snap.status = "IN_REVIEW"
               s5 == [s EXCEPT !.pc = "resolve_counted", !.changed = last]
    <2>1. s.pc = "resolve_node" /\ last \in BOOLEAN
      BY <1>5 DEF ResolveCount
    <2>2. s5 \in Session /\ SessionOK(s5)
      BY <1>0, <2>1 DEF Session, SessionOK, Points
    <2>3. session' = [session EXCEPT ![w] = s5]
      BY <1>5 DEF ResolveCount, TypeOK
    <2> QED
      BY <1>5, <2>2, <2>3, SessionStepTyped DEF ResolveCount
  <1>6. CASE CommitResolve(w)
    <2>1. s.task \in TaskIds /\ task[s.task] # None /\ s.node \in Nodes
      BY <1>0, <1>6 DEF CommitResolve, SessionOK
    <2>2. task' \in [TaskIds -> Task \cup {None}]
          /\ \A u \in TaskIds : task[u] # None => task'[u] # None
      BY <1>6, <2>1, RewrittenTask DEF CommitResolve, TaskStatuses
    <2>3. row' \in [Nodes -> Row]
      BY <1>6, <2>1 DEF CommitResolve, TypeOK, Row, Statuses
    <2>4. logged' \in [Nodes -> Statuses] /\ UNCHANGED <<registered, now>>
          /\ session' = [session EXCEPT ![w] = Idle]
      BY <1>6 DEF CommitResolve, TypeOK
    <2> QED
      BY <2>2, <2>3, <2>4, RestIsTyped, TableStepTyped
  <1> QED
    BY <1>1, <1>2, <1>3, <1>4, <1>5, <1>6 DEF Admin

\* Every step keeps the types.
LEMMA NextTyped == TypeOK /\ [Next]_vars => TypeOK'
  <1> SUFFICES ASSUME TypeOK, [Next]_vars
               PROVE  TypeOK'
    OBVIOUS
  <1>1. CASE \E n \in Nodes : create_node(n)
    BY <1>1, RestIsTyped DEF create_node, TypeOK, SessionOK
  <1>2. CASE Tick
    BY <1>2, GovernanceAssumption DEF Tick, TypeOK, SessionOK, Days
  <1>3. CASE \E w \in Workers : Pipeline(w)
    BY <1>3, PipelineTyped
  <1>4. CASE \E w \in Workers : Admin(w)
    BY <1>4, AdminTyped
  <1>5. CASE \E w \in Workers : Crash(w)
    BY <1>5, RestIsTyped, SessionStepTyped DEF Crash
  <1>6. CASE \E t \in TaskIds : dispatch_pending_tasks(t) \/ approve_escalation(t)
    <2>1. PICK t \in TaskIds, st \in TaskStatuses :
              /\ task[t] # None
              /\ task' = [task EXCEPT ![t] = [@ EXCEPT !.status = st]]
      BY <1>6 DEF dispatch_pending_tasks, approve_escalation, TaskStatuses
    <2>2. UNCHANGED <<registered, row, logged, now, session>>
      BY <1>6 DEF dispatch_pending_tasks, approve_escalation
    <2> QED
      BY <2>1, <2>2, RewrittenTask DEF TypeOK, SessionOK
  <1>7. CASE UNCHANGED vars
    BY <1>7 DEF vars, TypeOK, SessionOK
  <1> QED
    BY <1>1, <1>2, <1>3, <1>4, <1>5, <1>6, <1>7 DEF Next

\* Every reachable state is well typed: reliabilities stay in 0..Scale, statuses
\* in the enumeration, and no session loses the node or task it works on.
THEOREM TypeCorrect == Spec => []TypeOK
  BY InitTyped, NextTyped, PTL DEF Spec
-------------------------------------------------------------------------------
(***************************************************************************)
(* Review and its tasks, for any number of concurrent sessions and with    *)
(* sessions dying anywhere.                                                *)
(***************************************************************************)

\* A run that does not escalate never writes IN_REVIEW, however stale its snapshot.
LEMMA RunWritesNoReview ==
    ASSUME TypeOK, NEW w \in Workers, session[w].pc = "loaded", NEW b,
           ~Escalates(session[w], b), Flushed(session[w], b).status = "IN_REVIEW"
    PROVE  row[session[w].node].status = "IN_REVIEW"
  <1>1. row[session[w].node] \in Row
    BY DEF TypeOK, SessionOK
  <1>2. Flushed(session[w], b).status =
            Flush(row[session[w].node].status, session[w].snap.status,
                  AssignedStatus(session[w], b))
    BY <1>1 DEF Flushed, Row
  <1> QED
    BY <1>2 DEF Flush, AssignedStatus, Escalates

\* The step form of ReviewOpensTask.
LEMMA ReviewStep ==
    ASSUME TypeOK, [Next]_vars, NEW n \in Nodes,
           row[n].status # "IN_REVIEW", row'[n].status = "IN_REVIEW"
    PROVE  \E t \in TaskIds : task[t] = None /\ task'[t] = [node |-> n, status |-> "PENDING"]
  <1>1. CASE \E w \in Workers : create_escalation_task(w)
    <2>1. PICK w \in Workers : create_escalation_task(w)
      BY <1>1
    <2>2. session[w].node = n
      BY <2>1 DEF create_escalation_task, TypeOK
    <2> QED
      BY <2>1, <2>2 DEF create_escalation_task, FreeTasks, TypeOK
  <1>2. CASE \E w \in Workers : CommitRun(w)
    <2>1. PICK w \in Workers : CommitRun(w)
      BY <1>2
    <2>2. PICK b \in Inputs(session[w]) :
              /\ ~Escalates(session[w], b)
              /\ row' = [row EXCEPT ![session[w].node] = Flushed(session[w], b)]
      BY <2>1 DEF CommitRun
    <2> QED
      BY <2>1, <2>2, RunWritesNoReview DEF CommitRun, TypeOK
  <1>3. CASE \E w \in Workers : CommitRecertify(w)
    <2>1. PICK w \in Workers : CommitRecertify(w)
      BY <1>3
    <2>2. session[w].node = n /\ row'[n] = Recertified(session[w])
      BY <2>1 DEF CommitRecertify, TypeOK
    <2>3. Recertified(session[w]).status \in {"ACTIVE", row[n].status}
      BY <2>2 DEF Recertified, Flush, TypeOK, Row
    <2> QED
      BY <2>2, <2>3
  <1>4. CASE \E w \in Workers : CommitResolve(w)
    BY <1>4 DEF CommitResolve, TypeOK, Row
  <1>5. CASE \E m \in Nodes : create_node(m)
    BY <1>5 DEF create_node, FreshRow, TypeOK
  <1>6. CASE UNCHANGED row
    BY <1>6
  <1> QED
    BY <1>1, <1>2, <1>3, <1>4, <1>5, <1>6
    DEF Next, Pipeline, Admin, vars, Tick, Crash, ingest_signals, run_scheduled_cycle,
        LoadNode, RaiseInvalid, ReloadNode, CommitAudit, admin_recertify_node,
        admin_resolve_task, ResolveLoadNode, ResolveCount, dispatch_pending_tasks,
        approve_escalation

\* A node enters review only together with a new task for it, in one commit.
THEOREM ReviewIsOpened == Spec => ReviewOpensTask
  <1>1. TypeOK /\ [Next]_vars =>
            [\A n \in Nodes : row[n].status # "IN_REVIEW" /\ row'[n].status = "IN_REVIEW" =>
                \E t \in TaskIds :
                    task[t] = None /\ task'[t] = [node |-> n, status |-> "PENDING"]]_vars
    BY ReviewStep
  <1> QED
    BY <1>1, TypeCorrect, PTL DEF Spec, ReviewOpensTask

-------------------------------------------------------------------------------
(***************************************************************************)
(* What no overlap can disturb: a session works on registered nodes, knows *)
(* which request it serves, and has the date of a day that has come.       *)
(***************************************************************************)

WorkOK(s) ==
    /\ s.todo \subseteq registered
    /\ s.pc \in {"loaded", "recertify"} => s.node \in registered
    /\ s.pc = "recertify" => s.kind = "recertify"
    /\ s.pc \in {"resolve_task", "resolve_node", "resolve_counted"} => s.kind = "resolve"
    /\ s.day <= now

SessionInv ==
    /\ \A n \in Nodes \ registered : row[n].status = "ACTIVE" /\ row[n].rel = Healthy
    /\ \A w \in Workers : WorkOK(session[w])

LEMMA InitSession == Init => SessionInv
  BY DEF Init, SessionInv, WorkOK, FreshRow, Idle

\* A step that gives one session a value in order, and leaves the rows of
\* unregistered nodes as they are inserted, keeps SessionInv.
LEMMA SessionStepWorks ==
    ASSUME TypeOK, SessionInv, NEW w \in Workers, NEW s, WorkOK(s),
           session' = [session EXCEPT ![w] = s], UNCHANGED <<registered, now>>,
           \A n \in Nodes \ registered : row'[n].status = "ACTIVE" /\ row'[n].rel = Healthy
    PROVE  SessionInv'
  BY DEF TypeOK, SessionInv, WorkOK

\* What a request or cycle does with its session keeps it in order.
LEMMA RestWorks ==
    ASSUME TypeOK
    PROVE  /\ WorkOK(Idle)
           /\ \A s \in Session : WorkOK(s) => WorkOK(Advanced(s))
           /\ \A s \in Session, n \in registered :
                  s.todo \subseteq registered /\ s.day <= now => WorkOK(Loaded(s, n))
  <1>1. now >= 0
    BY GovernanceAssumption DEF TypeOK, Days
  <1>2. WorkOK(Idle)
    BY <1>1 DEF WorkOK, Idle
  <1>3. ASSUME NEW s \in Session, WorkOK(s) PROVE WorkOK(Advanced(s))
    <2>1. CASE s.todo = {}
      BY <1>2, <2>1 DEF Advanced
    <2>2. CASE s.todo # {}
      <3>1. /\ Advanced(s).todo = s.todo /\ Advanced(s).pc = "next"
            /\ Advanced(s).day = s.day
        BY <2>2 DEF Advanced, Idle
      <3> QED
        BY <1>3, <3>1 DEF WorkOK
    <2> QED
      BY <2>1, <2>2
  <1>4. ASSUME NEW s \in Session, NEW n \in registered, s.todo \subseteq registered, s.day <= now
        PROVE  WorkOK(Loaded(s, n))
    <2>1. /\ Loaded(s, n).todo = s.todo \ {n} /\ Loaded(s, n).pc = "loaded"
          /\ Loaded(s, n).node = n /\ Loaded(s, n).day = s.day
      BY DEF Loaded, Session
    <2> QED
      BY <1>4, <2>1 DEF WorkOK
  <1> QED
    BY <1>2, <1>3, <1>4

LEMMA PipelineWorks ==
    ASSUME TypeOK, SessionInv, NEW w \in Workers, Pipeline(w)
    PROVE  SessionInv'
  <1> DEFINE s == session[w]
  <1>0. s \in Session /\ SessionOK(s) /\ WorkOK(s) /\ now \in Int
    BY GovernanceAssumption DEF TypeOK, SessionInv, Days
  <1>00. \A n \in Nodes \ registered : row[n].status = "ACTIVE" /\ row[n].rel = Healthy
    BY DEF SessionInv
  <1>1. CASE \E S \in SUBSET Nodes, n \in Nodes : ingest_signals(w, S, n)
    <2>1. PICK S \in SUBSET Nodes, n \in Nodes : ingest_signals(w, S, n)
      BY <1>1
    <2> DEFINE s0 == [Idle EXCEPT !.kind = "ingest", !.todo = S, !.day = now]
    <2>2. s0 \in Session /\ s0.todo = S /\ s0.day = now
      BY RestIsTyped DEF Session, TypeOK, Kinds
    <2>3. /\ session' = [session EXCEPT ![w] = Loaded(s0, n)]
          /\ n \in registered /\ S \subseteq registered /\ UNCHANGED <<registered, row, now>>
      BY <2>1 DEF ingest_signals
    <2> HIDE DEF s0
    <2>4. WorkOK(Loaded(s0, n))
      BY <1>0, <2>2, <2>3, RestWorks
    <2> QED
      BY <1>00, <2>3, <2>4, SessionStepWorks
  <1>2. CASE run_scheduled_cycle(w)
    <2> DEFINE rows == {n \in registered : row[n].status \in {"ACTIVE", "PROVISIONAL"}}
               s2 == [Idle EXCEPT !.pc = "next", !.kind = "cycle", !.todo = rows, !.day = now]
    <2>1. WorkOK(s2)
      BY <1>0 DEF WorkOK, Idle
    <2> QED
      BY <1>00, <1>2, <2>1, SessionStepWorks DEF run_scheduled_cycle
  <1>3. CASE LoadNode(w)
    <2>1. PICK n \in s.todo : session' = [session EXCEPT ![w] = Loaded(s, n)]
      BY <1>3 DEF LoadNode
    <2>2. WorkOK(Loaded(s, n))
      BY <1>0, <2>1, RestWorks DEF WorkOK
    <2> QED
      BY <1>00, <1>3, <2>1, <2>2, SessionStepWorks DEF LoadNode
  <1>4. CASE RaiseInvalid(w)
    <2>1. PICK r \in {Idle, Advanced(s)} : session' = [session EXCEPT ![w] = r]
      BY <1>4 DEF RaiseInvalid
    <2> QED
      BY <1>0, <1>00, <1>4, <2>1, RestWorks, SessionStepWorks DEF RaiseInvalid
  <1>5. CASE CommitRun(w)
    <2>1. /\ s.node \in registered /\ \E r : row' = [row EXCEPT ![s.node] = r]
          /\ session' = [session EXCEPT ![w] = Advanced(s)] /\ UNCHANGED <<registered, now>>
      BY <1>0, <1>5 DEF CommitRun, WorkOK
    <2>2. \A n \in Nodes \ registered : row'[n] = row[n]
      BY <2>1 DEF TypeOK
    <2> QED
      BY <1>0, <1>00, <2>1, <2>2, RestWorks, SessionStepWorks
  <1>6. CASE create_escalation_task(w)
    <2>1. /\ s.node \in registered /\ \E r : row' = [row EXCEPT ![s.node] = r]
          /\ session' = [session EXCEPT ![w] = [s EXCEPT !.pc = "escalated"]]
          /\ UNCHANGED <<registered, now>>
      BY <1>0, <1>6 DEF create_escalation_task, WorkOK, TypeOK
    <2>2. \A n \in Nodes \ registered : row'[n] = row[n]
      BY <2>1 DEF TypeOK
    <2>3. WorkOK([s EXCEPT !.pc = "escalated"])
      BY <1>0 DEF WorkOK, Session
    <2> QED
      BY <1>00, <2>1, <2>2, <2>3, SessionStepWorks
  <1>7. CASE ReloadNode(w)
    <2> DEFINE s7 == [s EXCEPT !.pc = "reloaded", !.snap = row[s.node],
                               !.changed = row[s.node].status # s.snap.status]
    <2>1. WorkOK(s7)
      BY <1>0 DEF WorkOK, Session
    <2>2. session' = [session EXCEPT ![w] = s7] /\ UNCHANGED <<registered, row, now>>
      BY <1>7 DEF ReloadNode, TypeOK
    <2> QED
      BY <1>00, <2>1, <2>2, SessionStepWorks
  <1>8. CASE CommitAudit(w)
    BY <1>0, <1>00, <1>8, RestWorks, SessionStepWorks DEF CommitAudit
  <1> QED
    BY <1>1, <1>2, <1>3, <1>4, <1>5, <1>6, <1>7, <1>8 DEF Pipeline

LEMMA AdminWorks ==
    ASSUME TypeOK, SessionInv, NEW w \in Workers, Admin(w)
    PROVE  SessionInv'
  <1> DEFINE s == session[w]
  <1>0. s \in Session /\ SessionOK(s) /\ WorkOK(s)
    BY DEF TypeOK, SessionInv
  <1>00. \A n \in Nodes \ registered : row[n].status = "ACTIVE" /\ row[n].rel = Healthy
    BY DEF SessionInv
  <1>1. CASE \E n \in Nodes : admin_recertify_node(w, n)
    <2>1. PICK n \in Nodes : admin_recertify_node(w, n)
      BY <1>1
    <2> DEFINE s0 == [Idle EXCEPT !.kind = "recertify"]
    <2>2. s0 \in Session /\ s0.kind = "recertify" /\ s0.todo = {} /\ s0.day = 0
      BY RestIsTyped DEF Session, Kinds, Idle
    <2>20. 0 <= now
      BY GovernanceAssumption DEF TypeOK, Days
    <2>3. /\ session' = [session EXCEPT ![w] = [Loaded(s0, n) EXCEPT !.pc = "recertify"]]
          /\ n \in registered /\ UNCHANGED <<registered, row, now>>
      BY <2>1 DEF admin_recertify_node
    <2> HIDE DEF s0
    <2>4. [Loaded(s0, n) EXCEPT !.pc = "recertify"].todo \subseteq registered
          /\ [Loaded(s0, n) EXCEPT !.pc = "recertify"].kind = "recertify"
          /\ [Loaded(s0, n) EXCEPT !.pc = "recertify"].pc = "recertify"
          /\ [Loaded(s0, n) EXCEPT !.pc = "recertify"].node = n
          /\ [Loaded(s0, n) EXCEPT !.pc = "recertify"].day = s0.day
      BY <2>2 DEF Loaded, Session
    <2>5. WorkOK([Loaded(s0, n) EXCEPT !.pc = "recertify"])
      BY <2>2, <2>20, <2>3, <2>4 DEF WorkOK
    <2> QED
      BY <1>00, <2>3, <2>5, SessionStepWorks
  <1>2. CASE CommitRecertify(w)
    <2>1. /\ s.node \in registered /\ row' = [row EXCEPT ![s.node] = Recertified(s)]
          /\ session' = [session EXCEPT ![w] = Idle] /\ UNCHANGED <<registered, now>>
      BY <1>0, <1>2 DEF CommitRecertify, WorkOK
    <2>2. \A n \in Nodes \ registered : row'[n] = row[n]
      BY <2>1 DEF TypeOK
    <2> QED
      BY <1>00, <2>1, <2>2, RestWorks, SessionStepWorks
  <1>3. CASE \E t \in TaskIds : admin_resolve_task(w, t)
    <2>1. PICK t \in TaskIds : admin_resolve_task(w, t)
      BY <1>3
    <2> DEFINE s3 == [Idle EXCEPT !.pc = "resolve_task", !.kind = "resolve",
                                  !.task = t, !.node = task[t].node]
    <2>2. WorkOK(s3)
      BY RestWorks DEF WorkOK, Idle
    <2> QED
      BY <1>00, <2>1, <2>2, SessionStepWorks DEF admin_resolve_task
  <1>4. CASE ResolveLoadNode(w)
    <2> DEFINE s4 == [s EXCEPT !.pc = "resolve_node", !.snap = row[s.node]]
    <2>1. WorkOK(s4)
      BY <1>0, <1>4 DEF WorkOK, Session, ResolveLoadNode
    <2>2. session' = [session EXCEPT ![w] = s4] /\ UNCHANGED <<registered, row, now>>
      BY <1>4 DEF ResolveLoadNode, TypeOK
    <2> QED
      BY <1>00, <2>1, <2>2, SessionStepWorks
  <1>5. CASE ResolveCount(w)
    <2> DEFINE s5 == [s EXCEPT !.pc = "resolve_counted",
                               !.changed = (OpenTasks(s.node) = {} /\ s.snap.status = "IN_REVIEW")]
    <2>1. WorkOK(s5)
      BY <1>0, <1>5 DEF WorkOK, Session, ResolveCount
    <2>2. session' = [session EXCEPT ![w] = s5] /\ UNCHANGED <<registered, row, now>>
      BY <1>5 DEF ResolveCount, TypeOK
    <2> QED
      BY <1>00, <2>1, <2>2, SessionStepWorks
  <1>6. CASE CommitResolve(w)
    <2>1. \A n \in Nodes : row'[n].status \in {row[n].status, "ACTIVE"}
                             /\ row'[n].rel = row[n].rel
      BY <1>6 DEF CommitResolve, TypeOK, Row
    <2> QED
      BY <1>00, <1>6, <2>1, RestWorks, SessionStepWorks DEF CommitResolve
  <1> QED
    BY <1>1, <1>2, <1>3, <1>4, <1>5, <1>6 DEF Admin

\* Every step of any number of sessions keeps SessionInv.
LEMMA NextSession == TypeOK /\ SessionInv /\ [Next]_vars => SessionInv'
  <1> SUFFICES ASSUME TypeOK, SessionInv, [Next]_vars
               PROVE  SessionInv'
    OBVIOUS
  <1>1. CASE \E n \in Nodes : create_node(n)
    BY <1>1 DEF create_node, FreshRow, SessionInv, WorkOK, TypeOK
  <1>2. CASE Tick
    <2>1. now' \in Int /\ now \in Int /\ now' = now + 1
      BY <1>2, GovernanceAssumption DEF Tick, TypeOK, Days
    <2>2. \A w \in Workers : session[w].day \in Int
      BY GovernanceAssumption DEF TypeOK, Session, Days
    <2> QED
      BY <1>2, <2>1, <2>2 DEF Tick, SessionInv, WorkOK
  <1>3. CASE UNCHANGED vars
    BY <1>3 DEF vars, SessionInv, WorkOK
  <1>4. CASE \E t \in TaskIds : dispatch_pending_tasks(t) \/ approve_escalation(t)
    BY <1>4 DEF dispatch_pending_tasks, approve_escalation, SessionInv, WorkOK
  <1>5. CASE \E w \in Workers : Crash(w)
    BY <1>5, RestWorks, SessionStepWorks DEF Crash, SessionInv
  <1> QED
    BY <1>1, <1>2, <1>3, <1>4, <1>5, PipelineWorks, AdminWorks DEF Next

\* However sessions overlap, each works on registered nodes.
LEMMA SessionsWork == Spec => []SessionInv
  BY InitSession, NextSession, TypeCorrect, PTL DEF Spec

\* A pipeline run never writes ACTIVE over another status: it writes the status
\* column only with a status more severe than the one it has read.
LEMMA RunWritesNoActive ==
    ASSUME TypeOK, NEW w \in Workers, session[w].pc = "loaded", NEW b,
           Flushed(session[w], b).status = "ACTIVE"
    PROVE  row[session[w].node].status = "ACTIVE"
  <1> DEFINE s == session[w]
  <1>1. row[s.node] \in Row /\ s.snap.status \in Statuses
    BY DEF TypeOK, SessionOK, Session, Row
  <1>2. Flushed(s, b).status = Flush(row[s.node].status, s.snap.status, AssignedStatus(s, b))
    BY <1>1 DEF Flushed, Row
  <1>3. CASE Upgrades(s, b)
    <2>1. Target(s, b) # "ACTIVE"
      BY <1>1, <1>3 DEF Upgrades, Severity, Statuses
    <2> QED
      BY <1>2, <1>3, <2>1 DEF Flush, AssignedStatus
  <1> QED
    BY <1>2, <1>3 DEF Flush, AssignedStatus

\* With any number of sessions only an administrator's request makes a node ACTIVE.
THEOREM ActiveIsHuman == Spec => OnlyHumansActivate
  <1>1. ASSUME TypeOK, SessionInv, [Next]_vars, NEW n \in Nodes,
               row[n].status # "ACTIVE", row'[n].status = "ACTIVE"
        PROVE  HumanStep
    <2>1. CASE \E w \in Workers : CommitRun(w) \/ create_escalation_task(w)
      <3>1. PICK w \in Workers : CommitRun(w) \/ create_escalation_task(w)
        BY <2>1
      <3>2. PICK b : session[w].pc = "loaded"
                     /\ row' = [row EXCEPT ![session[w].node] = Flushed(session[w], b)]
        BY <3>1 DEF CommitRun, create_escalation_task
      <3> QED
        BY <1>1, <3>2, RunWritesNoActive DEF TypeOK
    <2>2. CASE \E w \in Workers : CommitRecertify(w) \/ CommitResolve(w)
      <3>1. PICK w \in Workers : CommitRecertify(w) \/ CommitResolve(w)
        BY <2>2
      <3>2. session[w].kind \in {"recertify", "resolve"} /\ session[w].pc # "idle"
        BY <1>1, <3>1 DEF SessionInv, WorkOK, CommitRecertify, CommitResolve
      <3>3. session'[w].pc = "idle"
        BY <1>1, <3>1, RestIsTyped DEF CommitRecertify, CommitResolve, TypeOK, Idle
      <3> QED
        BY <3>2, <3>3 DEF HumanStep
    <2>3. CASE \E m \in Nodes : create_node(m)
      BY <1>1, <2>3 DEF create_node, SessionInv, TypeOK
    <2>4. CASE UNCHANGED row
      BY <1>1, <2>4
    <2> QED
      BY <1>1, <2>1, <2>2, <2>3, <2>4
      DEF Next, Pipeline, Admin, vars, Tick, Crash, ingest_signals, run_scheduled_cycle,
          LoadNode, RaiseInvalid, ReloadNode, CommitAudit, admin_recertify_node,
          admin_resolve_task, ResolveLoadNode, ResolveCount, dispatch_pending_tasks,
          approve_escalation
  <1>2. TypeOK /\ SessionInv /\ [Next]_vars =>
            [\A n \in Nodes : row[n].status # "ACTIVE" /\ row'[n].status = "ACTIVE" => HumanStep]_vars
    BY <1>1
  <1> QED
    BY <1>2, TypeCorrect, SessionsWork, PTL DEF Spec, OnlyHumansActivate
-------------------------------------------------------------------------------
(***************************************************************************)
(* One session at a time.  The upgrade-only guard compares the target with *)
(* the status in the session's snapshot; SerialInv says the snapshot is    *)
(* the row, which nothing but the session's own commits can change.        *)
(***************************************************************************)

OneSession == \A v, w \in Workers : v = w

\* The row a session that runs alone decided from is still the node's row.
SerialInv ==
    /\ SessionInv
    /\ \A w \in Workers : session[w].pc \in {"loaded", "recertify"} =>
           session[w].snap = row[session[w].node]

LEMMA InitSerial == Init => SerialInv
  BY InitSession DEF Init, SerialInv, Idle

\* With one session, SerialInv holds after every step: a step that leaves the session
\* with a snapshot has just taken it, or writes no row but that of a new node.
LEMMA NextSerial ==
    ASSUME OneSession, TypeOK, SerialInv, [Next]_vars
    PROVE  SerialInv'
  <1>0. SessionInv'
    BY NextSession DEF SerialInv
  <1>1. CASE \E n \in Nodes : create_node(n)
    BY <1>0, <1>1 DEF create_node, SerialInv, SessionInv, WorkOK, TypeOK
  <1>2. CASE Tick \/ UNCHANGED vars
    BY <1>0, <1>2 DEF Tick, vars, SerialInv
  <1>3. CASE \E t \in TaskIds : dispatch_pending_tasks(t) \/ approve_escalation(t)
    BY <1>0, <1>3 DEF dispatch_pending_tasks, approve_escalation, SerialInv
  <1>4. ASSUME NEW w \in Workers, Pipeline(w) \/ Admin(w) \/ Crash(w)
        PROVE  SerialInv'
    <2> DEFINE s == session[w]
    <2>0. s \in Session /\ Workers = {w}
      BY OneSession, <1>4 DEF TypeOK, OneSession
    <2> SUFFICES ASSUME session'[w].pc \in {"loaded", "recertify"}
                 PROVE  session'[w].snap = row'[session'[w].node]
      BY <1>0, <2>0 DEF SerialInv
    <2>1. \A r \in Session : Advanced(r).pc \in {"idle", "next"} /\ Idle.pc = "idle"
      BY DEF Advanced, Idle
    <2>2. CASE \E r \in Session, n \in Nodes :
                   /\ session' = [session EXCEPT ![w] = Loaded(r, n)]
                   /\ row' = row
      BY <2>2 DEF TypeOK, Loaded, Session
    <2>3. CASE \E S \in SUBSET Nodes, n \in Nodes : ingest_signals(w, S, n)
      <3>1. PICK S \in SUBSET Nodes, n \in Nodes : ingest_signals(w, S, n)
        BY <2>3
      <3>2. [Idle EXCEPT !.kind = "ingest", !.todo = S, !.day = now] \in Session
        BY RestIsTyped DEF Session, TypeOK, Kinds
      <3> QED
        BY <2>2, <3>1, <3>2 DEF ingest_signals
    <2>4. CASE LoadNode(w)
      BY <2>0, <2>2, <2>4 DEF LoadNode, Session
    <2>5. CASE \E n \in Nodes : admin_recertify_node(w, n)
      <3>1. PICK n \in Nodes : admin_recertify_node(w, n)
        BY <2>5
      <3>2. [Idle EXCEPT !.kind = "recertify"] \in Session
        BY RestIsTyped DEF Session, Kinds
      <3> QED
        BY <3>1, <3>2 DEF admin_recertify_node, TypeOK, Loaded, Session
    <2>6. CASE run_scheduled_cycle(w) \/ (\E t \in TaskIds : admin_resolve_task(w, t))
      <3>1. CASE run_scheduled_cycle(w)
        BY <2>0, <3>1 DEF run_scheduled_cycle, TypeOK, Idle
      <3>2. CASE \E t \in TaskIds : admin_resolve_task(w, t)
        BY <2>0, <3>2 DEF admin_resolve_task, TypeOK, Idle
      <3> QED
        BY <2>6, <3>1, <3>2
    <2>7. CASE RaiseInvalid(w) \/ CommitRun(w) \/ CommitAudit(w)
               \/ CommitRecertify(w) \/ CommitResolve(w) \/ Crash(w)
      <3>1. session' = [session EXCEPT ![w] = Idle]
            \/ session' = [session EXCEPT ![w] = Advanced(s)]
        BY <2>7
        DEF RaiseInvalid, CommitRun, CommitAudit, CommitRecertify, CommitResolve, Crash
      <3> QED
        BY <2>0, <2>1, <3>1 DEF TypeOK
    <2>8. CASE create_escalation_task(w) \/ ReloadNode(w) \/ ResolveLoadNode(w)
               \/ ResolveCount(w)
      BY <2>0, <2>8
      DEF create_escalation_task, ReloadNode, ResolveLoadNode, ResolveCount, TypeOK, Session
    <2> QED
      BY <1>4, <2>3, <2>4, <2>5, <2>6, <2>7, <2>8 DEF Pipeline, Admin
  <1> QED
    BY <1>1, <1>2, <1>3, <1>4 DEF Next

\* The serial invariant, over whole behaviours.
LEMMA SerialInvariant == ASSUME OneSession PROVE Spec => []SerialInv
  <1>1. TypeOK /\ SerialInv /\ [Next]_vars => SerialInv'
    BY NextSerial
  <1> QED
    BY <1>1, InitSerial, TypeCorrect, PTL DEF Spec

\* With nobody else writing the row, a run's commit is never a downgrade.
LEMMA RunNeverDowngrades ==
    ASSUME TypeOK, SerialInv, NEW w \in Workers, session[w].pc = "loaded", NEW b,
           row' = [row EXCEPT ![session[w].node] = Flushed(session[w], b)], NEW n \in Nodes
    PROVE  ~(Severity(row'[n].status) < Severity(row[n].status))
  <1> DEFINE s == session[w]
  <1>1. s.snap = row[s.node] /\ s.node \in Nodes /\ row[s.node] \in Row
    BY DEF SerialInv, SessionInv, WorkOK, TypeOK, SessionOK
  <1>2. Flushed(s, b).status = Flush(row[s.node].status, s.snap.status, AssignedStatus(s, b))
    BY <1>1 DEF Flushed, Row
  <1>3. CASE n # s.node
    BY <1>1, <1>3, SeverityIsNat DEF TypeOK, Row
  <1>4. CASE n = s.node /\ ~Upgrades(s, b)
    BY <1>1, <1>2, <1>4, SeverityIsNat DEF Flush, AssignedStatus, TypeOK, Row
  <1>5. CASE n = s.node /\ Upgrades(s, b)
    <2>1. Target(s, b) \in Statuses
      BY SuggestionIsStatus DEF Target, Statuses
    <2>2. row'[n].status = Target(s, b)
      BY <1>1, <1>2, <1>5 DEF Flush, AssignedStatus, TypeOK
    <2> QED
      BY <1>1, <1>5, <2>1, <2>2, SeverityIsNat DEF Upgrades, Row
  <1> QED
    BY <1>3, <1>4, <1>5

\* "Risk never auto-downgrades" holds as long as one session runs at a time.
THEOREM RiskIsMonotone == ASSUME OneSession PROVE Spec => RiskNeverAutoDowngrades
  <1>1. ASSUME TypeOK, SerialInv, [Next]_vars, NEW n \in Nodes,
               Severity(row'[n].status) < Severity(row[n].status)
        PROVE  HumanStep
    <2>1. CASE \E w \in Workers : CommitRun(w) \/ create_escalation_task(w)
      <3>1. PICK w \in Workers : CommitRun(w) \/ create_escalation_task(w)
        BY <2>1
      <3>2. session[w].pc = "loaded"
            /\ \E b : row' = [row EXCEPT ![session[w].node] = Flushed(session[w], b)]
        BY <3>1 DEF CommitRun, create_escalation_task
      <3> QED
        BY <1>1, <3>2, RunNeverDowngrades
    <2>2. CASE \E w \in Workers : CommitRecertify(w) \/ CommitResolve(w)
      <3>1. PICK w \in Workers : CommitRecertify(w) \/ CommitResolve(w)
        BY <2>2
      <3>2. session[w].kind \in {"recertify", "resolve"} /\ session[w].pc # "idle"
        BY <1>1, <3>1 DEF SerialInv, SessionInv, WorkOK, CommitRecertify, CommitResolve
      <3>3. session'[w].pc = "idle"
        BY <1>1, <3>1, RestIsTyped DEF CommitRecertify, CommitResolve, TypeOK, Idle
      <3> QED
        BY <3>2, <3>3 DEF HumanStep
    <2>3. CASE \E m \in Nodes : create_node(m)
      <3>1. row'[n].status = row[n].status
        BY <1>1, <2>3 DEF create_node, SerialInv, SessionInv, WorkOK, FreshRow, TypeOK
      <3> QED
        BY <1>1, <3>1, SeverityIsNat DEF TypeOK, Row
    <2>4. CASE UNCHANGED row
      BY <1>1, <2>4, SeverityIsNat DEF TypeOK, Row
    <2> QED
      BY <1>1, <2>1, <2>2, <2>3, <2>4
      DEF Next, Pipeline, Admin, vars, Tick, Crash, ingest_signals, run_scheduled_cycle,
          LoadNode, RaiseInvalid, ReloadNode, CommitAudit, admin_recertify_node,
          admin_resolve_task, ResolveLoadNode, ResolveCount, dispatch_pending_tasks,
          approve_escalation
  <1>2. TypeOK /\ SerialInv /\ [Next]_vars =>
            [\A n \in Nodes : Severity(row'[n].status) < Severity(row[n].status) => HumanStep]_vars
    BY <1>1
  <1> QED
    BY <1>2, TypeCorrect, SerialInvariant, PTL DEF Spec, RiskNeverAutoDowngrades

\* With one session, a node already under review is never given a second task.
THEOREM EscalationIsSingle == ASSUME OneSession PROVE Spec => EscalatesOnce
  <1>1. ASSUME TypeOK, SerialInv, [Next]_vars, NEW t \in TaskIds,
               task[t] = None, task'[t] # None
        PROVE  row[task'[t].node].status # "IN_REVIEW"
    <2>1. CASE \E w \in Workers : create_escalation_task(w)
      <3>0. PICK w \in Workers : create_escalation_task(w)
        BY <2>1
      <3>1. PICK b \in Inputs(session[w]) :
                /\ session[w].pc = "loaded" /\ Escalates(session[w], b)
                /\ \E u \in FreeTasks : task' = [task EXCEPT ![u] =
                       [node |-> session[w].node, status |-> "PENDING"]]
        BY <3>0 DEF create_escalation_task
      <3>2. task'[t].node = session[w].node
        BY <1>1, <3>1 DEF TypeOK
      <3>3. session[w].snap = row[session[w].node]
        BY <1>1, <3>1 DEF SerialInv, SessionInv, WorkOK
      <3>4. ~(Severity("IN_REVIEW") > Severity("IN_REVIEW"))
        BY DEF Severity
      <3> QED
        BY <3>1, <3>2, <3>3, <3>4 DEF Escalates, Upgrades
    <2>2. CASE \E w \in Workers : CommitResolve(w)
      BY <1>1, <2>2 DEF CommitResolve, TypeOK, SessionOK
    <2>3. CASE \E u \in TaskIds : dispatch_pending_tasks(u) \/ approve_escalation(u)
      BY <1>1, <2>3 DEF dispatch_pending_tasks, approve_escalation, TypeOK
    <2>4. CASE UNCHANGED task
      BY <1>1, <2>4
    <2> QED
      BY <1>1, <2>1, <2>2, <2>3, <2>4
      DEF Next, Pipeline, Admin, vars, create_node, Tick, Crash, ingest_signals,
          run_scheduled_cycle, LoadNode, RaiseInvalid, CommitRun, ReloadNode, CommitAudit,
          admin_recertify_node, CommitRecertify, admin_resolve_task, ResolveLoadNode,
          ResolveCount
  <1>2. TypeOK /\ SerialInv /\ [Next]_vars =>
            [\A t \in TaskIds : task[t] = None /\ task'[t] # None =>
                row[task'[t].node].status # "IN_REVIEW"]_vars
    BY <1>1
  <1> QED
    BY <1>2, TypeCorrect, SerialInvariant, PTL DEF Spec, EscalatesOnce

\* A commit against an up-to-date snapshot writes exactly the new vector, and a
\* status no less severe than that vector's.
LEMMA RunCoversHazard ==
    ASSUME TypeOK, SerialInv, NEW w \in Workers, session[w].pc = "loaded", NEW b \in ShockBatch
    PROVE  /\ Flushed(session[w], b).rel = NewVector(session[w], b)
           /\ Severity(Target(session[w], b)) <= Severity(Flushed(session[w], b).status)
  <1> DEFINE s == session[w]
  <1>1. s.snap = row[s.node] /\ s.node \in Nodes /\ row[s.node] \in Row
    BY DEF SerialInv, SessionInv, WorkOK, TypeOK, SessionOK
  <1>2. Flushed(s, b).status = AssignedStatus(s, b)
    BY <1>1 DEF Flushed, Row, Flush
  <1>3. Flushed(s, b).rel = FlushVector(s.snap.rel, s.snap.rel, NewVector(s, b))
    BY <1>1 DEF Flushed, Row
  <1>4. \A x, y : Flush(x, x, y) = y
    BY DEF Flush
  <1>5. NewVector(s, b) = [a \in Axes |-> NewVector(s, b)[a]]
    BY NewVectorIsVector DEF Vector
  <1>6. Flushed(s, b).rel = NewVector(s, b)
    BY <1>3, <1>4, <1>5 DEF FlushVector
  <1>7. Target(s, b) \in Statuses /\ s.snap.status \in Statuses
    BY <1>1, SuggestionIsStatus DEF Target, Statuses, Row
  <1>8. Severity(Target(s, b)) <= Severity(AssignedStatus(s, b))
    BY <1>7, SeverityIsNat DEF AssignedStatus, Upgrades
  <1> QED
    BY <1>2, <1>6, <1>8

\* With one session, every commit that moves a vector leaves a status that covers
\* its hazard, for configurations under which a healthy node is ACTIVE.
THEOREM StatusFollowsHazard ==
    ASSUME OneSession, \A n \in Nodes : SuggestedStatus(Healthy, ConfigOf[n]) = "ACTIVE"
    PROVE  Spec => StatusCoversHazard
  <1>1. ASSUME TypeOK, SerialInv, [Next]_vars, NEW n \in Nodes, row'[n].rel # row[n].rel
        PROVE  Severity(SuggestedStatus(row'[n].rel, ConfigOf[n])) <= Severity(row'[n].status)
    <2>1. CASE \E w \in Workers : CommitRun(w) \/ create_escalation_task(w)
      <3>0. PICK w \in Workers : CommitRun(w) \/ create_escalation_task(w)
        BY <2>1
      <3>1. PICK b \in Inputs(session[w]) :
                row' = [row EXCEPT ![session[w].node] = Flushed(session[w], b)]
        BY <3>0 DEF CommitRun, create_escalation_task
      <3>2. session[w].pc = "loaded" /\ b \in ShockBatch
        BY <3>0, InputsAreShocks DEF CommitRun, create_escalation_task
      <3>3. session[w].node = n /\ row'[n] = Flushed(session[w], b)
        BY <1>1, <3>1 DEF TypeOK
      <3> QED
        BY <1>1, <3>2, <3>3, RunCoversHazard DEF Target
    <2>2. CASE \E w \in Workers : CommitRecertify(w)
      <3>1. PICK w \in Workers : CommitRecertify(w)
        BY <2>2
      <3>2. session[w].pc = "recertify" /\ session[w].snap = row[n]
            /\ row'[n] = Recertified(session[w]) /\ session[w].node = n /\ row[n] \in Row
        BY <1>1, <3>1 DEF CommitRecertify, SerialInv, SessionInv, WorkOK, TypeOK
      <3>3. row'[n].status = "ACTIVE"
        BY <3>2 DEF Recertified, Row, Flush
      <3>4. row'[n].rel = FlushVector(row[n].rel, row[n].rel, Healthy)
        BY <3>2 DEF Recertified, Row
      <3>5. row'[n].rel = Healthy
        BY <3>4 DEF FlushVector, Flush, Healthy
      <3> QED
        BY <3>3, <3>5, SeverityIsNat DEF Statuses
    <2>3. CASE \E w \in Workers : CommitResolve(w)
      BY <1>1, <2>3 DEF CommitResolve, TypeOK, Row
    <2>4. CASE \E m \in Nodes : create_node(m)
      BY <1>1, <2>4 DEF create_node, SerialInv, SessionInv, WorkOK, FreshRow, TypeOK
    <2>5. CASE UNCHANGED row
      BY <1>1, <2>5
    <2> QED
      BY <1>1, <2>1, <2>2, <2>3, <2>4, <2>5
      DEF Next, Pipeline, Admin, vars, Tick, Crash, ingest_signals, run_scheduled_cycle,
          LoadNode, RaiseInvalid, ReloadNode, CommitAudit, admin_recertify_node,
          admin_resolve_task, ResolveLoadNode, ResolveCount, dispatch_pending_tasks,
          approve_escalation
  <1>2. TypeOK /\ SerialInv /\ [Next]_vars =>
            [\A n \in Nodes : row'[n].rel # row[n].rel =>
                Severity(SuggestedStatus(row'[n].rel, ConfigOf[n])) <= Severity(row'[n].status)]_vars
    BY <1>1
  <1> QED
    BY <1>2, TypeCorrect, SerialInvariant, PTL DEF Spec, StatusCoversHazard
-------------------------------------------------------------------------------
(***************************************************************************)
(* Decay is not compounded.  A run computes the freshness from the time    *)
(* since the last validation, so it writes what that time leaves on the    *)
(* run's day; days that pass while the session is at work only make that   *)
(* more than what the clock then asks for.                                 *)
(***************************************************************************)

\* A reliability does not recover by itself.
NoRevival == \A n \in Nodes : \A d, e \in Days : d <= e => Freshness[n][e] <= Freshness[n][d]

\* No validation is dated in the future.
ClockInv == \A n \in Nodes : row[n].validatedAt <= now

\* A node's row changes by registration, a run, a recertification or a resolved task.
LEMMA RowStep ==
    ASSUME TypeOK, SerialInv, [Next]_vars, NEW n \in Nodes
    PROVE  \/ row'[n].validatedAt = now /\ row'[n].rel = Healthy /\ now' = now
           \/ row'[n].validatedAt = row[n].validatedAt /\ row'[n].rel = row[n].rel
           \/ \E w \in Workers, b \in ShockBatch :
                  /\ session[w].pc = "loaded" /\ session[w].node = n /\ session[w].snap = row[n]
                  /\ row'[n].validatedAt = row[n].validatedAt
                  /\ row'[n].rel = NewVector(session[w], b) /\ now' = now
  <1>0. row[n] \in Row
    BY DEF TypeOK
  <1>1. CASE \E w \in Workers : CommitRun(w) \/ create_escalation_task(w)
    <2>0. PICK w \in Workers : CommitRun(w) \/ create_escalation_task(w)
      BY <1>1
    <2>1. PICK b \in Inputs(session[w]) :
              row' = [row EXCEPT ![session[w].node] = Flushed(session[w], b)]
      BY <2>0 DEF CommitRun, create_escalation_task
    <2>2. session[w].pc = "loaded" /\ b \in ShockBatch /\ now' = now
      BY <2>0, InputsAreShocks DEF CommitRun, create_escalation_task
    <2>3. CASE session[w].node # n
      BY <2>1, <2>3 DEF TypeOK
    <2>4. CASE session[w].node = n
      <3>1. row'[n] = Flushed(session[w], b) /\ session[w].snap = row[n]
        BY <2>1, <2>2, <2>4 DEF TypeOK, SerialInv, SessionInv, WorkOK
      <3>2. Flushed(session[w], b).validatedAt = row[n].validatedAt
        BY <1>0, <2>4 DEF Flushed, Row
      <3> QED
        BY <2>2, <2>4, <3>1, <3>2, RunCoversHazard
    <2> QED
      BY <2>3, <2>4
  <1>2. CASE \E w \in Workers : CommitRecertify(w)
    <2>1. PICK w \in Workers : CommitRecertify(w)
      BY <1>2
    <2>2. CASE session[w].node # n
      BY <2>1, <2>2 DEF CommitRecertify, TypeOK
    <2>3. CASE session[w].node = n
      <3>1. session[w].snap = row[n] /\ row'[n] = Recertified(session[w]) /\ now' = now
        BY <2>1, <2>3 DEF CommitRecertify, SerialInv, SessionInv, WorkOK, TypeOK
      <3>2. row'[n].rel = FlushVector(row[n].rel, row[n].rel, Healthy)
            /\ row'[n].validatedAt = now
        BY <1>0, <2>3, <3>1 DEF Recertified, Row
      <3>3. row'[n].rel = Healthy
        BY <3>2 DEF FlushVector, Flush, Healthy
      <3> QED
        BY <3>1, <3>2, <3>3
    <2> QED
      BY <2>2, <2>3
  <1>3. CASE \E w \in Workers : CommitResolve(w)
    BY <1>3 DEF CommitResolve, TypeOK, Row
  <1>4. CASE \E m \in Nodes : create_node(m)
    BY <1>4 DEF create_node, FreshRow, TypeOK
  <1>5. CASE UNCHANGED row
    BY <1>5
  <1> QED
    BY <1>1, <1>2, <1>3, <1>4, <1>5
    DEF Next, Pipeline, Admin, vars, Tick, Crash, ingest_signals, run_scheduled_cycle,
        LoadNode, RaiseInvalid, ReloadNode, CommitAudit, admin_recertify_node,
        admin_resolve_task, ResolveLoadNode, ResolveCount, dispatch_pending_tasks,
        approve_escalation

LEMMA ClockStart == Init => ClockInv /\ FreshnessNotCompounded
  <1> SUFFICES ASSUME Init PROVE ClockInv /\ FreshnessNotCompounded
    OBVIOUS
  <1>1. ClockInv
    BY DEF Init, ClockInv, FreshRow
  <1>2. ASSUME NEW n \in Nodes
        PROVE  row[n].rel["t"] >= update_axis_temporal(now - row[n].validatedAt,
                                                       Freshness[n][now - row[n].validatedAt])
    <2>1. row[n].rel["t"] = Scale /\ now - row[n].validatedAt = 0
      BY DEF Init, FreshRow, Healthy, Axes
    <2> QED
      BY <2>1, ScaleAssumption DEF update_axis_temporal
  <1> QED
    BY <1>1, <1>2 DEF FreshnessNotCompounded

LEMMA ClockPreserved ==
    ASSUME TypeOK, SerialInv, ClockInv, [Next]_vars
    PROVE  ClockInv'
  <1>1. now \in Nat /\ now' \in Nat /\ now <= now'
    <2>1. TypeOK'
      BY NextTyped
    <2>2. now \in Nat /\ now' \in Nat
      BY <2>1, GovernanceAssumption DEF TypeOK, Days
    <2>3. now' = now \/ now' = now + 1
      BY DEF Next, Pipeline, Admin, vars, create_node, Tick, Crash, ingest_signals,
         run_scheduled_cycle, LoadNode, RaiseInvalid, CommitRun, create_escalation_task,
         ReloadNode, CommitAudit, admin_recertify_node, CommitRecertify, admin_resolve_task,
         ResolveLoadNode, ResolveCount, CommitResolve, dispatch_pending_tasks,
         approve_escalation
    <2> QED
      BY <2>2, <2>3
  <1>2. ASSUME NEW n \in Nodes PROVE row'[n].validatedAt <= now'
    <2>1. row[n].validatedAt \in Nat /\ row[n].validatedAt <= now
      BY GovernanceAssumption DEF TypeOK, Row, Days, ClockInv
    <2>2. row'[n].validatedAt \in {row[n].validatedAt, now}
      BY RowStep
    <2> QED
      BY <1>1, <2>1, <2>2
  <1> QED
    BY <1>2 DEF ClockInv

\* What is left of a freshness after d days only falls with d.
LEMMA LeftFalls ==
    ASSUME NoRevival, NEW n \in Nodes, NEW d \in Days, NEW e \in Days, d <= e
    PROVE  /\ update_axis_temporal(d, Freshness[n][d]) \in Int
           /\ update_axis_temporal(e, Freshness[n][e]) \in Int
           /\ update_axis_temporal(e, Freshness[n][e]) <= update_axis_temporal(d, Freshness[n][d])
  <1>1. d \in Int /\ e \in Int /\ Freshness[n][d] \in Level /\ Freshness[n][e] \in Level
        /\ Freshness[n][e] <= Freshness[n][d]
    BY GovernanceAssumption DEF NoRevival, Days
  <1>2. update_axis_temporal(e, Freshness[n][e]) \in Level
        /\ update_axis_temporal(e, Freshness[n][e]) <= update_axis_temporal(d, Freshness[n][d])
    BY <1>1, TemporalFalls
  <1>3. update_axis_temporal(d, Freshness[n][d]) \in Level
    <2>1. d <= d /\ Freshness[n][d] <= Freshness[n][d]
      BY <1>1, ScaleAssumption DEF Level
    <2> QED
      BY <1>1, <2>1, TemporalFalls
  <1> QED
    BY <1>2, <1>3, ScaleAssumption DEF Level

LEMMA FreshnessPreserved ==
    ASSUME NoRevival, TypeOK, SerialInv, ClockInv, FreshnessNotCompounded, [Next]_vars,
           TypeOK', ClockInv'
    PROVE  FreshnessNotCompounded'
  <1> SUFFICES ASSUME NEW n \in Nodes
               PROVE  row'[n].rel["t"] >= update_axis_temporal(now' - row'[n].validatedAt,
                                              Freshness[n][now' - row'[n].validatedAt])
    BY DEF FreshnessNotCompounded
  <1> DEFINE before == now - row[n].validatedAt
             after == now' - row'[n].validatedAt
             left(d) == update_axis_temporal(d, Freshness[n][d])
  <1>1. /\ before \in Days /\ before \in Int /\ after \in Days /\ after \in Int
        /\ now \in Int /\ now' \in Int /\ now <= now' /\ row[n].validatedAt \in Int
    <2>1. before \in Days /\ after \in Days
      BY GovernanceAssumption DEF TypeOK, ClockInv, Row, Days
    <2>2. now \in Int /\ now' \in Int /\ row[n].validatedAt \in Int /\ row'[n].validatedAt \in Int
      BY GovernanceAssumption DEF TypeOK, Row, Days
    <2>3. now' = now \/ now' = now + 1
      BY DEF Next, Pipeline, Admin, vars, create_node, Tick, Crash, ingest_signals,
         run_scheduled_cycle, LoadNode, RaiseInvalid, CommitRun, create_escalation_task,
         ReloadNode, CommitAudit, admin_recertify_node, CommitRecertify, admin_resolve_task,
         ResolveLoadNode, ResolveCount, CommitResolve, dispatch_pending_tasks,
         approve_escalation
    <2> QED
      BY <2>1, <2>2, <2>3
  <1>2. ASSUME NEW d \in Days, NEW e \in Days, d <= e
        PROVE  left(d) \in Int /\ left(e) \in Int /\ left(e) <= left(d)
    BY <1>2, LeftFalls
  <1>3. CASE row'[n].validatedAt = now /\ row'[n].rel = Healthy /\ now' = now
    <2>1. after = 0 /\ row'[n].rel["t"] = Scale
      BY <1>1, <1>3 DEF Healthy, Axes
    <2> QED
      BY <2>1, ScaleAssumption DEF update_axis_temporal
  <1>4. CASE row'[n].validatedAt = row[n].validatedAt /\ row'[n].rel = row[n].rel
    <2>1. before <= after
      BY <1>1, <1>4
    <2>2. row[n].rel["t"] >= left(before) /\ row[n].rel["t"] \in Int
      BY ScaleAssumption DEF FreshnessNotCompounded, TypeOK, Row, Vector, Axes, Level
    <2>3. left(before) \in Int /\ left(after) \in Int /\ left(after) <= left(before)
      BY <1>1, <1>2, <2>1
    <2> HIDE DEF left, before, after
    <2>4. row'[n].rel["t"] >= left(after)
      BY <1>4, <2>2, <2>3
    <2> QED
      BY <2>4 DEF left, after
  <1>5. ASSUME NEW w \in Workers, NEW b \in ShockBatch,
               session[w].pc = "loaded", session[w].node = n, session[w].snap = row[n],
               row'[n].validatedAt = row[n].validatedAt,
               row'[n].rel = NewVector(session[w], b), now' = now
        PROVE  row'[n].rel["t"] >= left(after)
    <2> DEFINE run == Elapsed(session[w])
    <2>1. session[w].day \in Int /\ session[w].day <= now
      BY GovernanceAssumption DEF TypeOK, Session, Days, SerialInv, SessionInv, WorkOK
    <2>2. run \in Days /\ run <= after
      <3>1. session[w].day \in Days /\ row[n].validatedAt \in Days
        BY DEF TypeOK, Session, Row
      <3> QED
        BY <1>1, <1>5, <2>1, <3>1, GovernanceAssumption DEF Elapsed, Days
    <2>3. row'[n].rel["t"] = left(run)
      BY <1>5 DEF NewVector, compute_reliability_vector, Axes
    <2>4. left(run) \in Int /\ left(after) \in Int /\ left(after) <= left(run)
      BY <1>1, <1>2, <2>2
    <2> HIDE DEF left, run, after
    <2> QED
      BY <2>3, <2>4
  <1> QED
    BY <1>3, <1>4, <1>5, RowStep

\* With one session and a decay that never turns back, no number of runs lowers the
\* freshness below what the time since the last validation gives.
THEOREM DecayIsNotCompounded ==
    ASSUME OneSession, NoRevival
    PROVE  Spec => []FreshnessNotCompounded
  <1>1. TypeOK /\ SerialInv /\ ClockInv /\ [Next]_vars => ClockInv'
    BY ClockPreserved
  <1>2. TypeOK /\ SerialInv /\ ClockInv /\ FreshnessNotCompounded /\ [Next]_vars
            /\ TypeOK' /\ ClockInv' => FreshnessNotCompounded'
    BY FreshnessPreserved
  <1> QED
    BY <1>1, <1>2, ClockStart, TypeCorrect, SerialInvariant, PTL DEF Spec

\* A run that flushes freshness flushes that of an age the session's day allows,
\* however old its snapshot: no older than the clock.
LEMMA RunCountsOnce ==
    ASSUME NoRevival, TypeOK, SessionInv, NEW w \in Workers, session[w].pc = "loaded",
           NEW b \in ShockBatch
    PROVE  NewVector(session[w], b)["t"] \in Int
           /\ NewVector(session[w], b)["t"]
                  >= update_axis_temporal(now, Freshness[session[w].node][now])
  <1> DEFINE s == session[w]
             run == Elapsed(s)
  <1>1. /\ s.node \in Nodes /\ s.day \in Days /\ s.snap.validatedAt \in Days
        /\ s.day <= now /\ now \in Days
    BY DEF TypeOK, SessionOK, Session, Row, SessionInv, WorkOK
  <1>2. run \in Days /\ run <= now
    BY <1>1, GovernanceAssumption DEF Elapsed, Days
  <1>3. NewVector(s, b)["t"] = update_axis_temporal(run, Freshness[s.node][run])
    BY DEF NewVector, compute_reliability_vector, Axes
  <1> HIDE DEF run, s
  <1>4. update_axis_temporal(run, Freshness[s.node][run]) \in Int
        /\ update_axis_temporal(now, Freshness[s.node][now])
               <= update_axis_temporal(run, Freshness[s.node][run])
        /\ update_axis_temporal(now, Freshness[s.node][now]) \in Int
    BY <1>1, <1>2, LeftFalls
  <1>5. NewVector(s, b)["t"] \in Int
        /\ NewVector(s, b)["t"] >= update_axis_temporal(now, Freshness[s.node][now])
    BY <1>3, <1>4
  <1> QED
    BY <1>5 DEF s

\* For any number of overlapping sessions and a decay that never turns back, freshness
\* never falls below what the time of the whole clock takes: stale runs may undo a
\* validation, but decay is never applied to what has already decayed.
THEOREM OverlapsCountOnce == ASSUME NoRevival PROVE Spec => []FreshnessCountsOnce
  <1>1. Init => FreshnessCountsOnce
    <2>1. ASSUME Init, NEW n \in Nodes
          PROVE  row[n].rel["t"] >= update_axis_temporal(now, Freshness[n][now])
      <3>1. row[n].rel["t"] = Scale /\ now = 0
        BY <2>1 DEF Init, FreshRow, Healthy, Axes
      <3> QED
        BY <3>1, ScaleAssumption DEF update_axis_temporal
    <2> QED
      BY <2>1 DEF FreshnessCountsOnce
  <1>2. ASSUME NoRevival, TypeOK, SessionInv, FreshnessCountsOnce, [Next]_vars, TypeOK'
        PROVE  FreshnessCountsOnce'
    <2> SUFFICES ASSUME NEW n \in Nodes
                 PROVE  row'[n].rel["t"] >= update_axis_temporal(now', Freshness[n][now'])
      BY DEF FreshnessCountsOnce
    <2> DEFINE left(d) == update_axis_temporal(d, Freshness[n][d])
    <2>1. /\ now \in Days /\ now' \in Days /\ now <= now'
      <3>1. now \in Days /\ now' \in Days /\ now \in Int
        BY <1>2, GovernanceAssumption DEF TypeOK, Days
      <3>2. now' = now \/ now' = now + 1
        BY <1>2 DEF Next, Pipeline, Admin, vars, create_node, Tick, Crash, ingest_signals,
           run_scheduled_cycle, LoadNode, RaiseInvalid, CommitRun, create_escalation_task,
           ReloadNode, CommitAudit, admin_recertify_node, CommitRecertify,
           admin_resolve_task, ResolveLoadNode, ResolveCount, CommitResolve,
           dispatch_pending_tasks, approve_escalation
      <3> QED
        BY <3>1, <3>2
    <2>2. left(now) \in Int /\ left(now') \in Int /\ left(now') <= left(now)
      BY <1>2, <2>1, LeftFalls
    <2>3. row[n].rel["t"] \in Int /\ row[n].rel["t"] >= left(now)
      BY <1>2, ScaleAssumption DEF FreshnessCountsOnce, TypeOK, Row, Vector, Axes, Level
    <2>4. left(now) <= Scale
      <3>1. Freshness[n][now] \in Level
        BY <2>1, GovernanceAssumption
      <3> QED
        BY <2>1, <3>1, ScaleAssumption, GovernanceAssumption
        DEF update_axis_temporal, Level, Days, Clamp, Epsilon
    <2>5. CASE \E w \in Workers : CommitRun(w) \/ create_escalation_task(w)
      <3>1. PICK w \in Workers : CommitRun(w) \/ create_escalation_task(w)
        BY <2>5
      <3>2. PICK b \in ShockBatch :
                /\ session[w].pc = "loaded" /\ now' = now
                /\ row' = [row EXCEPT ![session[w].node] = Flushed(session[w], b)]
        BY <3>1, InputsAreShocks DEF CommitRun, create_escalation_task
      <3>3. CASE session[w].node # n
        BY <1>2, <2>3, <3>2, <3>3 DEF TypeOK
      <3>4. CASE session[w].node = n
        <4>1. row'[n].rel["t"] \in {row[n].rel["t"], NewVector(session[w], b)["t"]}
          BY <1>2, <3>2, <3>4 DEF TypeOK, Flushed, FlushVector, Flush, Row, Axes
        <4>2. NewVector(session[w], b)["t"] >= left(now)
          BY <1>2, <3>2, <3>4, RunCountsOnce
        <4> QED
          BY <2>3, <3>2, <4>1, <4>2
      <3> QED
        BY <3>3, <3>4
    <2>6. CASE \E w \in Workers : CommitRecertify(w)
      <3>1. PICK w \in Workers : CommitRecertify(w)
        BY <2>6
      <3>2. now' = now /\ row' = [row EXCEPT ![session[w].node] = Recertified(session[w])]
        BY <3>1 DEF CommitRecertify
      <3>3. row'[n].rel["t"] \in {row[n].rel["t"], Scale}
        BY <1>2, <3>2 DEF TypeOK, Recertified, FlushVector, Flush, Row, Healthy, Axes
      <3> QED
        BY <2>3, <2>4, <3>2, <3>3
    <2>7. CASE \E m \in Nodes : create_node(m)
      <3>1. now' = now /\ row'[n].rel["t"] \in {row[n].rel["t"], Scale}
        BY <1>2, <2>7 DEF create_node, TypeOK, FreshRow, Healthy, Axes
      <3> QED
        BY <2>3, <2>4, <3>1
    <2>8. CASE \E w \in Workers : CommitResolve(w)
      <3>1. now' = now /\ row'[n].rel = row[n].rel
        BY <1>2, <2>8 DEF CommitResolve, TypeOK, Row
      <3> QED
        BY <2>3, <3>1
    <2>9. CASE UNCHANGED row
      <3> HIDE DEF left
      <3>1. row'[n].rel["t"] >= left(now')
        BY <2>2, <2>3, <2>9
      <3> QED
        BY <3>1 DEF left
    <2> QED
      BY <1>2, <2>5, <2>6, <2>7, <2>8, <2>9
      DEF Next, Pipeline, Admin, vars, Tick, Crash, ingest_signals, run_scheduled_cycle,
          LoadNode, RaiseInvalid, ReloadNode, CommitAudit, admin_recertify_node,
          admin_resolve_task, ResolveLoadNode, ResolveCount, dispatch_pending_tasks,
          approve_escalation
  <1>3. ASSUME NoRevival
        PROVE  TypeOK /\ SessionInv /\ FreshnessCountsOnce /\ [Next]_vars /\ TypeOK'
                   => FreshnessCountsOnce'
    BY <1>2, <1>3
  <1> QED
    BY <1>1, <1>3, TypeCorrect, SessionsWork, PTL DEF Spec
===============================================================================
