------------------------- MODULE ReviewWorkflowProofs -------------------------
(***************************************************************************)
(* Theorems about ReviewWorkflow for any number of tasks and reviewers,    *)
(* with at most one dispatcher; processes may die and calls may fail.      *)
(***************************************************************************)
EXTENDS ReviewWorkflow, TLAPS

OneDispatcher == \A d, e \in Dispatchers : d = e

Inv == TypeOK /\ OneDispatcherInv

LEMMA InitInv == Init => Inv
  BY DEF Init, Inv, TypeOK, OneDispatcherInv, Statuses, Executions, Dispatcher, Reviewer,
         AtRest, Away

\* The rest of a dispatcher's list, once it is done with a task.
LEMMA LoopOnTyped ==
    ASSUME TypeOK, NEW d \in Dispatchers
    PROVE  /\ LoopOn(d) \in Dispatcher
           /\ LoopOn(d).todo = dispatcher[d].todo
           /\ LoopOn(d).pc \in {"idle", "next"}
  BY DEF TypeOK, LoopOn, AtRest, Dispatcher, Statuses

\* The steps of dispatch_pending_tasks.
LEMMA DispatchInv ==
    ASSUME OneDispatcher, Inv, NEW d \in Dispatchers,
           \/ \E t \in Tasks : dispatch_pending_tasks(d, t)
           \/ DispatcherStep(d)
           \/ CallFails(d)
           \/ DispatcherDies(d)
    PROVE  Inv'
  <1> USE DEF Inv
  <1>0. Dispatchers = {d} /\ dispatcher[d] \in Dispatcher
    BY DEF OneDispatcher, TypeOK
  <1>1. CASE \E t \in Tasks : dispatch_pending_tasks(d, t)
    BY <1>0, <1>1 DEF dispatch_pending_tasks, TypeOK, OneDispatcherInv, Pending,
                      Dispatcher, Statuses
  <1>2. CASE \E t \in Tasks : NextTask(d, t)
    BY <1>0, <1>2 DEF NextTask, TypeOK, OneDispatcherInv, Pending, Dispatcher, Statuses
  <1>3. CASE StartWorkflow(d)
    BY <1>0, <1>3 DEF StartWorkflow, TypeOK, OneDispatcherInv, Pending, Dispatcher, Executions
  <1>4. CASE AlreadyStarted(d) \/ CallFails(d)
    BY <1>0, <1>4, LoopOnTyped DEF AlreadyStarted, CallFails, TypeOK, OneDispatcherInv, Pending
  <1>5. CASE CommitDispatch(d)
    <2> DEFINE t == dispatcher[d].task
    <2>1. t \in Pending \ dispatcher[d].todo /\ status' = [status EXCEPT ![t] = "IN_PROGRESS"]
          /\ dispatcher' = [dispatcher EXCEPT ![d] = LoopOn(d)] /\ UNCHANGED <<workflow, reviewer>>
      BY <1>0, <1>5 DEF CommitDispatch, OneDispatcherInv
    <2>2. TypeOK'
      BY <1>0, <2>1, LoopOnTyped DEF TypeOK, Statuses
    <2>3. Pending' = Pending \ {t}
      BY <2>1 DEF Pending, TypeOK
    <2>4. dispatcher'[d].todo \subseteq Pending' /\ dispatcher'[d].pc \in {"idle", "next"}
      BY <1>0, <2>1, <2>3, LoopOnTyped DEF TypeOK, OneDispatcherInv
    <2>5. \A r \in Reviewers : reviewer'[r].pc # "idle" =>
              reviewer'[r].task \in Tasks
              /\ status'[reviewer'[r].task] \in {"IN_PROGRESS", "COMPLETED"}
      BY <2>1 DEF OneDispatcherInv, Pending, TypeOK
    <2> QED
      BY <1>0, <2>2, <2>4, <2>5 DEF OneDispatcherInv
  <1>6. CASE DispatcherDies(d)
    BY <1>0, <1>6 DEF DispatcherDies, TypeOK, OneDispatcherInv, AtRest, Dispatcher, Statuses
  <1> QED
    BY <1>1, <1>2, <1>3, <1>4, <1>5, <1>6 DEF DispatcherStep

\* The steps of a reviewer's session.
LEMMA ReviewInv ==
    ASSUME Inv, NEW r \in Reviewers,
           \/ \E t \in Tasks : approve_escalation(r, t) \/ admin_resolve_task(r, t)
           \/ ReviewerStep(r)
           \/ ReviewerDies(r)
    PROVE  Inv'
  <1> USE DEF Inv
  <1>0. reviewer[r] \in Reviewer
    BY DEF TypeOK
  <1>1. CASE \E t \in Tasks : approve_escalation(r, t) \/ admin_resolve_task(r, t)
    <2>1. PICK t \in Tasks, pc \in {"signal", "resolve"} :
              /\ status[t] = "IN_PROGRESS"
              /\ reviewer' = [reviewer EXCEPT ![r] = [pc |-> pc, task |-> t]]
              /\ UNCHANGED <<status, workflow, dispatcher>>
      BY <1>1 DEF approve_escalation, admin_resolve_task
    <2>2. [pc |-> pc, task |-> t] \in Reviewer
      BY DEF Reviewer
    <2>3. TypeOK'
      BY <2>1, <2>2 DEF TypeOK
    <2>4. reviewer'[r].task = t /\ \A q \in Reviewers \ {r} : reviewer'[q] = reviewer[q]
      BY <2>1 DEF TypeOK
    <2>5. OneDispatcherInv'
      BY <2>1, <2>4 DEF OneDispatcherInv, Pending
    <2> QED
      BY <2>3, <2>5
  <1>2. CASE Signal(r)
    BY <1>0, <1>2 DEF Signal, TypeOK, OneDispatcherInv, Pending, Reviewer, Executions
  <1>3. CASE SignalRefused(r) \/ ReviewerDies(r)
    <2>1. reviewer' = [reviewer EXCEPT ![r] = Away] /\ UNCHANGED <<status, workflow, dispatcher>>
      BY <1>3 DEF SignalRefused, ReviewerDies
    <2>2. Away \in Reviewer /\ Away.pc = "idle"
      BY DEF Away, Reviewer
    <2>3. TypeOK'
      BY <2>1, <2>2 DEF TypeOK
    <2>4. OneDispatcherInv'
      BY <2>1, <2>2 DEF OneDispatcherInv, Pending, TypeOK
    <2> QED
      BY <2>3, <2>4
  <1>4. CASE CommitCompleted(r) \/ CommitResolved(r)
    <2> DEFINE t == reviewer[r].task
    <2>1. t \in Tasks /\ t \notin Pending /\ status' = [status EXCEPT ![t] = "COMPLETED"]
          /\ reviewer' = [reviewer EXCEPT ![r] = Away] /\ UNCHANGED <<workflow, dispatcher>>
      BY <1>4 DEF CommitCompleted, CommitResolved, OneDispatcherInv, Pending
    <2>2. Pending' = Pending
      BY <2>1 DEF Pending, TypeOK
    <2> QED
      BY <2>1, <2>2 DEF TypeOK, OneDispatcherInv, Reviewer, Away, Statuses
  <1> QED
    BY <1>1, <1>2, <1>3, <1>4 DEF ReviewerStep

\* The invariant is inductive.
LEMMA NextInv ==
    ASSUME OneDispatcher, Inv, [Next]_vars
    PROVE  Inv'
  <1>1. CASE \E t \in Tasks : create_escalation_task(t)
    BY <1>1 DEF Inv, create_escalation_task, TypeOK, OneDispatcherInv, Pending, Statuses
  <1>2. CASE \E t \in Tasks : run(t)
    BY <1>2 DEF Inv, run, TypeOK, OneDispatcherInv, Pending, Executions
  <1>3. CASE UNCHANGED vars
    BY <1>3 DEF Inv, vars, TypeOK, OneDispatcherInv, Pending
  <1> QED
    BY <1>1, <1>2, <1>3, DispatchInv, ReviewInv DEF Next

\* With one dispatcher rows, executions and sessions keep their types: no task gets a
\* status that the other handlers do not know.
THEOREM ReviewTyped == ASSUME OneDispatcher PROVE Spec => []TypeOK
  <1>1. Inv /\ [Next]_vars => Inv'
    BY NextInv
  <1>2. Inv => TypeOK
    BY DEF Inv
  <1> QED
    BY <1>1, <1>2, InitInv, PTL DEF Spec

\* With one dispatcher every reachable state is well typed and its list is current.
THEOREM DispatcherIsCurrent == ASSUME OneDispatcher PROVE Spec => []OneDispatcherInv
  <1>1. Inv /\ [Next]_vars => Inv'
    BY NextInv
  <1>2. Inv => OneDispatcherInv
    BY DEF Inv
  <1> QED
    BY <1>1, <1>2, InitInv, PTL DEF Spec

-------------------------------------------------------------------------------
(***************************************************************************)
(* The refinement: a dispatcher's commit takes a PENDING task to           *)
(* IN_PROGRESS, a reviewer's commit closes a task or finds it closed, and  *)
(* nothing else touches the column.                                        *)
(***************************************************************************)

LEMMA LifecycleStep ==
    ASSUME OneDispatcher, Inv, [Next]_vars
    PROVE  [Lifecycle!Next]_status
  <1>1. CASE \E t \in Tasks : create_escalation_task(t)
    BY <1>1 DEF create_escalation_task, Lifecycle!Next, Lifecycle!Open, Lifecycle!Move
  <1>2. CASE \E d \in Dispatchers : CommitDispatch(d)
    <2>1. PICK d \in Dispatchers : CommitDispatch(d)
      BY <1>2
    <2>2. dispatcher[d].task \in Tasks /\ status[dispatcher[d].task] = "PENDING"
          /\ dispatcher[d].loaded = "PENDING"
      BY <2>1 DEF CommitDispatch, Inv, OneDispatcherInv, Pending
    <2>3. Lifecycle!Dispatch(dispatcher[d].task)
      BY <2>1, <2>2 DEF CommitDispatch, Lifecycle!Dispatch, Lifecycle!Move
    <2> QED
      BY <2>2, <2>3 DEF Lifecycle!Next
  <1>3. CASE \E r \in Reviewers : CommitCompleted(r) \/ CommitResolved(r)
    <2>1. PICK r \in Reviewers : CommitCompleted(r) \/ CommitResolved(r)
      BY <1>3
    <2> DEFINE t == reviewer[r].task
    <2>2. t \in Tasks /\ status[t] \in {"IN_PROGRESS", "COMPLETED"}
          /\ status' = [status EXCEPT ![t] = "COMPLETED"] /\ status \in [Tasks -> Statuses]
      BY <2>1 DEF CommitCompleted, CommitResolved, Inv, OneDispatcherInv, TypeOK
    <2>3. CASE status[t] = "IN_PROGRESS"
      BY <2>2, <2>3 DEF Lifecycle!Next, Lifecycle!Close, Lifecycle!Move
    <2>4. CASE status[t] = "COMPLETED"
      BY <2>2, <2>4
    <2> QED
      BY <2>2, <2>3, <2>4
  <1>4. CASE UNCHANGED status
    BY <1>4
  <1> QED
    BY <1>1, <1>2, <1>3, <1>4
    DEF Next, vars, run, dispatch_pending_tasks, DispatcherStep, NextTask, StartWorkflow,
        AlreadyStarted, CallFails, DispatcherDies, approve_escalation, admin_resolve_task,
        ReviewerStep, Signal, SignalRefused, ReviewerDies

\* With one dispatcher the handlers implement TaskLifecycle.
THEOREM ImplementsLifecycle == ASSUME OneDispatcher PROVE Spec => LifecycleSpec
  <1>1. Init => Lifecycle!Init
    BY DEF Init, Lifecycle!Init
  <1>2. Inv /\ [Next]_vars => Inv'
    BY NextInv
  <1>3. Inv /\ [Next]_vars => [Lifecycle!Next]_status
    BY LifecycleStep
  <1> QED
    BY <1>1, <1>2, <1>3, InitInv, PTL DEF Spec, LifecycleSpec, Lifecycle!Spec

(***************************************************************************)
(* Approval.  A session that is about to commit an approval has signalled, *)
(* and a lone dispatcher never restarts the workflow of its task.          *)
(***************************************************************************)

SignalledInv ==
    \A r \in Reviewers : reviewer[r].pc = "commit" =>
        workflow[reviewer[r].task] \in {"approved", "closed"}

LEMMA NextSignalled ==
    ASSUME OneDispatcher, Inv, SignalledInv, [Next]_vars
    PROVE  SignalledInv'
  <1> USE DEF Inv, SignalledInv
  <1>1. CASE \E t \in Tasks : create_escalation_task(t)
    BY <1>1 DEF create_escalation_task
  <1>2. CASE \E t \in Tasks : run(t)
    BY <1>2 DEF run, TypeOK
  <1>3. CASE \E d \in Dispatchers : StartWorkflow(d)
    <2>1. PICK d \in Dispatchers : StartWorkflow(d)
      BY <1>3
    <2>2. status[dispatcher[d].task] = "PENDING"
      BY <2>1 DEF StartWorkflow, OneDispatcherInv, Pending
    <2> QED
      BY <2>1, <2>2 DEF StartWorkflow, OneDispatcherInv, TypeOK
  <1>4. CASE \E r \in Reviewers : Signal(r)
    BY <1>4 DEF Signal, OneDispatcherInv, TypeOK
  <1>5. CASE \E r \in Reviewers : \/ CommitCompleted(r) \/ CommitResolved(r)
                                  \/ SignalRefused(r) \/ ReviewerDies(r)
    BY <1>5 DEF CommitCompleted, CommitResolved, SignalRefused, ReviewerDies, TypeOK, Away
  <1>6. CASE \E r \in Reviewers, t \in Tasks : approve_escalation(r, t) \/ admin_resolve_task(r, t)
    BY <1>6 DEF approve_escalation, admin_resolve_task, TypeOK
  <1>7. CASE UNCHANGED <<workflow, reviewer>>
    BY <1>7
  <1> QED
    BY <1>1, <1>2, <1>3, <1>4, <1>5, <1>6, <1>7
    DEF Next, vars, dispatch_pending_tasks, DispatcherStep, NextTask, AlreadyStarted,
        CallFails, CommitDispatch, DispatcherDies, ReviewerStep

\* What a step can do to a row that is not COMPLETED.
LEMMA CompletesAfterSignal ==
    ASSUME OneDispatcher, Inv, SignalledInv, [Next]_vars, NEW t \in Tasks,
           status[t] # "COMPLETED", status'[t] = "COMPLETED"
    PROVE  \/ workflow[t] \in {"approved", "closed"}
           \/ \E r \in Reviewers : /\ reviewer[r].pc = "resolve" /\ reviewer[r].task = t
                                   /\ reviewer'[r].pc = "idle"
  <1> USE DEF Inv
  <1>1. CASE \E r \in Reviewers : CommitCompleted(r)
    <2>1. PICK r \in Reviewers : CommitCompleted(r)
      BY <1>1
    <2>2. reviewer[r].task = t /\ reviewer[r].pc = "commit"
      BY <2>1 DEF CommitCompleted, TypeOK
    <2> QED
      BY <2>2 DEF SignalledInv
  <1>2. CASE \E r \in Reviewers : CommitResolved(r)
    <2>1. PICK r \in Reviewers : CommitResolved(r)
      BY <1>2
    <2>2. reviewer[r].task = t /\ reviewer[r].pc = "resolve" /\ reviewer'[r].pc = "idle"
      BY <2>1 DEF CommitResolved, TypeOK, Away
    <2> QED
      BY <2>2
  <1>3. CASE \E x \in Tasks : create_escalation_task(x)
    BY <1>3 DEF create_escalation_task, TypeOK
  <1>4. CASE \E d \in Dispatchers : CommitDispatch(d)
    BY <1>4 DEF CommitDispatch, TypeOK
  <1>5. CASE UNCHANGED status
    BY <1>5
  <1> QED
    BY <1>1, <1>2, <1>3, <1>4, <1>5
    DEF Next, vars, run, dispatch_pending_tasks, DispatcherStep, NextTask, StartWorkflow,
        AlreadyStarted, CallFails, DispatcherDies, approve_escalation, admin_resolve_task,
        ReviewerStep, Signal, SignalRefused, ReviewerDies

\* With one dispatcher, demo endpoints on or off, only an administrator's own commit
\* completes a task whose workflow has not been told, wherever processes die.
THEOREM CompletionIsSignalled == ASSUME OneDispatcher PROVE Spec => ApprovalSignalsFirst
  <1>1. Init => SignalledInv
    BY DEF Init, SignalledInv, Away
  <1>2. Inv /\ [Next]_vars => Inv'
    BY NextInv
  <1>3. Inv /\ SignalledInv /\ [Next]_vars => SignalledInv'
    BY NextSignalled
  <1>4. Inv /\ SignalledInv /\ [Next]_vars =>
            [\A t \in Tasks : status[t] # "COMPLETED" /\ status'[t] = "COMPLETED" =>
                \/ workflow[t] \in {"approved", "closed"}
                \/ \E r \in Reviewers : /\ reviewer[r].pc = "resolve"
                                        /\ reviewer[r].task = t
                                        /\ reviewer'[r].pc = "idle"]_vars
    BY CompletesAfterSignal
  <1> QED
    BY <1>1, <1>2, <1>3, <1>4, InitInv, PTL DEF Spec, ApprovalSignalsFirst

(***************************************************************************)
(* A review runs once.  Only a task somebody has dispatched is signalled,  *)
(* and a lone dispatcher starts workflows of PENDING tasks only.           *)
(***************************************************************************)

ReviewedInv ==
    \A t \in Tasks : workflow[t] \in {"approved", "closed"} =>
        status[t] \in {"IN_PROGRESS", "COMPLETED"}

LEMMA NextReviewed ==
    ASSUME OneDispatcher, Inv, ReviewedInv, [Next]_vars
    PROVE  /\ ReviewedInv'
           /\ \A t \in Tasks : workflow[t] = "closed" => workflow'[t] = "closed"
  <1> USE DEF Inv, ReviewedInv
  <1>1. CASE \E t \in Tasks : create_escalation_task(t)
    BY <1>1 DEF create_escalation_task, TypeOK
  <1>2. CASE \E t \in Tasks : run(t)
    BY <1>2 DEF run, TypeOK
  <1>3. CASE \E d \in Dispatchers : StartWorkflow(d)
    <2>1. PICK d \in Dispatchers : StartWorkflow(d)
      BY <1>3
    <2>2. status[dispatcher[d].task] = "PENDING"
      BY <2>1 DEF StartWorkflow, OneDispatcherInv, Pending
    <2> QED
      BY <2>1, <2>2 DEF StartWorkflow, TypeOK
  <1>4. CASE \E d \in Dispatchers : CommitDispatch(d)
    BY <1>4 DEF CommitDispatch, TypeOK
  <1>5. CASE \E r \in Reviewers : Signal(r)
    BY <1>5 DEF Signal, OneDispatcherInv, TypeOK, Alive
  <1>6. CASE \E r \in Reviewers : CommitCompleted(r) \/ CommitResolved(r)
    BY <1>6 DEF CommitCompleted, CommitResolved, TypeOK
  <1>7. CASE UNCHANGED <<status, workflow>>
    BY <1>7
  <1> QED
    BY <1>1, <1>2, <1>3, <1>4, <1>5, <1>6, <1>7
    DEF Next, vars, dispatch_pending_tasks, DispatcherStep, NextTask, AlreadyStarted,
        CallFails, DispatcherDies, approve_escalation, admin_resolve_task, ReviewerStep,
        SignalRefused, ReviewerDies

\* With one dispatcher a closed review is never started again, however often the
\* dispatcher dies, retries and meets its own workflow.
THEOREM ReviewRunsOnce == ASSUME OneDispatcher PROVE Spec => ReviewedOnce
  <1>1. Init => ReviewedInv
    BY DEF Init, ReviewedInv
  <1>2. Inv /\ [Next]_vars => Inv'
    BY NextInv
  <1>3. Inv /\ ReviewedInv /\ [Next]_vars => ReviewedInv'
    BY NextReviewed
  <1>4. Inv /\ ReviewedInv /\ [Next]_vars =>
            [\A t \in Tasks : workflow[t] = "closed" => workflow'[t] = "closed"]_vars
    BY NextReviewed
  <1> QED
    BY <1>1, <1>2, <1>3, <1>4, InitInv, PTL DEF Spec, ReviewedOnce
===============================================================================
