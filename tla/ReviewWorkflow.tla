---------------------------- MODULE ReviewWorkflow ----------------------------
(***************************************************************************)
(* Human review of an escalation: the task row in PostgreSQL, the workflow *)
(* execution in Temporal, and the three handlers that touch both or one of *)
(* them (src/worker/dispatcher.py, admin_resolve_task in api/main.py).     *)
(*                                                                         *)
(* No transaction spans the two stores.  dispatch_pending_tasks starts the *)
(* workflow and then commits the row; approve_escalation signals and then  *)
(* commits; admin_resolve_task writes the row and tells the workflow       *)
(* nothing.  A dispatcher reads its list once and does not look at a       *)
(* task's status again before starting its workflow.                       *)
(***************************************************************************)
EXTENDS Naturals, FiniteSets

CONSTANTS
    Tasks,        \* rows ever inserted in escalation_tasks
    Dispatchers,  \* processes that call dispatch_pending_tasks
    Reviewers,    \* sessions that approve or resolve a task
    DemoMode,     \* whether admin_resolve_task answers
    MayFail,      \* whether a process may die, or a call to Temporal time out
    NoTask

ASSUME ReviewAssumption == /\ NoTask \notin Tasks
                           /\ Dispatchers \cap Reviewers = {}
                           /\ DemoMode \in BOOLEAN /\ MayFail \in BOOLEAN

VARIABLES
    status,     \* EscalationTask.status, "NONE" before the row exists
    workflow,   \* the latest execution of hr-<task id>, as Temporal has it
    dispatcher, \* what each dispatcher holds
    reviewer    \* what each reviewer's session holds

vars == <<status, workflow, dispatcher, reviewer>>

Statuses == {"NONE", "PENDING", "IN_PROGRESS", "COMPLETED"}

\* waiting: run() blocks on its condition; approved: the signal is in the
\* history; closed: run() has returned.
Executions == {"absent", "waiting", "approved", "closed"}
Alive == {"waiting", "approved"}

Dispatcher == [pc : {"idle", "next", "start", "started"}, todo : SUBSET Tasks,
               task : Tasks \cup {NoTask}, loaded : Statuses]
Reviewer == [pc : {"idle", "signal", "commit", "resolve"}, task : Tasks \cup {NoTask}]

AtRest == [pc |-> "idle", todo |-> {}, task |-> NoTask, loaded |-> "NONE"]
Away == [pc |-> "idle", task |-> NoTask]

Init ==
    /\ status = [t \in Tasks |-> "NONE"]
    /\ workflow = [t \in Tasks |-> "absent"]
    /\ dispatcher = [d \in Dispatchers |-> AtRest]
    /\ reviewer = [r \in Reviewers |-> Away]

\* The commit of create_escalation_task, as the pipeline reaches it.
create_escalation_task(t) ==
    /\ status[t] = "NONE"
    /\ status' = [status EXCEPT ![t] = "PENDING"]
    /\ UNCHANGED <<workflow, dispatcher, reviewer>>

-------------------------------------------------------------------------------
(***************************************************************************)
(* dispatch_pending_tasks.                                                 *)
(***************************************************************************)

Pending == {t \in Tasks : status[t] = "PENDING"}

\* The query loads every PENDING task; the first one is used as it was loaded.
dispatch_pending_tasks(d, t) ==
    /\ dispatcher[d].pc = "idle"
    /\ t \in Pending
    /\ dispatcher' = [dispatcher EXCEPT ![d] =
           [pc |-> "start", todo |-> Pending \ {t}, task |-> t, loaded |-> "PENDING"]]
    /\ UNCHANGED <<status, workflow, reviewer>>

\* A commit or a rollback expired the others: task.id reads the row again.
NextTask(d, t) ==
    /\ dispatcher[d].pc = "next"
    /\ t \in dispatcher[d].todo
    /\ dispatcher' = [dispatcher EXCEPT ![d] =
           [pc |-> "start", todo |-> dispatcher[d].todo \ {t}, task |-> t,
            loaded |-> status[t]]]
    /\ UNCHANGED <<status, workflow, reviewer>>

\* Mutant: a task that was handled stays on the list.
LoopOnSame(d) ==
    [AtRest EXCEPT !.pc = "next", !.todo = dispatcher[d].todo \cup {dispatcher[d].task}]

\* The loop goes on, or dispatch_pending_tasks returns.
LoopOn(d) ==
    IF dispatcher[d].todo = {} THEN AtRest
    ELSE [AtRest EXCEPT !.pc = "next", !.todo = dispatcher[d].todo]

\* The id hr-<task id> is free: never used, or its last execution has closed.
StartWorkflow(d) ==
    LET t == dispatcher[d].task IN
    /\ dispatcher[d].pc = "start"
    /\ workflow[t] \notin Alive
    /\ workflow' = [workflow EXCEPT ![t] = "waiting"]
    /\ dispatcher' = [dispatcher EXCEPT ![d].pc = "started"]
    /\ UNCHANGED <<status, reviewer>>

\* WorkflowAlreadyStarted: rollback and skip.
AlreadyStarted(d) ==
    /\ dispatcher[d].pc = "start"
    /\ workflow[dispatcher[d].task] \in Alive
    /\ dispatcher' = [dispatcher EXCEPT ![d] = LoopOn(d)]
    /\ UNCHANGED <<status, workflow, reviewer>>

\* Mutant: the loop goes on without a commit.
CommitForgotten(d) ==
    /\ dispatcher[d].pc = "started"
    /\ dispatcher' = [dispatcher EXCEPT ![d] = LoopOn(d)]
    /\ UNCHANGED <<status, workflow, reviewer>>

\* The status column is written only if the assignment changes what was loaded.
CommitDispatch(d) ==
    LET t == dispatcher[d].task IN
    /\ dispatcher[d].pc = "started"
    /\ status' = IF dispatcher[d].loaded = "IN_PROGRESS" THEN status
                 ELSE [status EXCEPT ![t] = "IN_PROGRESS"]
    /\ dispatcher' = [dispatcher EXCEPT ![d] = LoopOn(d)]
    /\ UNCHANGED <<workflow, reviewer>>

\* A call to Temporal raises without having reached it, or after having started
\* the workflow (then the row is rolled back in the except branch).
CallFails(d) ==
    /\ MayFail
    /\ dispatcher[d].pc \in {"start", "started"}
    /\ dispatcher' = [dispatcher EXCEPT ![d] = LoopOn(d)]
    /\ UNCHANGED <<status, workflow, reviewer>>

DispatcherDies(d) ==
    /\ MayFail
    /\ dispatcher[d].pc # "idle"
    /\ dispatcher' = [dispatcher EXCEPT ![d] = AtRest]
    /\ UNCHANGED <<status, workflow, reviewer>>

-------------------------------------------------------------------------------
(***************************************************************************)
(* approve_escalation and admin_resolve_task.                              *)
(***************************************************************************)

\* Mutant: the row is committed before the workflow is signalled.
CommitBeforeSignal(r, t) ==
    /\ reviewer[r].pc = "idle"
    /\ status[t] = "IN_PROGRESS"
    /\ status' = [status EXCEPT ![t] = "COMPLETED"]
    /\ reviewer' = [reviewer EXCEPT ![r] = [pc |-> "signal", task |-> t]]
    /\ UNCHANGED <<workflow, dispatcher>>

\* Mutant: a task may be approved before it was dispatched.
ApproveUndispatched(r, t) ==
    /\ reviewer[r].pc = "idle"
    /\ status[t] \in {"PENDING", "IN_PROGRESS"}
    /\ reviewer' = [reviewer EXCEPT ![r] = [pc |-> "signal", task |-> t]]
    /\ UNCHANGED <<status, workflow, dispatcher>>

approve_escalation(r, t) ==
    /\ reviewer[r].pc = "idle"
    /\ status[t] = "IN_PROGRESS"
    /\ reviewer' = [reviewer EXCEPT ![r] = [pc |-> "signal", task |-> t]]
    /\ UNCHANGED <<status, workflow, dispatcher>>

Signal(r) ==
    LET t == reviewer[r].task IN
    /\ reviewer[r].pc = "signal"
    /\ workflow[t] \in Alive
    /\ workflow' = [workflow EXCEPT ![t] = "approved"]
    /\ reviewer' = [reviewer EXCEPT ![r].pc = "commit"]
    /\ UNCHANGED <<status, dispatcher>>

\* Temporal knows no running execution of that id: the handler raises.
SignalRefused(r) ==
    /\ reviewer[r].pc = "signal"
    /\ workflow[reviewer[r].task] \notin Alive
    /\ reviewer' = [reviewer EXCEPT ![r] = Away]
    /\ UNCHANGED <<status, workflow, dispatcher>>

\* admin_resolve_task goes from the read straight to its commit.
admin_resolve_task(r, t) ==
    /\ DemoMode
    /\ reviewer[r].pc = "idle"
    /\ status[t] = "IN_PROGRESS"
    /\ reviewer' = [reviewer EXCEPT ![r] = [pc |-> "resolve", task |-> t]]
    /\ UNCHANGED <<status, workflow, dispatcher>>

\* Mutants: a status no reader knows (the column is a plain string); no commit.
CommitApproved(r) ==
    /\ reviewer[r].pc = "commit"
    /\ status' = [status EXCEPT ![reviewer[r].task] = "APPROVED"]
    /\ reviewer' = [reviewer EXCEPT ![r] = Away]
    /\ UNCHANGED <<workflow, dispatcher>>

CompletionForgotten(r) ==
    /\ reviewer[r].pc = "commit"
    /\ reviewer' = [reviewer EXCEPT ![r] = Away]
    /\ UNCHANGED <<status, workflow, dispatcher>>

CommitCompleted(r) ==
    /\ reviewer[r].pc = "commit"
    /\ status' = [status EXCEPT ![reviewer[r].task] = "COMPLETED"]
    /\ reviewer' = [reviewer EXCEPT ![r] = Away]
    /\ UNCHANGED <<workflow, dispatcher>>

CommitResolved(r) ==
    /\ reviewer[r].pc = "resolve"
    /\ status' = [status EXCEPT ![reviewer[r].task] = "COMPLETED"]
    /\ reviewer' = [reviewer EXCEPT ![r] = Away]
    /\ UNCHANGED <<workflow, dispatcher>>

ReviewerDies(r) ==
    /\ MayFail
    /\ reviewer[r].pc # "idle"
    /\ reviewer' = [reviewer EXCEPT ![r] = Away]
    /\ UNCHANGED <<status, workflow, dispatcher>>

\* HumanReviewWorkflow.run: the condition holds and the execution closes.
run(t) ==
    /\ workflow[t] = "approved"
    /\ workflow' = [workflow EXCEPT ![t] = "closed"]
    /\ UNCHANGED <<status, dispatcher, reviewer>>

DispatcherStep(d) ==
    \/ \E t \in Tasks : NextTask(d, t)
    \/ StartWorkflow(d)
    \/ AlreadyStarted(d)
    \/ CommitDispatch(d)

ReviewerStep(r) ==
    Signal(r) \/ SignalRefused(r) \/ CommitCompleted(r) \/ CommitResolved(r)

Next ==
    \/ \E t \in Tasks : create_escalation_task(t) \/ run(t)
    \/ \E d \in Dispatchers :
           \/ \E t \in Tasks : dispatch_pending_tasks(d, t)
           \/ DispatcherStep(d)
           \/ CallFails(d)
           \/ DispatcherDies(d)
    \/ \E r \in Reviewers :
           \/ \E t \in Tasks : approve_escalation(r, t) \/ admin_resolve_task(r, t)
           \/ ReviewerStep(r)
           \/ ReviewerDies(r)

Spec == Init /\ [][Next]_vars

(***************************************************************************)
(* A handler that has begun goes on; Temporal's worker runs; somebody      *)
(* keeps calling dispatch_pending_tasks and approving what is open.  The   *)
(* repository schedules neither call, so the last two are assumptions      *)
(* about its operator, made to ask what the handlers do when they are met. *)
(***************************************************************************)
Fairness ==
    /\ \A d \in Dispatchers : /\ WF_vars(DispatcherStep(d))
                              /\ WF_vars(\E t \in Tasks : dispatch_pending_tasks(d, t))
    /\ \A r \in Reviewers : /\ WF_vars(ReviewerStep(r))
                            /\ WF_vars(\E t \in Tasks : approve_escalation(r, t))
    /\ \A t \in Tasks : WF_vars(run(t))

FairSpec == Spec /\ Fairness
-------------------------------------------------------------------------------
(***************************************************************************)
(* Properties.                                                             *)
(***************************************************************************)

TypeOK ==
    /\ status \in [Tasks -> Statuses]
    /\ workflow \in [Tasks -> Executions]
    /\ dispatcher \in [Dispatchers -> Dispatcher]
    /\ reviewer \in [Reviewers -> Reviewer]

\* A lone dispatcher's list holds PENDING tasks only, and a task somebody is
\* closing has left PENDING for good: what keeps a stale list harmless.
OneDispatcherInv ==
    /\ \A d \in Dispatchers :
           /\ dispatcher[d].todo \subseteq Pending
           /\ dispatcher[d].pc \in {"start", "started"} =>
                  /\ dispatcher[d].task \in Pending \ dispatcher[d].todo
                  /\ dispatcher[d].loaded = "PENDING"
    /\ \A r \in Reviewers : reviewer[r].pc # "idle" =>
           reviewer[r].task \in Tasks /\ status[reviewer[r].task] \in {"IN_PROGRESS", "COMPLETED"}

\* With one dispatcher the three handlers implement the life cycle of a task:
\* opened, dispatched and closed once, never backwards.
Lifecycle == INSTANCE TaskLifecycle WITH Tasks <- Tasks, status <- status
LifecycleSpec == Lifecycle!Spec

\* "Start Temporal workflows for all PENDING escalation tasks" (dispatcher.py): an
\* execution begins only for a task that is PENDING at that moment.
StartsOnlyPending ==
    [][\A t \in Tasks : workflow[t] \notin Alive /\ workflow'[t] \in Alive =>
          status[t] = "PENDING"]_vars

\* A row becomes COMPLETED only after its workflow has been told, wherever a process
\* dies in between: approval signals first and commits second.  The one exception is
\* the commit of an administrator's own session, which tells the workflow nothing.
ApprovalSignalsFirst ==
    [][\A t \in Tasks : status[t] # "COMPLETED" /\ status'[t] = "COMPLETED" =>
          \/ workflow[t] \in {"approved", "closed"}
          \/ \E r \in Reviewers : /\ reviewer[r].pc = "resolve"
                                  /\ reviewer[r].task = t
                                  /\ reviewer'[r].pc = "idle"]_vars

\* The workflow of a completed task ends too.  admin_resolve_task leaves it waiting
\* for an approval that approve_escalation refuses, since the row is COMPLETED.
ReviewsClose == \A t \in Tasks : status[t] = "COMPLETED" ~> workflow[t] = "closed"

\* A review that has closed in Temporal is never run a second time, however often
\* the dispatcher dies and retries (the AlreadyStarted branch and the task status).
ReviewedOnce ==
    [][\A t \in Tasks : workflow[t] = "closed" => workflow'[t] = "closed"]_vars

\* Every task that is opened is eventually in a reviewer's hands
\* (dispatch_pending_tasks, called again and again).
PendingIsDispatched == \A t \in Tasks : status[t] = "PENDING" ~> status[t] = "IN_PROGRESS"

\* "Approve an escalation task: signal workflow, mark COMPLETED" (dispatcher.py):
\* once the workflow has the approval the row follows.
ApprovalIsRecorded == \A t \in Tasks : workflow[t] = "approved" ~> status[t] = "COMPLETED"
===============================================================================
