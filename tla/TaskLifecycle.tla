---------------------------- MODULE TaskLifecycle -----------------------------
(***************************************************************************)
(* What the escalation_tasks table promises its readers: a task is opened  *)
(* once, put in a reviewer's hands once, and closed once.  The states are  *)
(* those of EscalationTask.status, with "NONE" for a row not inserted yet. *)
(***************************************************************************)
CONSTANT Tasks

VARIABLE status

Statuses == {"NONE", "PENDING", "IN_PROGRESS", "COMPLETED"}

Init == status = [t \in Tasks |-> "NONE"]

Move(t, from, to) ==
    /\ status[t] = from
    /\ status' = [status EXCEPT ![t] = to]

Open(t) == Move(t, "NONE", "PENDING")
Dispatch(t) == Move(t, "PENDING", "IN_PROGRESS")
Close(t) == Move(t, "IN_PROGRESS", "COMPLETED")

Next == \E t \in Tasks : Open(t) \/ Dispatch(t) \/ Close(t)

Spec == Init /\ [][Next]_status
===============================================================================
