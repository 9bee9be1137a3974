--------------------------- MODULE MCReviewWorkflow ---------------------------
(***************************************************************************)
(* ReviewWorkflow for TLC: tasks, dispatchers and reviewers are            *)
(* interchangeable, which the runs without liveness use.                   *)
(***************************************************************************)
EXTENDS ReviewWorkflow, TLC

Interchangeable == Permutations(Tasks) \cup Permutations(Dispatchers)
                       \cup Permutations(Reviewers)
===============================================================================
