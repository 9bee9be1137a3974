---------------------------- MODULE DecisionWrapper ----------------------------
(***************************************************************************)
(* wrap_decision (src/core/output/wrapper.py) beside overlapping runs, the *)
(* administrator and the configuration table: a report puts the status the *)
(* node's row has next to a hazard computed from the row's vector.         *)
(*                                                                         *)
(* Every request that writes a row reads it first and commits later, as in *)
(* Governance: it decides from what it has seen and writes back only what  *)
(* it changed.  A run that escalates commits the row in the first of its   *)
(* two transactions; the second holds audit rows only.                     *)
(*                                                                         *)
(* A status is 0 (ACTIVE), 1 (PROVISIONAL) or 2 (IN_REVIEW); of a vector   *)
(* only what each configuration suggests for it matters.                   *)
(***************************************************************************)
EXTENDS CostConfigStore

CONSTANTS
    Writers,     \* database sessions that may write node rows at a time
    Vectors, Perfect,
    Suggest,     \* Suggest[c][v]: the hazard function's status for v under c
    Accepted     \* rows that validate_cost_config lets through

ASSUME WrapperAssumption ==
    /\ Perfect \in Vectors /\ Accepted \subseteq Configs
    /\ Suggest \in [Configs \cup {NoConfig} -> [Vectors -> 0 .. 2]]
    /\ \A c \in Accepted \cup {NoConfig} : Suggest[c][Perfect] = 0

VARIABLES
    vector, standing,  \* the node rows: reliability and status
    work,              \* what each writer has read and is about to write, if anything
    reading,           \* rows wrap_decision has loaded
    report,            \* the report it has returned
    patched            \* history: nodes whose row a resolved task released, or an
                       \* overlap wrote, and no undisturbed commit has since

nodeVars == <<vector, standing, patched>>
wrapperVars == <<vars, nodeVars, work, reading, report>>

WrapperInit ==
    /\ Init
    /\ vector = [n \in Nodes |-> Perfect] /\ standing = [n \in Nodes |-> 0]
    /\ work = [w \in Writers |-> {}]
    /\ reading = {} /\ report = {} /\ patched = {}

Worse(x, y) == IF x > y THEN x ELSE y

\* The writer has read the row of n and assigned it vector v and status s.
Begin(w, n, v, s, resolves) ==
    /\ work[w] = {} /\ pin[n] # Absent
    /\ work' = [work EXCEPT ![w] =
           {[node |-> n, seen |-> [vector |-> vector[n], status |-> standing[n]],
             vector |-> v, status |-> s, resolves |-> resolves]}]
    /\ UNCHANGED <<vars, nodeVars, reading, report>>

\* A run under a rejected configuration raises and changes nothing.
process_node_lifecycle(w, n) ==
    \E v \in Vectors, c \in get_cost_config_for_node(n) \cap (Accepted \cup {NoConfig}) :
        Begin(w, n, v, Worse(standing[n], Suggest[c][v]), FALSE)

admin_recertify_node(w, n) == Begin(w, n, Perfect, 0, FALSE)

\* Two that overlap set the node ACTIVE and leave the vector (Governance, CommitResolve).
admin_resolve_task(w, n) == standing[n] = 2 /\ Begin(w, n, vector[n], 0, TRUE)

Undisturbed(t) ==
    /\ vector[t.node] = t.seen.vector /\ standing[t.node] = t.seen.status
    /\ ~t.resolves

\* The columns that changed are written; where another session wrote too, the row
\* holds some columns of each.
Columns(t) ==
    IF t.vector = t.seen.vector THEN {vector[t.node]}
    ELSE IF vector[t.node] = t.seen.vector THEN {t.vector} ELSE Vectors

CommitNode(w) ==
    /\ \E t \in work[w] :
           /\ \E v \in Columns(t) : vector' = [vector EXCEPT ![t.node] = v]
           /\ standing' = IF t.status = t.seen.status THEN standing
                          ELSE [standing EXCEPT ![t.node] = t.status]
           /\ patched' = IF Undisturbed(t) THEN patched \ {t.node}
                         ELSE IF t.vector = t.seen.vector /\ t.status = t.seen.status
                         THEN patched ELSE patched \cup {t.node}
    /\ work' = [work EXCEPT ![w] = {}]
    /\ UNCHANGED <<vars, reading, report>>

\* The request dies before its commit.
WriterDies(w) ==
    /\ work[w] # {}
    /\ work' = [work EXCEPT ![w] = {}]
    /\ UNCHANGED <<vars, nodeVars, reading, report>>

\* db.get(Node): the row as it is now.
wrap_decision(n) ==
    /\ reading = {} /\ pin[n] # Absent
    /\ reading' = {[node |-> n, vector |-> vector[n], status |-> standing[n],
                    patched |-> n \in patched]}
    /\ report' = {}
    /\ UNCHANGED <<vars, nodeVars, work>>

\* The configuration is looked up afterwards and the hazard computed with it.
Reported ==
    \E r \in reading : \E c \in get_cost_config_for_node(r.node) :
        /\ report' = {[node |-> r.node, decision |-> r.status, config |-> c,
                       suggested |-> Suggest[c][r.vector], patched |-> r.patched]}
        /\ reading' = {}
        /\ UNCHANGED <<vars, nodeVars, work>>

WrapperNext ==
    \/ Next /\ UNCHANGED <<nodeVars, work, reading, report>>
    \/ \E w \in Writers, n \in Nodes :
           \/ process_node_lifecycle(w, n)
           \/ admin_recertify_node(w, n)
           \/ admin_resolve_task(w, n)
    \/ \E w \in Writers : CommitNode(w) \/ WriterDies(w)
    \/ \E n \in Nodes : wrap_decision(n)
    \/ Reported

WrapperSpec == WrapperInit /\ [][WrapperNext]_wrapperVars
-------------------------------------------------------------------------------
\* The configuration passes validation and the status is at least what it suggests.
Covers(r) == r.config \in Accepted \cup {NoConfig} => r.suggested <= r.decision

\* A node with a configuration of its own is reported milder than the hazard in the
\* same report asks for only if its row was left by sessions that overlapped or by a
\* resolved task: whatever configurations are set, whatever runs, recertifications and
\* pins come between the two reads, and as soon as one run has committed undisturbed
\* (wrap_decision, get_cost_config_for_node).
PinnedReportCovers ==
    \A r \in report : pin[r.node] # NoConfig /\ ~r.patched => Covers(r)

\* The same of every pinned node, sessions that overlap included.
OverlapReportCovers == \A r \in report : pin[r.node] # NoConfig => Covers(r)

\* "hazard (computed from current R(t) and active cost config)" next to the status
\* (wrapper.py): the same for a node without one, whose status an earlier
\* configuration gave it.
ReportCovers == \A r \in report : ~r.patched => Covers(r)
===============================================================================
