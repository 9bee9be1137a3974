---------------------------- MODULE CostConfigStore ----------------------------
(***************************************************************************)
(* The cost_config table: POST /config/cost (set_cost_config), the pinning *)
(* of a node to a configuration (create_node), the look-up of the          *)
(* configuration a run uses (config_loader.py) and POST /admin/reset.      *)
(*                                                                         *)
(* set_cost_config is one transaction: an UPDATE that clears the active    *)
(* flag of every row it can see, then an INSERT.  Under READ COMMITTED the *)
(* UPDATE fixes the rows when it starts and waits for a concurrent UPDATE  *)
(* of one of them; it never sees a row inserted meanwhile.                 *)
(***************************************************************************)
EXTENDS Naturals

CONSTANTS
    Sessions,     \* request slots: each serves one request after the other
    Configs,      \* ids of cost_config rows
    Nodes,
    NoConfig,     \* cost_config_id of a node that is not pinned
    Absent,       \* a node that does not exist, a row that was not inserted
    MaxResets     \* bound on calls of admin_reset

ASSUME StoreAssumption ==
    /\ NoConfig \notin Configs /\ Absent \notin Configs \cup Sessions /\ NoConfig # Absent
    /\ MaxResets \in Nat

VARIABLES
    author,    \* session that committed each row, Absent until then
    active,    \* committed rows whose active flag is set
    phase,     \* what each session does: idle, waiting for the UPDATE, updated
    seen,      \* rows the session's UPDATE covers
    pin,       \* cost_config_id of each node
    demo,      \* nodes of the demo environment
    resets     \* admin_reset calls answered

vars == <<author, active, phase, seen, pin, demo, resets>>

Init ==
    /\ author = [c \in Configs |-> Absent]
    /\ active = {}
    /\ phase = [s \in Sessions |-> "idle"]
    /\ seen = [s \in Sessions |-> {}]
    /\ pin = [n \in Nodes |-> Absent]
    /\ demo = {}
    /\ resets = 0

Rows == {c \in Configs : author[c] # Absent}

\* set_cost_config: the UPDATE starts and fixes the rows it covers.
set_cost_config(s) ==
    /\ phase[s] = "idle" /\ Rows # Configs
    /\ phase' = [phase EXCEPT ![s] = "waiting"]
    /\ seen' = [seen EXCEPT ![s] = Rows]
    /\ UNCHANGED <<author, active, pin, demo, resets>>

\* Mutant: the UPDATE is committed on its own.
UpdateAndCommit(s) ==
    /\ phase[s] = "waiting"
    /\ active' = active \ seen[s]
    /\ phase' = [phase EXCEPT ![s] = "updated"]
    /\ UNCHANGED <<author, seen, pin, demo, resets>>

\* It holds the row locks until its transaction ends.
UpdateRows(s) ==
    /\ phase[s] = "waiting"
    /\ \A t \in Sessions : phase[t] = "updated" => seen[s] \cap seen[t] = {}
    /\ phase' = [phase EXCEPT ![s] = "updated"]
    /\ UNCHANGED <<author, active, seen, pin, demo, resets>>

\* Mutant: the rows that were active stay so.
InsertOnly(s, c) ==
    /\ phase[s] = "updated" /\ author[c] = Absent
    /\ author' = [author EXCEPT ![c] = s]
    /\ active' = active \cup {c}
    /\ phase' = [phase EXCEPT ![s] = "idle"]
    /\ seen' = [seen EXCEPT ![s] = {}]
    /\ UNCHANGED <<pin, demo, resets>>

\* INSERT and commit.
CommitConfig(s, c) ==
    /\ phase[s] = "updated" /\ author[c] = Absent
    /\ author' = [author EXCEPT ![c] = s]
    /\ active' = (active \ seen[s]) \cup {c}
    /\ phase' = [phase EXCEPT ![s] = "idle"]
    /\ seen' = [seen EXCEPT ![s] = {}]
    /\ UNCHANGED <<pin, demo, resets>>

\* The request dies before its commit: the transaction is rolled back.
Rollback(s) ==
    /\ phase[s] # "idle"
    /\ phase' = [phase EXCEPT ![s] = "idle"]
    /\ seen' = [seen EXCEPT ![s] = {}]
    /\ UNCHANGED <<author, active, pin, demo, resets>>

\* filter(active == True).first(): any active row, there is no ORDER BY.
ActiveRow == IF active = {} THEN {NoConfig} ELSE active

\* Mutant: the id the client names is not looked up.
PinUnchecked(n) ==
    /\ pin[n] = Absent
    /\ \E c \in Configs \cup ActiveRow : pin' = [pin EXCEPT ![n] = c]
    /\ demo' \in {demo, demo \cup {n}}
    /\ UNCHANGED <<author, active, phase, seen, resets>>

\* The client names an existing row, or the node is pinned to an active one.
create_node(n) ==
    /\ pin[n] = Absent
    /\ \E c \in Rows \cup ActiveRow : pin' = [pin EXCEPT ![n] = c]
    /\ demo' \in {demo, demo \cup {n}}
    /\ UNCHANGED <<author, active, phase, seen, resets>>

\* Mutant: the pin is not looked at ("Return the cost config pinned to this node").
ActiveForAll(n) == ActiveRow

\* The rows a run of the node may use; NoConfig stands for the built-in defaults.
get_cost_config_for_node(n) == IF pin[n] \in Rows THEN {pin[n]} ELSE ActiveRow

\* main.py names DependencyEdge without importing it: the handler raises after its
\* first two DELETEs and get_db closes the session, which rolls them back.
admin_reset ==
    /\ resets < MaxResets
    /\ resets' = resets + 1
    /\ UNCHANGED <<author, active, phase, seen, pin, demo>>

Next ==
    \/ \E s \in Sessions : set_cost_config(s) \/ UpdateRows(s) \/ Rollback(s)
    \/ \E s \in Sessions, c \in Configs : CommitConfig(s, c)
    \/ \E n \in Nodes : create_node(n)
    \/ admin_reset

Spec == Init /\ [][Next]_vars
-------------------------------------------------------------------------------
TypeOK ==
    /\ author \in [Configs -> Sessions \cup {Absent}]
    /\ active \subseteq Rows
    /\ phase \in [Sessions -> {"idle", "waiting", "updated"}]
    /\ seen \in [Sessions -> SUBSET Configs]
    /\ pin \in [Nodes -> Rows \cup {NoConfig, Absent}]
    /\ demo \subseteq Nodes
    /\ resets \in 0 .. MaxResets

\* Once a configuration has been set, some configuration is active in every
\* committed state, whatever requests overlap or die: the UPDATE and the INSERT of
\* set_cost_config commit together.
NeverUnconfigured == Rows # {} => active # {}

\* Overlapping set_cost_config requests leave at most one active row for each request
\* slot, and old rows never pile up; with one slot the active row is unique.
OneActivePerSession ==
    \A c, d \in active : author[c] = author[d] => c = d

\* A run never falls back to the built-in defaults once a configuration was set,
\* also for a node that was created before that (get_cost_config_for_node).
DefaultsOnlyBeforeFirst ==
    \A n \in Nodes : NoConfig \in get_cost_config_for_node(n) => Rows = {}

\* "Return the currently active cost configuration" (config_loader.py): there is
\* one such configuration, whatever requests overlap.
SingleActive == \A c, d \in active : c = d

\* "Delete all demo-environment nodes and dependent records" (main.py, admin_reset).
ResetClearsDemo == [][resets' # resets => demo' = {}]_vars
===============================================================================
