----------------------------- MODULE EarlyWarning -----------------------------
(***************************************************************************)
(* Critical slowing down (src/core/engine/csd.py, csd_integration.py): the *)
(* reliability snapshots that the pipeline leaves in the audit trail of a  *)
(* node, the check over the newest of them and the status it gives.  The   *)
(* program imports check_and_warn_node into its scheduler; here anybody    *)
(* may call it at any time.                                                *)
(***************************************************************************)
EXTENDS Reliability, Statistics

CONSTANTS
    Snapshots,     \* vectors a run may record: functions on the watched axes
    Limit,         \* get_reliability_history's limit
    MinWindow,     \* compute_csd_warnings' min_window
    MaxTrail       \* bound on the snapshots of the node

ASSUME WarningAssumption ==
    /\ Limit \in Nat \ {0} /\ MinWindow \in Nat /\ MaxTrail \in Nat
    /\ \A v, w \in Snapshots : DOMAIN v = DOMAIN w
    /\ \A v \in Snapshots : \A a \in DOMAIN v : v[a] \in Level

VARIABLES
    trail,   \* new_R of the reliability_updated entries, oldest first
    status

warningVars == <<trail, status>>

WarningInit == trail = <<>> /\ status = "ACTIVE"

\* _SEVERITY of pipeline.py knows these three and not PRE_FAILURE_WARNING.
SEVERITY == [ACTIVE |-> 0, PROVISIONAL |-> 1, IN_REVIEW |-> 2]

\* One run of process_node_lifecycle: its snapshot and, upwards only, its status.  On a warned node the
\* lookup in _SEVERITY raises KeyError and nothing is committed.
LifecycleRun(v, suggested) ==
    /\ Len(trail) < MaxTrail /\ status \in DOMAIN SEVERITY
    /\ trail' = Append(trail, v)
    /\ status' = IF SEVERITY[suggested] > SEVERITY[status] THEN suggested ELSE status

\* Mutant: the oldest entries are read.
OldestFirst(a) ==
    LET n == IF Len(trail) < Limit THEN Len(trail) ELSE Limit
    IN  [k \in 1 .. n |-> trail[k][a]]

\* ORDER BY created_at DESC LIMIT, reversed.
get_reliability_history(a) ==
    LET recent == Newest(trail, Limit) IN [k \in DOMAIN recent |-> recent[k][a]]

\* Above var_threshold, 0.02.
rolling_variance_high(w) == Len(w) >= 2 /\ 50 * Moment(w, w) > Len(w) * Len(w) * Scale * Scale

\* Mutant: the series is correlated with itself.
LagForgotten(w) ==
    Len(w) >= 3 /\ Moment(w, w) > 0

\* Mutant: both factors of the denominator are those of x.
DenominatorOfX(w) ==
    LET x == SubSeq(w, 1, Len(w) - 1)
        y == SubSeq(w, 2, Len(w))
    IN  Len(w) >= 3 /\ 2 * Moment(x, y) > Moment(x, x)

\* Above ac_threshold, 0.5: num / (den_x * den_y), squared.
lag1_autocorr_high(w) ==
    LET x == SubSeq(w, 1, Len(w) - 1)
        y == SubSeq(w, 2, Len(w))
    IN  /\ Len(w) >= 3 /\ Moment(x, y) > 0
        /\ 4 * Moment(x, y) * Moment(x, y) > Moment(x, x) * Moment(y, y)

compute_csd_warnings(w) ==
    Len(w) >= MinWindow /\ rolling_variance_high(w) /\ lag1_autocorr_high(w)

WatchedAxes == UNION {DOMAIN v : v \in Snapshots}

check_and_warn_node ==
    /\ status = "ACTIVE"
    /\ \E a \in WatchedAxes : compute_csd_warnings(get_reliability_history(a))
    /\ status' = "PRE_FAILURE_WARNING"
    /\ UNCHANGED trail

\* admin_recertify_node: vector and status are set anew; its audit entry is no snapshot.
Recertification == status' = "ACTIVE" /\ UNCHANGED trail

WarningNext ==
    \/ \E v \in Snapshots, s \in DOMAIN SEVERITY : LifecycleRun(v, s)
    \/ check_and_warn_node
    \/ Recertification

WarningSpec == WarningInit /\ [][WarningNext]_warningVars
-------------------------------------------------------------------------------
Warned == status = "ACTIVE" /\ status' = "PRE_FAILURE_WARNING"

\* What the last Limit runs recorded, on one axis.
Recent(a) == {trail[k][a] : k \in {j \in DOMAIN trail : j + Limit > Len(trail)}}

\* A decline that the last Limit snapshots no longer show does not warn: the newest
\* entries are read, and a node that has been constant since is left alone.
OldSwingsForgotten == [][Warned => \E a \in WatchedAxes : Cardinality(Recent(a)) > 1]_warningVars

\* An axis that flips between two values on every run is unsteady, not slowing down:
\* it does not warn, however far apart the values are.
Flaps(a) ==
    \A k \in DOMAIN trail :
        k + Limit > Len(trail) /\ k + 2 <= Len(trail) => trail[k + 2][a] = trail[k][a]

FlappingIsQuiet == [][Warned => \E a \in WatchedAxes : ~Flaps(a)]_warningVars

\* The two statistics do not know a direction: a recovery warns whenever the
\* decline that mirrors it does.
RecoveryWarnsToo ==
    \A a \in WatchedAxes :
        LET w == get_reliability_history(a)
        IN  compute_csd_warnings(w) <=> compute_csd_warnings([k \in DOMAIN w |-> w[Len(w) + 1 - k]])

\* A node that an administrator has just recertified is not warned before it runs
\* again (admin_recertify_node); its old snapshots still count.
RecertifiedIsCalm ==
    [][status = "PRE_FAILURE_WARNING" /\ status' = "ACTIVE" =>
          \A a \in WatchedAxes : ~compute_csd_warnings(get_reliability_history(a))']_warningVars
===============================================================================
