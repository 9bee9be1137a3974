----------------------------- MODULE Reliability -----------------------------
(***************************************************************************)
(* The reliability vector of a decision node and the pure functions that   *)
(* move it (src/core/engine/reliability_dynamics.py, propagation.py).      *)
(*                                                                         *)
(* The code's floats in [0,1] are integers in 0..Scale here.  The          *)
(* exponential of update_axis_temporal is an input: a caller passes the    *)
(* value of exp(-alpha * elapsed) in the same units.                       *)
(***************************************************************************)
EXTENDS Integers

CONSTANT Scale          \* 1.0 of the code

ASSUME ScaleAssumption == Scale \in Nat /\ Scale >= 10

Axes == {"s", "p", "c", "r", "t"}
Level == 0 .. Scale
Vector == [Axes -> Level]

Healthy == [a \in Axes |-> Scale]

(***************************************************************************)
(* What one call of the pipeline hands to the engine: the classified       *)
(* shocks of the signal bus.  drift and macro are 0 when there is none;    *)
(* macro is the sum of the macroeconomic magnitudes.  Either is negative   *)
(* after an event whose severity was.                                      *)
(***************************************************************************)
ShockBatch == [structural : BOOLEAN, drift : Int, macro : Int,
               major : BOOLEAN, minor : Nat]

NoShock == [structural |-> FALSE, drift |-> 0, macro |-> 0,
            major |-> FALSE, minor |-> 0]

Least(x, y) == IF x < y THEN x ELSE y

\* _EPSILON = 1e-3, in units of 1/Scale.
Epsilon == Scale \div 1000

\* Mutant: the lower bound is forgotten.
CappedOnly(v) == IF v >= Scale THEN Scale ELSE v

Clamp(v) == IF v <= Epsilon THEN 0 ELSE IF v >= Scale THEN Scale ELSE v

BreakingLevel == (2 * Scale) \div 10
MajorLevel == (3 * Scale) \div 10
MinorStep == Scale \div 10

update_axis_structural(r, breaking) == IF breaking THEN BreakingLevel ELSE Clamp(r)

update_axis_performance(r, drift) == Clamp(r - Least(drift, Scale))

update_axis_context(r, macro) == Clamp(r - Least(macro, Scale))

\* The loop returns at the first major change, whatever minor ones precede it.
update_axis_regulatory(r, major, minor) ==
    IF major THEN MajorLevel ELSE Clamp(r - MinorStep * minor)

\* The stored value is not an argument: freshness depends on elapsed time only.
update_axis_temporal(elapsed, exponential) ==
    IF elapsed <= 0 THEN Scale ELSE Clamp(exponential)

compute_reliability_vector(R, elapsed, exponential, b) ==
    [a \in Axes |->
        CASE a = "s" -> update_axis_structural(R["s"], b.structural)
          [] a = "p" -> update_axis_performance(R["p"], b.drift)
          [] a = "c" -> update_axis_context(R["c"], b.macro)
          [] a = "r" -> update_axis_regulatory(R["r"], b.major, b.minor)
          [] a = "t" -> update_axis_temporal(elapsed, exponential)]

\* The new values of the axes an edge drags down: those where the parent is worse.
\* A structural schema dependency copies the parent, any other blends towards it.
compute_child_degradation(parent, child, coeffs, edge_type) ==
    [a \in {x \in DOMAIN coeffs : parent[x] < child[x]} |->
        IF edge_type = "SCHEMA_DEP" /\ a = "s" THEN parent[a]
        ELSE child[a] - (coeffs[a] * (child[a] - parent[a])) \div Scale]
=============================================================================
