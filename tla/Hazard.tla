------------------------------- MODULE Hazard -------------------------------
(***************************************************************************)
(* From a reliability vector and a cost configuration to a governance      *)
(* action and a node status (src/core/orchestrator/hazard.py,              *)
(* hazard_nonlinear.py, config_validator.py).                              *)
(*                                                                         *)
(* A hazard of 1.0 is Scale^3 so that the linear, the max and the          *)
(* quadratic aggregation are exact integers of one unit.  A configuration  *)
(* is a total function on the axes: an axis without a floor has floor 0    *)
(* and one without a gate has gate Scale, neither of which can ever fire.  *)
(***************************************************************************)
EXTENDS Reliability

\* NodeStatus without PRE_FAILURE_WARNING, which only check_and_warn_node sets, a
\* function nothing in the program calls.
Statuses == {"ACTIVE", "PROVISIONAL", "IN_REVIEW", "SUSPENDED", "RETIRED"}
Modes == {"linear", "max", "quadratic", "hard_gate"}

CostConfigs == [weights : [Axes -> Int], C_err : Int, C_int : Int,
                provisional_hazard : Int, floor_axes : [Axes -> Int],
                hazard_mode : Modes, dominant_axes : [Axes -> Int]]

\* get_active_cost_config without an active row.
DefaultCostConfig ==
    [weights |-> [a \in Axes |-> (2 * Scale) \div 10], C_err |-> 500, C_int |-> 1000,
     provisional_hazard |-> (2 * Scale) \div 10,
     floor_axes |-> [a \in Axes |-> CASE a = "r" -> (2 * Scale) \div 10
                                      [] a = "s" -> (3 * Scale) \div 10 [] OTHER -> 0],
     hazard_mode |-> "linear", dominant_axes |-> [a \in Axes |-> Scale]]

HazardUnit == Scale * Scale * Scale

SumOfWeights(w) == w["s"] + w["p"] + w["c"] + w["r"] + w["t"]

\* validate_cost_config returns no error: abs(total - 1.0) <= 0.001 and ranges.
ValidCostConfig(cfg) ==
    /\ \A a \in Axes : cfg.weights[a] >= 0
    /\ 1000 * (SumOfWeights(cfg.weights) - Scale) <= Scale
    /\ 1000 * (Scale - SumOfWeights(cfg.weights)) <= Scale
    /\ cfg.C_err >= 0 /\ cfg.C_int >= 0
    /\ cfg.provisional_hazard \in Level
    /\ \A a \in Axes : cfg.floor_axes[a] \in Level

Capped(h) == IF h < 0 THEN 0 ELSE IF h > HazardUnit THEN HazardUnit ELSE h

SumOver(f) == f["s"] + f["p"] + f["c"] + f["r"] + f["t"]

\* The largest of the five terms.
MaxOver(f) == CHOOSE m \in {f[a] : a \in Axes} : \A a \in Axes : f[a] <= m

\* Mutant: an axis at 0 is taken for one that is missing.
FloorOfTruthyAxes(R, cfg) == \E a \in Axes : R[a] > 0 /\ R[a] < cfg.floor_axes[a]

FloorViolated(R, cfg) == \E a \in Axes : R[a] < cfg.floor_axes[a]

\* Mutant: the two costs are swapped.
CostsSwapped(h, cfg) == h * cfg.C_int > cfg.C_err * HazardUnit

\* Expected loss exceeds the cost of an intervention.
CostExceeded(h, cfg) == h * cfg.C_err > cfg.C_int * HazardUnit

\* The cost and threshold rungs both functions end with.
CostLadder(h, cfg) ==
    CASE CostExceeded(h, cfg) -> <<"ESCALATE", h, "cost_exceeded">>
      [] /\ ~CostExceeded(h, cfg)
         /\ h >= cfg.provisional_hazard * Scale * Scale
            -> <<"PROVISIONAL", h, "hazard_threshold">>
      [] OTHER -> <<"ACTIVE", h, "normal">>

LinearHazard(R, cfg) ==
    Capped(SumOver([a \in Axes |-> cfg.weights[a] * (Scale - R[a]) * Scale]))

compute_governance_action(R, cfg) ==
    LET h == LinearHazard(R, cfg) IN
    IF FloorViolated(R, cfg) THEN <<"ESCALATE", h, "axis_floor_violation">>
                             ELSE CostLadder(h, cfg)

Degradation(R, a) == IF R[a] > Scale THEN 0 ELSE Scale - R[a]

GateCrossed(R, cfg) == \E a \in Axes : Degradation(R, a) > cfg.dominant_axes[a]

NonlinearHazard(R, cfg) ==
    LET linear == [a \in Axes |-> cfg.weights[a] * Degradation(R, a) * Scale]
        square == [a \in Axes |-> cfg.weights[a] * Degradation(R, a) * Degradation(R, a)]
    IN  Capped(CASE cfg.hazard_mode = "max" -> MaxOver(linear)
                 [] cfg.hazard_mode = "quadratic" -> SumOver(square)
                 [] OTHER -> SumOver(linear))

compute_governance_action_nonlinear(R, cfg) ==
    LET h == NonlinearHazard(R, cfg) IN
    CASE FloorViolated(R, cfg) -> <<"ESCALATE", h, "axis_floor_violation">>
      [] ~FloorViolated(R, cfg) /\ GateCrossed(R, cfg) -> <<"ESCALATE", h, "gate_override">>
      [] OTHER -> CostLadder(h, cfg)

\* The dispatch on hazard_mode that the pipeline and the wrapper share.
Suggested(R, cfg) ==
    IF cfg.hazard_mode # "linear" THEN compute_governance_action_nonlinear(R, cfg)
                                  ELSE compute_governance_action(R, cfg)

TargetStatus(action) ==
    CASE action = "PROVISIONAL" -> "PROVISIONAL"
      [] action = "ESCALATE" -> "IN_REVIEW"
      [] OTHER -> "ACTIVE"

Severity(s) ==
    CASE s = "ACTIVE" -> 0 [] s = "PROVISIONAL" -> 1 [] s = "IN_REVIEW" -> 2
      [] s = "SUSPENDED" -> 3 [] s = "RETIRED" -> 4

SuggestedStatus(R, cfg) == TargetStatus(Suggested(R, cfg)[1])
=============================================================================
