----------------------------- MODULE HazardCheck ------------------------------
(***************************************************************************)
(* The two hazard functions along every way a reliability vector can get   *)
(* worse: an axis loses Step at a time, under each configuration that      *)
(* validate_cost_config lets through.  The walk stands for the successive  *)
(* calls the pipeline makes with vectors that shocks have lowered.         *)
(***************************************************************************)
EXTENDS Hazard

CONSTANTS
    Step,        \* how much an axis loses at a time
    Candidates   \* configurations offered to POST /config/cost

ASSUME HazardCheckAssumption ==
    Step \in Level \ {0} /\ Candidates \subseteq CostConfigs

VARIABLES
    Rt,    \* the reliability vector R(t) of a node
    conf   \* its cost configuration

hazardVars == <<Rt, conf>>

HazardInit == Rt = Healthy /\ conf \in {c \in Candidates : ValidCostConfig(c)}

\* A drift, macroeconomic or minor regulatory shock: the clamped subtraction.
Degrade(a) ==
    /\ Rt[a] > 0
    /\ Rt' = [Rt EXCEPT ![a] = Clamp(@ - Step)]
    /\ UNCHANGED conf

HazardNext == \E a \in Axes : Degrade(a)

HazardSpec == HazardInit /\ [][HazardNext]_hazardVars

\* The result of the function the pipeline dispatches to.
Result == Suggested(Rt, conf)

\* Losing reliability never makes the suggested status less severe, in any mode
\* of either hazard function: floors, gates, costs and threshold all point one way.
WorseNeverSafer ==
    [][(\E a \in Axes : Rt'[a] < Rt[a]) =>
          Severity(TargetStatus(Result'[1])) >= Severity(TargetStatus(Result[1]))]_hazardVars

\* With the built-in configuration the cost rung of the ladder is out of reach:
\* C_err is below C_int, so only a floor escalates (config_loader.py defaults).
DefaultEscalatesByFloorOnly ==
    LET result == compute_governance_action(Rt, DefaultCostConfig)
    IN  result[1] = "ESCALATE" => result[3] = "axis_floor_violation"

===============================================================================
