------------------------------- MODULE MCEngine -------------------------------
(***************************************************************************)
(* The parts of the engine that share no state with one another, checked   *)
(* in one run.  subject says which of them moves; the others stay in one   *)
(* of their initial states, so each is explored on its own.                *)
(***************************************************************************)
EXTENDS HazardCheck, MCCalibration, Resilience, Allocation, EarlyWarning, DecisionWrapper, TLC

VARIABLE subject

\* HazardCheck: every mode, even and skewed weights, an intervention that is dear or
\* cheap, floors and a gate.
Skewed == [a \in Axes |-> CASE a = "s" -> 5 [] a = "t" -> 1 [] a = "p" -> 4 [] OTHER -> 0]
Overweight == [DefaultCostConfig.weights EXCEPT !["s"] = 3]
NoFloor == [a \in Axes |-> 0]
GateOnP == [a \in Axes |-> IF a = "p" THEN 4 ELSE Scale]

Grid ==
    {[DefaultCostConfig EXCEPT !.weights = w, !.C_err = e, !.hazard_mode = m,
                               !.floor_axes = f, !.dominant_axes = GateOnP] :
        w \in {DefaultCostConfig.weights, Skewed, Overweight}, e \in {500, 3000},
        m \in Modes, f \in {DefaultCostConfig.floor_axes, NoFloor}}

\* Resilience: thresholds below, at and above surge_calm's caps.
SurgeBases == {<<2, 2>>, <<9, 5>>, <<5, 8>>, <<7, 10>>}

\* Allocation: histories too short, rising, falling, constant and of unequal length;
\* the hazard of today is the newest entry, and a review takes
\* no time, that of a STANDARD node or that of a HIGH one.
Trails == {<<1>>, <<0, 2>>, <<2, 1>>, <<2, 0, 1>>, <<1, 1, 0, 2>>, <<1, 1>>}
SomeFleets ==
    {[trails |-> t, hazards |-> [i \in Positions |-> t[i][Len(t[i])]], hours |-> h,
      budget |-> b] :
        t \in [Positions -> Trails],
        h \in [Positions -> {0, 2, 3}],
        b \in {4, 5}}

\* EarlyWarning: one axis falls far or a little, or another one does.
Falls == {[r |-> x, t |-> 10] : x \in {0, 9, 10}} \cup {[r |-> 10, t |-> 3]}

\* Request slots are alike, and so are database sessions.
Alike == Permutations(Sessions) \cup Permutations(Writers)

\* DecisionWrapper: configurations come from one slot and nobody resets the demo; the
\* first row asks for nothing, the last for review.
Uses(s) == phase'[s] # "idle" \/ \E c \in Configs : author'[c] = s
OneSlot == /\ \A s, t \in Sessions : Uses(s) /\ Uses(t) => s = t
           /\ UNCHANGED <<demo, resets>>
Stricter == [c \in Configs \cup {NoConfig} |->
    [v \in Vectors |-> IF v = Perfect \/ c = NoConfig THEN 0 ELSE c - 1]]

engineVars == <<subject, hazardVars, calibrationVars, resilienceVars, allocationVars,
                warningVars, wrapperVars>>

EngineInit ==
    /\ subject \in {"hazard", "calibration", "resilience", "allocation", "warning",
                   "store", "wrapper"}
    /\ IF subject = "hazard" THEN HazardInit
       ELSE Rt = Healthy /\ conf = DefaultCostConfig
    /\ IF subject = "calibration" THEN CalibrationInit
       ELSE life = 5 /\ halfLife = 5 /\ threshold = 20 /\ alpha = 1 /\ beta = 1
    /\ IF subject = "resilience" THEN ResilienceInit ELSE overdue = -1 /\ load = 0 /\ base = <<2, 2>>
    /\ IF subject = "allocation" THEN AllocationInit
       ELSE /\ fleet = [trails |-> <<<<1>>, <<1>>, <<1>>>>, hazards |-> <<1, 1, 1>>,
                        hours |-> <<2, 2, 2>>, budget |-> 4]
            /\ reduction = <<>> /\ todo = {} /\ selected = <<>> /\ spent = 0 /\ pc = "scoring"
    /\ WarningInit
    /\ WrapperInit

EngineNext ==
    /\ UNCHANGED subject
    /\ IF subject = "hazard" THEN HazardNext ELSE UNCHANGED hazardVars
    /\ IF subject = "calibration" THEN CalibrationNext ELSE UNCHANGED calibrationVars
    /\ IF subject = "resilience" THEN ResilienceNext ELSE UNCHANGED resilienceVars
    /\ IF subject = "allocation" THEN AllocationNext ELSE UNCHANGED allocationVars
    /\ IF subject = "warning" THEN WarningNext ELSE UNCHANGED warningVars
    /\ CASE subject = "store" -> Next /\ UNCHANGED <<nodeVars, work, reading, report>>
         [] subject = "wrapper" -> WrapperNext /\ OneSlot
         [] OTHER -> UNCHANGED wrapperVars

EngineSpec == EngineInit /\ [][EngineNext]_engineVars
===============================================================================
