----------------------------- MODULE EngineProofs -----------------------------
(***************************************************************************)
(* Theorems about the pure functions of the engine, each iterated by a     *)
(* module of its own: the hazard functions (HazardCheck), calibration, and *)
(* surge and overdue handling (Resilience), for every value of their       *)
(* constants.                                                              *)
(***************************************************************************)
EXTENDS HazardCheck, Calibration, Resilience, HazardLemmas

(***************************************************************************)
(* The hazard functions.                                                   *)
(***************************************************************************)

CheckInv == Rt \in Vector /\ conf \in Stored

LEMMA CheckInit == ASSUME HazardInit PROVE CheckInv
  <1>1. Healthy \in Vector
    BY ScaleAssumption DEF Healthy, Vector, Level
  <1> QED
    BY <1>1, HazardCheckAssumption DEF HazardInit, CheckInv, Stored

LEMMA CheckStep ==
    ASSUME CheckInv, [HazardNext]_hazardVars
    PROVE  CheckInv' /\ Below(Rt', Rt) /\ conf' = conf
  <1>1. CASE \E a \in Axes : Degrade(a)
    <2>1. PICK a \in Axes : Degrade(a)
      BY <1>1
    <2>2. Rt[a] \in Int /\ Step \in Int /\ Step > 0 /\ Scale \in Int /\ Scale >= 10
          /\ Rt[a] >= 0 /\ Rt[a] <= Scale
      BY ScaleAssumption, HazardCheckAssumption DEF CheckInv, Vector, Level
    <2>3. Clamp(Rt[a] - Step) \in Level /\ Clamp(Rt[a] - Step) <= Rt[a]
      BY <2>2 DEF Clamp, Level, Epsilon
    <2>4. Rt' = [Rt EXCEPT ![a] = Clamp(Rt[a] - Step)] /\ conf' = conf
      BY <2>1 DEF Degrade
    <2>5. Rt' \in Vector /\ \A x \in Axes : Rt'[x] <= Rt[x]
      BY <2>3, <2>4, ScaleAssumption DEF CheckInv, Vector, Level
    <2> QED
      BY <2>4, <2>5 DEF CheckInv, Below
  <1>2. CASE UNCHANGED hazardVars
    BY <1>2, ScaleAssumption DEF hazardVars, CheckInv, Below, Vector, Level
  <1> QED
    BY <1>1, <1>2 DEF HazardNext

LEMMA CheckInvariant == HazardSpec => []CheckInv
  <1>1. HazardInit => CheckInv
    BY CheckInit
  <1>2. CheckInv /\ [HazardNext]_hazardVars => CheckInv'
    BY CheckStep
  <1> QED
    BY <1>1, <1>2, PTL DEF HazardSpec

\* No loss of reliability makes the suggested status less severe, in any mode, for
\* every scale and every configuration that can be stored.
THEOREM LossIsNeverRewarded == HazardSpec => WorseNeverSafer
  <1>1. CheckInv /\ [HazardNext]_hazardVars =>
            [(\E a \in Axes : Rt'[a] < Rt[a]) =>
                Severity(TargetStatus(Result'[1])) >= Severity(TargetStatus(Result[1]))]_hazardVars
    <2> SUFFICES ASSUME CheckInv, [HazardNext]_hazardVars
                 PROVE  Rung(Result') >= Rung(Result)
      BY DEF Rung
    <2>1. Rt' \in Vector /\ Rt \in Vector /\ conf \in Stored /\ Below(Rt', Rt) /\ conf' = conf
      BY CheckStep DEF CheckInv
    <2>2. Result' = Suggested(Rt', conf) /\ Result = Suggested(Rt, conf)
      BY <2>1 DEF Result
    <2> QED
      BY <2>1, <2>2, WorseIsNeverMilder
  <1> QED
    BY <1>1, CheckInvariant, PTL DEF HazardSpec, WorseNeverSafer

\* With the built-in configuration only a floor escalates: the capped hazard times
\* C_err never exceeds C_int.
THEOREM DefaultIsLenient == HazardSpec => []DefaultEscalatesByFloorOnly
  <1>1. CheckInv => DefaultEscalatesByFloorOnly
    <2> SUFFICES ASSUME CheckInv PROVE DefaultEscalatesByFloorOnly
      OBVIOUS
    <2>1. \A h \in Int : h <= HazardUnit /\ 0 <= h => ~CostExceeded(h, DefaultCostConfig)
      <3>1. HazardUnit \in Nat
        BY ScaleAssumption, Products DEF HazardUnit
      <3>2. DefaultCostConfig.C_err = 500 /\ DefaultCostConfig.C_int = 1000
        BY DEF DefaultCostConfig
      <3> QED
        BY <3>1, <3>2 DEF CostExceeded
    <2> DEFINE h == LinearHazard(Rt, DefaultCostConfig)
    <2>2. h \in Int /\ 0 <= h /\ h <= HazardUnit
      <3> DEFINE w == DefaultCostConfig.weights
                 f == [a \in Axes |-> w[a] * (Scale - Rt[a]) * Scale]
      <3>1. \A a \in Axes : w[a] \in Nat /\ Scale - Rt[a] \in Nat /\ Scale \in Nat
        BY ScaleAssumption DEF DefaultCostConfig, CheckInv, Vector, Level
      <3>2. \A a \in Axes : w[a] * (Scale - Rt[a]) * Scale \in Nat
        BY <3>1, Products
      <3>3. f \in [Axes -> Nat]
        BY <3>2
      <3>4. SumOver(f) \in Nat
        BY <3>3, SumIsMonotone
      <3>5. h = Capped(SumOver(f))
        BY DEF LinearHazard
      <3> QED
        BY <3>4, <3>5, CappedIsMonotone
    <2> HIDE DEF h
    <2>3. ASSUME compute_governance_action(Rt, DefaultCostConfig)[1] = "ESCALATE"
          PROVE  FloorViolated(Rt, DefaultCostConfig)
      <3>1. ~CostExceeded(h, DefaultCostConfig)
        BY <2>1, <2>2
      <3>2. CostLadder(h, DefaultCostConfig)[1] # "ESCALATE"
        BY <3>1 DEF CostLadder
      <3> QED
        BY <2>3, <3>2 DEF compute_governance_action, h
    <2> QED
      BY <2>3 DEF DefaultEscalatesByFloorOnly, compute_governance_action
  <1> QED
    BY <1>1, CheckInvariant, PTL

-------------------------------------------------------------------------------
(***************************************************************************)
(* calibration.py, for any unit, lives, reviews and alarm rates.           *)
(***************************************************************************)

CalibrationInv ==
    /\ life \in MinHalfLife .. MaxHalfLife
    /\ halfLife \in Nat \ {0}
    /\ threshold \in Thresholds

LEMMA ThresholdRange ==
    MinThreshold \in Nat /\ MaxThreshold \in Nat /\ MinThreshold <= MaxThreshold
  BY CalibrationAssumption DEF MinThreshold, MaxThreshold

\* A clamp stays within its bounds.
LEMMA BetweenRange ==
    ASSUME NEW low \in Int, NEW high \in Int, low <= high, NEW x \in Int
    PROVE  Between(low, high, x) \in low .. high
  BY DEF Between

\* The two clamps of update_half_life, for a review that tells the truth.
LEMMA HalfLifeMovesToLife ==
    ASSUME NEW l \in MinHalfLife .. MaxHalfLife, NEW h \in Nat \ {0}, NEW e \in Int
    PROVE  LET g == HalfLife(h, e, e >= l)
           IN  /\ g \in Nat \ {0}
               /\ h >= l => g \in l .. h
               /\ h <= l => g \in h .. l
<1> USE DEF HalfLife, Between, MinHalfLife, MaxHalfLife
<1>1. CASE e <= 0 \/ (e >= l /\ e >= h) \/ (e < l /\ e <= h)
  BY <1>1
<1>2. CASE e > 0 /\ e >= l /\ e < h
  <2>1. h \div 2 \in Nat /\ h \div 2 < h
    OBVIOUS
  <2> QED
    BY <1>2, <2>1
<1>3. CASE e > 0 /\ e < l /\ e > h
  <2>1. h \div 2 \in Nat /\ h \div 2 < h
    OBVIOUS
  <2> QED
    BY <1>3, <2>1
<1> QED
  BY <1>1, <1>2, <1>3

\* adjust_threshold stays within its bounds, whatever the rate.
LEMMA AdjustedRange ==
    ASSUME NEW th \in Thresholds, NEW rate \in Nat
    PROVE  Adjusted(th, rate) \in Thresholds
<1>1. MinThreshold \in Nat /\ MaxThreshold \in Nat /\ MinThreshold <= MaxThreshold
  BY ThresholdRange
<1>2. ASSUME NEW error \in Nat PROVE StepFor(error) \in Nat
  <2>1. (2 * One) \div 100 \in Nat /\ error \div 2 \in Nat
    BY CalibrationAssumption
  <2> QED
    BY <2>1 DEF StepFor, Between
<1>3. Desired \in Nat /\ th \in Int
  BY CalibrationAssumption, <1>1 DEF Thresholds
<1>4. CASE rate > Desired
  <2>1. StepFor(rate - Desired) \in Nat
    BY <1>2, <1>3, <1>4
  <2> QED
    BY <1>1, <1>3, <1>4, <2>1 DEF Adjusted, Between, Thresholds
<1>5. CASE rate < Desired
  <2>1. StepFor(Desired - rate) \in Nat
    BY <1>2, <1>3, <1>5
  <2> QED
    BY <1>1, <1>3, <1>5, <2>1 DEF Adjusted, Between, Thresholds
<1>6. CASE rate = Desired
  BY <1>6, <1>3 DEF Adjusted
<1> QED
  BY <1>3, <1>4, <1>5, <1>6

LEMMA RateType ==
    ASSUME NEW th \in Thresholds PROVE Rate[th] \in Nat
  BY CalibrationAssumption

LEMMA CalibrationStart == CalibrationInit => CalibrationInv
  BY CalibrationAssumption DEF CalibrationInit, CalibrationInv

LEMMA CalibrationPreserved ==
    CalibrationInv /\ [CalibrationNext]_calibrationVars => CalibrationInv'
<1> SUFFICES ASSUME CalibrationInv, [CalibrationNext]_calibrationVars PROVE CalibrationInv'
  OBVIOUS
<1>1. ASSUME NEW e \in Elapsed, update_half_life(e) PROVE CalibrationInv'
  <2>1. e \in Int
    BY CalibrationAssumption
  <2> QED
    BY <1>1, <2>1, HalfLifeMovesToLife DEF update_half_life, CalibrationInv
<1>2. CASE adjust_threshold
  BY <1>2, AdjustedRange, RateType DEF adjust_threshold, CalibrationInv
<1>3. ASSUME NEW outcome \in BOOLEAN, update_signal_quality(outcome) PROVE CalibrationInv'
  BY <1>3 DEF update_signal_quality, CalibrationInv
<1>4. CASE UNCHANGED calibrationVars
  BY <1>4 DEF calibrationVars, CalibrationInv
<1> QED
  BY <1>1, <1>2, <1>3, <1>4 DEF CalibrationNext

LEMMA CalibrationInvariant == CalibrationSpec => []CalibrationInv
<1>1. CalibrationInit => CalibrationInv
  BY CalibrationStart
<1>2. CalibrationInv /\ [CalibrationNext]_calibrationVars => CalibrationInv'
  BY CalibrationPreserved
<1> QED
  BY <1>1, <1>2, PTL DEF CalibrationSpec

\* Whatever reviews come, early, late or far apart, the half-life moves towards the
\* true life of the node and never past it.
THEOREM HalfLifeConverges == CalibrationSpec => HalfLifeNeverOvershoots
<1> DEFINE Moves == /\ halfLife >= life => halfLife' \in life .. halfLife
                    /\ halfLife <= life => halfLife' \in halfLife .. life
<1>1. CalibrationInv /\ [CalibrationNext]_calibrationVars => [Moves]_calibrationVars
  <2> SUFFICES ASSUME CalibrationInv, CalibrationNext PROVE Moves
    OBVIOUS
  <2>1. ASSUME NEW e \in Elapsed, update_half_life(e) PROVE Moves
    <3>1. e \in Int
      BY CalibrationAssumption
    <3> QED
      BY <2>1, <3>1, HalfLifeMovesToLife DEF update_half_life, CalibrationInv
  <2>2. CASE UNCHANGED <<life, halfLife>>
    BY <2>2 DEF CalibrationInv, MinHalfLife, MaxHalfLife
  <2> QED
    BY <2>1, <2>2 DEF CalibrationNext, adjust_threshold, update_signal_quality
<1>2. CalibrationSpec => []CalibrationInv
  BY CalibrationInvariant
<1> QED
  BY <1>1, <1>2, PTL DEF CalibrationSpec, HalfLifeNeverOvershoots

-------------------------------------------------------------------------------
(***************************************************************************)
(* resilience.py, for any deadlines' day, surge limit and thresholds.      *)
(***************************************************************************)

\* The clock, the load and the thresholds are numbers.
ResilienceInv ==
    /\ overdue \in Int /\ load \in Nat
    /\ base \in Level \X Level

LEMMA ResilienceInvariant == ResilienceSpec => []ResilienceInv
<1>1. ResilienceInit => ResilienceInv
  BY ResilienceAssumption DEF ResilienceInit, ResilienceInv
<1>2. ResilienceInv /\ [ResilienceNext]_resilienceVars => ResilienceInv'
  BY DEF ResilienceNext, ClockAdvances, LoadChanges, ResilienceInv, resilienceVars
<1> QED
  BY <1>1, <1>2, PTL DEF ResilienceSpec, resilienceVars

\* Time does not take a verdict back, and a more critical node is not spared longer.
THEOREM VerdictsAreFinal == ResilienceSpec => VerdictsStand
<1> DEFINE Stands ==
       /\ \A c \in {"CRITICAL", "HIGH", "STANDARD"} :
             should_auto_suspend(c, overdue) # "none" =>
                 should_auto_suspend(c, overdue') = should_auto_suspend(c, overdue)
       /\ should_auto_suspend("STANDARD", overdue') # "none" =>
             should_auto_suspend("HIGH", overdue') # "none"
       /\ should_auto_suspend("HIGH", overdue') # "none" =>
             should_auto_suspend("CRITICAL", overdue') # "none"
<1>1. ResilienceInv /\ [ResilienceNext]_resilienceVars => [Stands]_resilienceVars
  <2> SUFFICES ASSUME ResilienceInv, ResilienceNext PROVE Stands
    OBVIOUS
  <2>1. overdue \in Int /\ overdue' \in Int /\ overdue <= overdue' /\ Day \in Nat \ {0}
    BY ResilienceAssumption DEF ResilienceInv, ResilienceNext, ClockAdvances, LoadChanges
  <2>2. \A late \in Int :
           /\ should_auto_suspend("CRITICAL", late) = IF late > 0 THEN "SUSPEND" ELSE "none"
           /\ should_auto_suspend("HIGH", late) = IF late >= Day THEN "SUSPEND" ELSE "none"
           /\ should_auto_suspend("STANDARD", late) =
                  IF late >= 14 * Day THEN "RETIRE" ELSE "none"
    BY <2>1 DEF should_auto_suspend
  <2> QED
    BY <2>1, <2>2
<1> QED
  BY <1>1, ResilienceInvariant, PTL DEF ResilienceSpec, resilienceVars, VerdictsStand

\* The code's division by the surge limit, in whole units, keeps the order.
LEMMA DivIsMonotone ==
    ASSUME NEW x \in Nat, NEW y \in Nat, x <= y, NEW c \in Nat \ {0}
    PROVE  x \div c \in Nat /\ x \div c <= y \div c
  OBVIOUS

\* The ramp of a threshold past the limit: never below its level, never falling.
LEMMA RelaxedRises ==
    ASSUME NEW level \in Nat, NEW rise \in Nat,
           NEW m \in Nat, NEW n \in Nat, SurgeLimit < m, m <= n
    PROVE  /\ Relaxed(level, m, rise) \in Nat /\ Relaxed(level, n, rise) \in Nat
           /\ level <= Relaxed(level, m, rise)
           /\ Relaxed(level, m, rise) <= Relaxed(level, n, rise)
<1> DEFINE x == Least(m - SurgeLimit, SurgeLimit)
           y == Least(n - SurgeLimit, SurgeLimit)
           c == 100 * SurgeLimit
<1>1. Scale \in Nat /\ c \in Nat \ {0} /\ x \in Nat /\ y \in Nat /\ x <= y
  BY ScaleAssumption, ResilienceAssumption DEF Least
<1>2. /\ Relaxed(level, m, rise) = level + (x * rise * Scale) \div c
      /\ Relaxed(level, n, rise) = level + (y * rise * Scale) \div c
  BY DEF Relaxed
<1> HIDE DEF x, y, c
<1>3. x * rise \in Nat /\ y * rise \in Nat /\ x * rise <= y * rise
  BY <1>1, Products
<1>4. /\ x * rise * Scale \in Nat /\ y * rise * Scale \in Nat
      /\ x * rise * Scale <= y * rise * Scale
  BY <1>1, <1>3, Products
<1>5. /\ (x * rise * Scale) \div c \in Nat /\ (y * rise * Scale) \div c \in Nat
      /\ (x * rise * Scale) \div c <= (y * rise * Scale) \div c
  <2>1. y * rise * Scale <= y * rise * Scale
    BY <1>4
  <2> QED
    BY <1>1, <1>4, <2>1, DivIsMonotone
<1> QED
  BY <1>2, <1>5

\* A threshold within its cap is never lowered when escalations pile up.
LEMMA ThresholdRises ==
    ASSUME NEW level \in Nat, NEW cap \in Nat, level <= cap,
           NEW rise \in Nat, NEW m \in Nat, NEW n \in Nat, m <= n
    PROVE  (IF m <= SurgeLimit THEN level ELSE Least(cap, Relaxed(level, m, rise)))
              <= (IF n <= SurgeLimit THEN level
                  ELSE Least(cap, Relaxed(level, n, rise)))
<1>1. SurgeLimit \in Nat
  BY ResilienceAssumption
<1>2. CASE n <= SurgeLimit
  BY <1>1, <1>2
<1>3. CASE m <= SurgeLimit /\ SurgeLimit < n
  <2>1. Relaxed(level, n, rise) \in Nat /\ level <= Relaxed(level, n, rise)
    BY <1>3, n <= n, RelaxedRises
  <2> QED
    BY <1>1, <1>3, <2>1 DEF Least
<1>4. CASE SurgeLimit < m
  <2>1. /\ Relaxed(level, m, rise) \in Nat /\ Relaxed(level, n, rise) \in Nat
        /\ Relaxed(level, m, rise) <= Relaxed(level, n, rise)
    BY <1>4, RelaxedRises
  <2> QED
    BY <1>1, <1>4, <2>1 DEF Least
<1> QED
  BY <1>1, <1>2, <1>3, <1>4

\* For every limit, load and pair of thresholds within the caps: the more escalations
\* are open, the higher both thresholds.
THEOREM SurgeIsCalm == ResilienceSpec => SurgeOnlyCalms
<1> DEFINE Calms == WithinCaps /\ load <= load' =>
              \A i \in {1, 2} : surge_calm(base, load)[i] <= surge_calm(base, load')[i]
<1>1. ResilienceInv /\ [ResilienceNext]_resilienceVars => [Calms]_resilienceVars
  <2> SUFFICES ASSUME ResilienceInv, ResilienceNext, WithinCaps, load <= load', NEW i \in {1, 2}
               PROVE  surge_calm(base, load)[i] <= surge_calm(base, load')[i]
    OBVIOUS
  <2>1. load \in Nat /\ load' \in Nat
    BY DEF ResilienceInv, ResilienceNext, ClockAdvances, LoadChanges
  <2>2. /\ base[1] \in Nat /\ base[2] \in Nat
        /\ ProvisionalCap \in Nat /\ ReviewCap \in Nat
        /\ base[1] <= ProvisionalCap /\ base[2] <= ReviewCap
    BY ScaleAssumption DEF ResilienceInv, Level, WithinCaps, ProvisionalCap, ReviewCap
  <2>3. \A n : /\ surge_calm(base, n)[1] = IF n <= SurgeLimit THEN base[1]
                       ELSE Least(ProvisionalCap, Relaxed(base[1], n, 20))
               /\ surge_calm(base, n)[2] = IF n <= SurgeLimit THEN base[2]
                       ELSE Least(ReviewCap, Relaxed(base[2], n, 15))
    BY DEF surge_calm
  <2>4. CASE i = 1
    <3>1. (IF load <= SurgeLimit THEN base[1]
           ELSE Least(ProvisionalCap, Relaxed(base[1], load, 20)))
              <= (IF load' <= SurgeLimit THEN base[1]
                  ELSE Least(ProvisionalCap, Relaxed(base[1], load', 20)))
      BY <2>1, <2>2, load <= load', 20 \in Nat, ThresholdRises
    <3> QED
      BY <2>3, <2>4, <3>1
  <2>5. CASE i = 2
    <3>1. (IF load <= SurgeLimit THEN base[2]
           ELSE Least(ReviewCap, Relaxed(base[2], load, 15)))
              <= (IF load' <= SurgeLimit THEN base[2]
                  ELSE Least(ReviewCap, Relaxed(base[2], load', 15)))
      BY <2>1, <2>2, load <= load', 15 \in Nat, ThresholdRises
    <3> QED
      BY <2>3, <2>5, <3>1
  <2> QED
    BY <2>4, <2>5
<1> QED
  BY <1>1, ResilienceInvariant, PTL DEF ResilienceSpec, resilienceVars, SurgeOnlyCalms
===============================================================================
