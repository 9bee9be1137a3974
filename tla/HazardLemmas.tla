----------------------------- MODULE HazardLemmas -----------------------------
(***************************************************************************)
(* What the operators of Reliability and Hazard return, preserve and bound,*)
(* for every scale, every vector and every configuration that              *)
(* validate_cost_config lets through.  The theorems about the modules that *)
(* are built from these operators cite the lemmas below.                   *)
(***************************************************************************)
EXTENDS Hazard, TLAPS

(***************************************************************************)
(* What the operators of the pipeline return.                              *)
(***************************************************************************)

\* Whatever a shock subtracts, _clamp returns a reliability.
LEMMA ClampIsLevel ==
    ASSUME NEW v \in Int
    PROVE  Clamp(v) \in Level
  <1>1. Epsilon \in Nat
    BY ScaleAssumption DEF Epsilon
  <1> QED
    BY <1>1, ScaleAssumption DEF Clamp, Level

\* The new vector of a pipeline run is a vector of reliabilities.
LEMMA ComputedIsVector ==
    ASSUME NEW R \in Vector, NEW elapsed \in Int, NEW x \in Level, NEW b \in ShockBatch
    PROVE  compute_reliability_vector(R, elapsed, x, b) \in Vector
  <1>1. Scale \in Int /\ Scale \in Level /\ MinorStep \in Int
        /\ BreakingLevel \in Level /\ MajorLevel \in Level
    BY ScaleAssumption DEF Level, MinorStep, BreakingLevel, MajorLevel
  <1>2. R["s"] \in Level /\ R["p"] \in Level /\ R["c"] \in Level /\ R["r"] \in Level
    BY DEF Vector, Axes
  <1>a. R["s"] \in Int /\ R["p"] \in Int /\ R["c"] \in Int /\ R["r"] \in Int /\ x \in Int
    BY <1>2 DEF Level
  <1>3. b.drift \in Int /\ b.macro \in Int /\ b.minor \in Nat
    BY DEF ShockBatch
  <1>4. update_axis_structural(R["s"], b.structural) \in Level
    BY <1>1, <1>a, ClampIsLevel DEF update_axis_structural
  <1>5. update_axis_performance(R["p"], b.drift) \in Level
    <2>1. R["p"] - Least(b.drift, Scale) \in Int
      BY <1>1, <1>a, <1>3 DEF Least
    <2> QED
      BY <2>1, ClampIsLevel DEF update_axis_performance
  <1>6. update_axis_context(R["c"], b.macro) \in Level
    <2>1. R["c"] - Least(b.macro, Scale) \in Int
      BY <1>1, <1>a, <1>3 DEF Least
    <2> QED
      BY <2>1, ClampIsLevel DEF update_axis_context
  <1>7. update_axis_regulatory(R["r"], b.major, b.minor) \in Level
    <2>1. R["r"] - MinorStep * b.minor \in Int
      BY <1>1, <1>a, <1>3
    <2> QED
      BY <2>1, <1>1, ClampIsLevel DEF update_axis_regulatory
  <1>8. update_axis_temporal(elapsed, x) \in Level
    BY <1>1, <1>a, ClampIsLevel DEF update_axis_temporal
  <1> QED
    BY <1>4, <1>5, <1>6, <1>7, <1>8 DEF compute_reliability_vector, Vector, Axes

\* With more time and a lower exponential no more freshness is left.
LEMMA TemporalFalls ==
    ASSUME NEW d \in Int, NEW e \in Int, d <= e, NEW x \in Level, NEW y \in Level, y <= x
    PROVE  /\ update_axis_temporal(e, y) \in Level
           /\ update_axis_temporal(e, y) <= update_axis_temporal(d, x)
  <1>1. Scale \in Nat /\ Epsilon \in Nat
    BY ScaleAssumption DEF Epsilon
  <1> QED
    BY <1>1 DEF update_axis_temporal, Clamp, Level

\* The pipeline never suggests a status outside the first three rungs.
LEMMA SuggestionIsStatus ==
    ASSUME NEW R, NEW cfg
    PROVE  SuggestedStatus(R, cfg) \in {"ACTIVE", "PROVISIONAL", "IN_REVIEW"}
  BY DEF SuggestedStatus, TargetStatus

\* Severities are numbers.
LEMMA SeverityIsNat == \A st \in Statuses : Severity(st) \in Nat
  BY DEF Severity, Statuses

-------------------------------------------------------------------------------
\* What POST /config/cost can store.
Stored == {cfg \in CostConfigs : ValidCostConfig(cfg)}

\* S is at least as bad as T on every axis.
Below(S, T) == \A a \in Axes : S[a] <= T[a]

(***************************************************************************)
(* Arithmetic of the aggregations.                                         *)
(***************************************************************************)

LEMMA Products ==
    \A a, x, y \in Nat : a * x \in Nat /\ (x <= y => a * x <= a * y /\ x * a <= y * a)
  <1> SUFFICES ASSUME NEW a \in Nat, NEW x \in Nat, NEW y \in Nat
               PROVE  a * x \in Nat /\ (x <= y => a * x <= a * y /\ x * a <= y * a)
    OBVIOUS
  <1>1. a * x \in Nat
    OBVIOUS
  <1>2. ASSUME x <= y PROVE a * x <= a * y /\ x * a <= y * a
    <2>1. PICK d \in Nat : y = x + d
      BY <1>2, y - x \in Nat
    <2>2. a * y = a * x + a * d /\ y * a = x * a + d * a /\ a * d \in Nat /\ d * a \in Nat
      BY <2>1
    <2> QED
      BY <2>2
  <1> QED
    BY <1>1, <1>2

LEMMA CappedIsMonotone ==
    /\ \A x \in Int : Capped(x) \in Int /\ 0 <= Capped(x) /\ Capped(x) <= HazardUnit
    /\ \A x, y \in Int : x <= y => Capped(x) <= Capped(y)
  <1>1. HazardUnit \in Nat
    BY ScaleAssumption, Products DEF HazardUnit
  <1> QED
    BY <1>1 DEF Capped

LEMMA SumIsMonotone ==
    ASSUME NEW f \in [Axes -> Nat], NEW g \in [Axes -> Nat], \A a \in Axes : f[a] <= g[a]
    PROVE  SumOver(f) \in Nat /\ SumOver(f) <= SumOver(g)
  BY DEF SumOver, Axes

\* Five numbers have a largest one.
LEMMA MaxIsLargest ==
    ASSUME NEW f \in [Axes -> Nat]
    PROVE  /\ MaxOver(f) \in {f[a] : a \in Axes}
           /\ \A a \in Axes : f[a] <= MaxOver(f)
  <1> DEFINE larger(x, y) == IF x < y THEN y ELSE x
             v == {f[a] : a \in Axes}
             m == larger(f["s"], larger(f["p"], larger(f["c"], larger(f["r"], f["t"]))))
  <1>1. /\ f["s"] \in Nat /\ f["p"] \in Nat /\ f["c"] \in Nat /\ f["r"] \in Nat /\ f["t"] \in Nat
        /\ v = {f["s"], f["p"], f["c"], f["r"], f["t"]}
    BY DEF Axes
  <1>2. m \in v
    BY <1>1
  <1>3. \A a \in Axes : f[a] <= m
    BY <1>1 DEF Axes
  <1>4. \E x \in v : \A a \in Axes : f[a] <= x
    BY <1>2, <1>3
  <1> QED
    BY <1>4 DEF MaxOver

LEMMA MaxIsMonotone ==
    ASSUME NEW f \in [Axes -> Nat], NEW g \in [Axes -> Nat], \A a \in Axes : f[a] <= g[a]
    PROVE  MaxOver(f) \in Nat /\ MaxOver(f) <= MaxOver(g)
  <1>1. PICK a \in Axes : MaxOver(f) = f[a]
    BY MaxIsLargest
  <1>2. f[a] <= g[a] /\ g[a] <= MaxOver(g) /\ MaxOver(g) \in Nat /\ f[a] \in Nat /\ g[a] \in Nat
    BY MaxIsLargest
  <1> QED
    BY <1>1, <1>2

-------------------------------------------------------------------------------
(***************************************************************************)
(* The ladder of statuses.                                                 *)
(***************************************************************************)

\* How far up a result's status stands.
Rung(result) == Severity(TargetStatus(result[1]))

LEMMA Rungs ==
    \A h, reason : /\ Rung(<<"ESCALATE", h, reason>>) = 2
                   /\ Rung(<<"PROVISIONAL", h, reason>>) = 1
                   /\ Rung(<<"ACTIVE", h, reason>>) = 0
  BY DEF Rung, TargetStatus, Severity

\* The numbers of a stored configuration.
LEMMA StoredTyped ==
    ASSUME NEW cfg \in Stored
    PROVE  /\ cfg.weights \in [Axes -> Nat] /\ cfg.C_err \in Nat /\ cfg.C_int \in Nat
           /\ cfg.provisional_hazard \in Nat /\ cfg.floor_axes \in [Axes -> Level]
           /\ cfg.hazard_mode \in Modes /\ cfg.dominant_axes \in [Axes -> Int]
  <1>1. cfg.weights \in [Axes -> Int] /\ \A a \in Axes : cfg.weights[a] \in Nat
    BY DEF Stored, CostConfigs, ValidCostConfig
  <1>2. cfg.floor_axes \in [Axes -> Int] /\ \A a \in Axes : cfg.floor_axes[a] \in Level
    BY DEF Stored, CostConfigs, ValidCostConfig
  <1>3. /\ cfg.C_err \in Nat /\ cfg.C_int \in Nat /\ cfg.provisional_hazard \in Nat
        /\ cfg.hazard_mode \in Modes /\ cfg.dominant_axes \in [Axes -> Int]
    BY ScaleAssumption DEF Stored, CostConfigs, ValidCostConfig, Level
  <1> QED
    BY <1>1, <1>2, <1>3

\* A higher hazard never stands lower on the cost and threshold rungs.
LEMMA LadderIsMonotone ==
    ASSUME NEW cfg \in Stored, NEW g \in Nat, NEW h \in Nat, g <= h
    PROVE  /\ Rung(CostLadder(g, cfg)) \in 0 .. 2
           /\ Rung(CostLadder(g, cfg)) <= Rung(CostLadder(h, cfg))
  <1>1. /\ cfg.C_err \in Nat /\ g * cfg.C_err <= h * cfg.C_err
        /\ g * cfg.C_err \in Int /\ h * cfg.C_err \in Int /\ cfg.C_int * HazardUnit \in Int
        /\ cfg.provisional_hazard * Scale * Scale \in Int
    BY StoredTyped, Products, ScaleAssumption DEF HazardUnit
  <1>2. CostExceeded(g, cfg) => CostExceeded(h, cfg)
    BY <1>1 DEF CostExceeded
  <1>3. g >= cfg.provisional_hazard * Scale * Scale => h >= cfg.provisional_hazard * Scale * Scale
    BY <1>1
  <1>4. \A k : Rung(CostLadder(k, cfg)) =
            IF CostExceeded(k, cfg) THEN 2
            ELSE IF k >= cfg.provisional_hazard * Scale * Scale THEN 1 ELSE 0
    BY Rungs DEF CostLadder
  <1> QED
    BY <1>2, <1>3, <1>4

\* The five terms of the linear and of the quadratic sum.
Linear(R, cfg) == [a \in Axes |-> cfg.weights[a] * Degradation(R, a) * Scale]
Square(R, cfg) == [a \in Axes |-> cfg.weights[a] * Degradation(R, a) * Degradation(R, a)]

LEMMA DegradationOfVector ==
    ASSUME NEW T \in Vector, NEW a \in Axes
    PROVE  /\ Degradation(T, a) = Scale - T[a]
           /\ Degradation(T, a) \in Nat /\ Degradation(T, a) <= Scale
  BY ScaleAssumption DEF Degradation, Vector, Level

LEMMA TermsTyped ==
    ASSUME NEW cfg \in Stored, NEW T \in Vector
    PROVE  Linear(T, cfg) \in [Axes -> Nat] /\ Square(T, cfg) \in [Axes -> Nat]
  <1>1. ASSUME NEW a \in Axes
        PROVE  /\ cfg.weights[a] * Degradation(T, a) * Scale \in Nat
               /\ cfg.weights[a] * Degradation(T, a) * Degradation(T, a) \in Nat
    <2>1. cfg.weights[a] \in Nat /\ Degradation(T, a) \in Nat /\ Scale \in Nat
      BY StoredTyped, DegradationOfVector, ScaleAssumption
    <2> QED
      BY <2>1, Products
  <1> QED
    BY <1>1 DEF Linear, Square

\* The worse vector has the larger terms.
LEMMA TermsAreMonotone ==
    ASSUME NEW cfg \in Stored, NEW S \in Vector, NEW T \in Vector, Below(S, T), NEW a \in Axes
    PROVE  /\ Linear(T, cfg)[a] <= Linear(S, cfg)[a]
           /\ Square(T, cfg)[a] <= Square(S, cfg)[a]
  <1> DEFINE w == cfg.weights[a]  d == Degradation(T, a)  e == Degradation(S, a)
  <1>1. w \in Nat /\ d \in Nat /\ e \in Nat /\ Scale \in Nat /\ d <= Scale /\ d <= e
    <2>1. S[a] \in Int /\ T[a] \in Int /\ S[a] <= T[a]
      BY ScaleAssumption DEF Vector, Level, Below
    <2> QED
      BY <2>1, StoredTyped, DegradationOfVector, ScaleAssumption
  <1> HIDE DEF w, d, e
  <1>2. w * d \in Nat /\ w * e \in Nat /\ w * d <= w * e
    BY <1>1, Products
  <1>3. w * d * Scale <= w * e * Scale
    BY <1>1, <1>2, Products
  <1>4. w * d * d <= w * e * d /\ w * e * d <= w * e * e
    BY <1>1, <1>2, Products
  <1>5. w * d * d \in Nat /\ w * e * d \in Nat /\ w * e * e \in Nat
    BY <1>1, <1>2, Products
  <1> QED
    BY <1>3, <1>4, <1>5 DEF Linear, Square, w, d, e

\* Whatever the mode, the worse vector has the higher hazard.
LEMMA HazardIsMonotone ==
    ASSUME NEW cfg \in Stored, NEW S \in Vector, NEW T \in Vector, Below(S, T)
    PROVE  /\ NonlinearHazard(T, cfg) \in Nat
           /\ NonlinearHazard(T, cfg) <= NonlinearHazard(S, cfg)
  <1>1. /\ Linear(T, cfg) \in [Axes -> Nat] /\ Linear(S, cfg) \in [Axes -> Nat]
        /\ Square(T, cfg) \in [Axes -> Nat] /\ Square(S, cfg) \in [Axes -> Nat]
    BY TermsTyped
  <1>2. \A a \in Axes : /\ Linear(T, cfg)[a] <= Linear(S, cfg)[a]
                        /\ Square(T, cfg)[a] <= Square(S, cfg)[a]
    BY TermsAreMonotone
  <1>3. /\ SumOver(Linear(T, cfg)) \in Nat /\ SumOver(Linear(S, cfg)) \in Nat
        /\ SumOver(Linear(T, cfg)) <= SumOver(Linear(S, cfg))
    BY <1>1, <1>2, SumIsMonotone
  <1>4. /\ SumOver(Square(T, cfg)) \in Nat /\ SumOver(Square(S, cfg)) \in Nat
        /\ SumOver(Square(T, cfg)) <= SumOver(Square(S, cfg))
    BY <1>1, <1>2, SumIsMonotone
  <1>5. /\ MaxOver(Linear(T, cfg)) \in Nat /\ MaxOver(Linear(S, cfg)) \in Nat
        /\ MaxOver(Linear(T, cfg)) <= MaxOver(Linear(S, cfg))
    BY <1>1, <1>2, MaxIsMonotone
  <1>6. \A V : NonlinearHazard(V, cfg) = Capped(
            IF cfg.hazard_mode = "max" THEN MaxOver(Linear(V, cfg))
            ELSE IF cfg.hazard_mode = "quadratic" THEN SumOver(Square(V, cfg))
            ELSE SumOver(Linear(V, cfg)))
    BY DEF NonlinearHazard, Linear, Square
  <1> QED
    BY <1>3, <1>4, <1>5, <1>6, CappedIsMonotone

\* The two implementations compute the same weighted average.
LEMMA LinearHazardAgrees ==
    ASSUME NEW cfg \in Stored, NEW T \in Vector
    PROVE  LinearHazard(T, cfg) = NonlinearHazard(T, [cfg EXCEPT !.hazard_mode = "linear"])
  <1> DEFINE lin == [cfg EXCEPT !.hazard_mode = "linear"]
  <1>1. lin.hazard_mode = "linear" /\ lin.weights = cfg.weights
    BY DEF Stored, CostConfigs
  <1>2. NonlinearHazard(T, lin) =
            Capped(SumOver([a \in Axes |-> cfg.weights[a] * Degradation(T, a) * Scale]))
    BY <1>1 DEF NonlinearHazard
  <1>3. [a \in Axes |-> cfg.weights[a] * (Scale - T[a]) * Scale]
            = [a \in Axes |-> cfg.weights[a] * Degradation(T, a) * Scale]
    BY DegradationOfVector
  <1> QED
    BY <1>2, <1>3 DEF LinearHazard

-------------------------------------------------------------------------------
(***************************************************************************)
(* From the hazard to the status.                                          *)
(***************************************************************************)

\* Whatever its mode, a stored configuration could be stored.
LEMMA AnyModeIsStored ==
    ASSUME NEW cfg \in Stored, NEW mode \in Modes
    PROVE  [cfg EXCEPT !.hazard_mode = mode] \in Stored
  BY DEF Stored, CostConfigs, ValidCostConfig

\* Rungs of the two functions.
LEMMA RungOfFunctions ==
    ASSUME NEW cfg, NEW T
    PROVE  /\ Rung(compute_governance_action(T, cfg)) =
                  IF FloorViolated(T, cfg) THEN 2 ELSE Rung(CostLadder(LinearHazard(T, cfg), cfg))
           /\ Rung(compute_governance_action_nonlinear(T, cfg)) =
                  IF FloorViolated(T, cfg) \/ GateCrossed(T, cfg) THEN 2
                  ELSE Rung(CostLadder(NonlinearHazard(T, cfg), cfg))
  BY Rungs DEF compute_governance_action, compute_governance_action_nonlinear

\* For every stored configuration, mode and pair of vectors: the worse one never gets
\* the milder status.
LEMMA WorseIsNeverMilder ==
    ASSUME NEW cfg \in Stored, NEW S \in Vector, NEW T \in Vector, Below(S, T)
    PROVE  Rung(Suggested(T, cfg)) <= Rung(Suggested(S, cfg))
  <1>1. FloorViolated(T, cfg) => FloorViolated(S, cfg)
    <2>1. \A a \in Axes : /\ S[a] \in Int /\ T[a] \in Int /\ cfg.floor_axes[a] \in Int
                          /\ S[a] <= T[a]
      BY StoredTyped, ScaleAssumption DEF Vector, Level, Below
    <2> QED
      BY <2>1 DEF FloorViolated
  <1>2. GateCrossed(T, cfg) => GateCrossed(S, cfg)
    <2>1. \A a \in Axes : /\ Degradation(S, a) \in Int /\ Degradation(T, a) \in Int
                          /\ cfg.dominant_axes[a] \in Int
                          /\ Degradation(T, a) <= Degradation(S, a)
      BY StoredTyped, DegradationOfVector, ScaleAssumption DEF Vector, Level, Below
    <2> QED
      BY <2>1 DEF GateCrossed
  <1>3. /\ Rung(CostLadder(NonlinearHazard(T, cfg), cfg)) \in 0 .. 2
        /\ Rung(CostLadder(NonlinearHazard(T, cfg), cfg))
               <= Rung(CostLadder(NonlinearHazard(S, cfg), cfg))
    <2>1. NonlinearHazard(T, cfg) \in Nat /\ NonlinearHazard(S, cfg) \in Nat
          /\ NonlinearHazard(T, cfg) <= NonlinearHazard(S, cfg)
      BY HazardIsMonotone, \A x \in Vector : Below(x, x) DEF Below, Vector, Level
    <2> QED
      BY <2>1, LadderIsMonotone
  <1>4. /\ Rung(CostLadder(LinearHazard(T, cfg), cfg)) \in 0 .. 2
        /\ Rung(CostLadder(LinearHazard(T, cfg), cfg))
               <= Rung(CostLadder(LinearHazard(S, cfg), cfg))
    <2> DEFINE lin == [cfg EXCEPT !.hazard_mode = "linear"]
    <2>1. lin \in Stored
      BY AnyModeIsStored DEF Modes
    <2>2. LinearHazard(T, cfg) = NonlinearHazard(T, lin) /\ LinearHazard(S, cfg) = NonlinearHazard(S, lin)
      BY LinearHazardAgrees
    <2> HIDE DEF lin
    <2>3. Below(S, S)
      BY ScaleAssumption DEF Below, Vector, Level
    <2>4. NonlinearHazard(T, lin) \in Nat /\ NonlinearHazard(S, lin) \in Nat
          /\ NonlinearHazard(T, lin) <= NonlinearHazard(S, lin)
      BY <2>1, <2>3, HazardIsMonotone
    <2> QED
      BY <2>2, <2>4, LadderIsMonotone
  <1>5. \A V \in {S, T} : Rung(CostLadder(LinearHazard(V, cfg), cfg)) \in 0 .. 2
                       /\ Rung(CostLadder(NonlinearHazard(V, cfg), cfg)) \in 0 .. 2
    <2>1. \A h : Rung(CostLadder(h, cfg)) \in 0 .. 2
      BY Rungs DEF CostLadder
    <2> QED
      BY <2>1
  <1>6. CASE cfg.hazard_mode = "linear"
    BY <1>1, <1>4, <1>5, <1>6, RungOfFunctions DEF Suggested
  <1>7. CASE cfg.hazard_mode # "linear"
    BY <1>1, <1>2, <1>3, <1>5, <1>7, RungOfFunctions DEF Suggested
  <1> QED
    BY <1>6, <1>7
===============================================================================
