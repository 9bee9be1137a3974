----------------------------- MODULE Calibration ------------------------------
(***************************************************************************)
(* src/core/engine/calibration.py: what a human review teaches about a     *)
(* signal and about a node's half-life, and the adaptation of a threshold  *)
(* to the false alarms it causes.  The functions are pure; here a caller   *)
(* hands each of them its own last result.                                 *)
(*                                                                         *)
(* Days are integers and thresholds and rates multiples of 1/One; what     *)
(* the code halves is rounded down.                                        *)
(***************************************************************************)
EXTENDS Integers

CONSTANTS
    One,         \* 1.0 of the code
    Lives,       \* after how many days a node may really be stale
    Elapsed,     \* days between a validation and a review
    Estimates,   \* half-lives a node may start from
    Rate,        \* Rate[th]: the false-positive rate a threshold causes
    Desired,     \* desired_fpr
    MaxReviews   \* bound on the reviews that count for one signal

MinHalfLife == 5
MaxHalfLife == 365 * 5

MinThreshold == One \div 100
MaxThreshold == One - MinThreshold
Thresholds == MinThreshold .. MaxThreshold

\* A higher threshold cannot cause more alarms.
ASSUME CalibrationAssumption ==
    /\ One \in Nat /\ One >= 100
    /\ Lives \subseteq MinHalfLife .. MaxHalfLife
    /\ Elapsed \subseteq Int /\ Estimates \subseteq Nat \ {0}
    /\ Rate \in [Thresholds -> Nat] /\ Desired \in Nat
    /\ \A x, y \in Thresholds : x <= y => Rate[y] <= Rate[x]
    /\ MaxReviews \in Nat

VARIABLES
    life,        \* the days after which the node really is stale
    halfLife,    \* the current estimate
    threshold,   \* the governance threshold under adaptation
    alpha, beta  \* the Beta distribution of one signal's quality

calibrationVars == <<life, halfLife, threshold, alpha, beta>>

CalibrationInit ==
    /\ life \in Lives /\ halfLife \in Estimates
    /\ threshold \in Thresholds
    /\ alpha = 1 /\ beta = 1

Between(low, high, x) == IF x < low THEN low ELSE IF x > high THEN high ELSE x

\* Mutant: any review after the half-life lengthens it, of a stale node too.
LengthenAlways(h, elapsed, stale) ==
    IF elapsed <= 0 THEN h
    ELSE Between(MinHalfLife, MaxHalfLife,
             IF (stale /\ elapsed < h) \/ elapsed > h
             THEN Between(h \div 2, 2 * h, elapsed) ELSE h)

\* h times the ratio elapsed/h, the ratio kept within 0.5 and 2, where the review
\* contradicts the estimate.
HalfLife(h, elapsed, stale) ==
    IF elapsed <= 0 THEN h
    ELSE Between(MinHalfLife, MaxHalfLife,
             IF (stale /\ elapsed < h) \/ (~stale /\ elapsed > h)
             THEN Between(h \div 2, 2 * h, elapsed) ELSE h)

\* A review finds the node stale exactly when its life is over.
update_half_life(elapsed) ==
    /\ halfLife' = HalfLife(halfLife, elapsed, elapsed >= life)
    /\ UNCHANGED <<life, threshold, alpha, beta>>

StepFor(error) == Between(0, (2 * One) \div 100, error \div 2)

Adjusted(th, rate) ==
    IF rate = Desired THEN th
    ELSE Between(MinThreshold, MaxThreshold,
             IF rate > Desired THEN th - StepFor(rate - Desired)
                               ELSE th + StepFor(Desired - rate))

adjust_threshold ==
    /\ threshold' = Adjusted(threshold, Rate[threshold])
    /\ UNCHANGED <<life, halfLife, alpha, beta>>

update_signal_quality(outcome) ==
    /\ alpha > 0 /\ beta > 0 /\ alpha + beta < MaxReviews + 2
    /\ IF outcome THEN alpha' = alpha + 1 /\ beta' = beta
                  ELSE alpha' = alpha /\ beta' = beta + 1
    /\ UNCHANGED <<life, halfLife, threshold>>

CalibrationNext ==
    \/ \E e \in Elapsed : update_half_life(e)
    \/ adjust_threshold
    \/ \E outcome \in BOOLEAN : update_signal_quality(outcome)

CalibrationSpec == CalibrationInit /\ [][CalibrationNext]_calibrationVars
-------------------------------------------------------------------------------
\* The estimate goes towards the true life and never past it, however early, late
\* or far apart the reviews are (update_half_life with its two clamps).
HalfLifeNeverOvershoots ==
    [][/\ halfLife >= life => halfLife' \in life .. halfLife
       /\ halfLife <= life => halfLife' \in halfLife .. life]_calibrationVars

\* "Adjust a governance threshold toward a desired false-positive rate"
\* (calibration.py): no adjustment takes the rate that follows from it further from
\* the target.  A run acts when the hazard reaches the threshold (pipeline.py), so a
\* threshold lowered on false alarms causes more of them.
Distance(th) == IF Rate[th] > Desired THEN Rate[th] - Desired ELSE Desired - Rate[th]
TowardDesiredRate == [][Distance(threshold') <= Distance(threshold)]_calibrationVars
===============================================================================
