----------------------------- MODULE MCCalibration -----------------------------
(***************************************************************************)
(* Calibration for TLC: what false alarms each threshold causes.           *)
(***************************************************************************)
EXTENDS Calibration

\* In hundredths: alarms fall, stay on target, and fall below it.
FalseAlarms == [t \in Thresholds |-> IF t < 20 THEN 60 - t ELSE IF t > 60 THEN 2 ELSE 10]
===============================================================================
