------------------------------ MODULE Resilience ------------------------------
(***************************************************************************)
(* src/core/orchestrator/resilience.py: what happens to a node whose       *)
(* review is overdue, and how a surge of escalations relaxes the           *)
(* thresholds.  A caller asks again and again while the clock runs and the *)
(* load changes.                                                           *)
(***************************************************************************)
EXTENDS Reliability

CONSTANTS
    Day,        \* units of the clock in 24 hours
    MaxOverdue, \* bound on the clock, counted from the deadline
    SurgeLimit, \* surge_calm's threshold of active escalations
    MaxLoad,    \* bound on the active escalations
    Bases       \* pairs of configured thresholds: provisional, review

ProvisionalCap == (9 * Scale) \div 10
ReviewCap == (8 * Scale) \div 10

ASSUME ResilienceAssumption ==
    /\ Day \in Nat \ {0}
    /\ MaxOverdue \in Nat /\ SurgeLimit \in Nat \ {0} /\ MaxLoad \in Nat
    /\ Bases \subseteq Level \X Level

VARIABLES
    overdue,  \* now - deadline, negative before it
    load,     \* active escalations
    base      \* the configured thresholds

resilienceVars == <<overdue, load, base>>

ResilienceInit == overdue = -1 /\ load = 0 /\ base \in Bases

\* Mutant: the hours of the lateness are taken without its days (timedelta.seconds).
HoursWithoutDays(criticality, late) ==
    CASE late <= 0 -> "none"
      [] late > 0 /\ criticality = "CRITICAL" -> "SUSPEND"
      [] late % Day >= Day /\ criticality = "HIGH" -> "SUSPEND"
      [] late >= 14 * Day /\ criticality = "STANDARD" -> "RETIRE"
      [] OTHER -> "none"

should_auto_suspend(criticality, late) ==
    CASE late <= 0 -> "none"
      [] late > 0 /\ criticality = "CRITICAL" -> "SUSPEND"
      [] late >= Day /\ criticality = "HIGH" -> "SUSPEND"
      [] late >= 14 * Day /\ criticality = "STANDARD" -> "RETIRE"
      [] OTHER -> "none"

\* ramp is min(n - SurgeLimit, SurgeLimit) / SurgeLimit.
Relaxed(level, n, rise) ==
    level + (Least(n - SurgeLimit, SurgeLimit) * rise * Scale) \div (100 * SurgeLimit)

\* Mutant: the two caps are swapped.
CapsSwapped(b, n) ==
    IF n <= SurgeLimit THEN b
    ELSE <<Least(ReviewCap, Relaxed(b[1], n, 20)), Least(ProvisionalCap, Relaxed(b[2], n, 15))>>

surge_calm(b, n) ==
    IF n <= SurgeLimit THEN b
    ELSE <<Least(ProvisionalCap, Relaxed(b[1], n, 20)), Least(ReviewCap, Relaxed(b[2], n, 15))>>

ClockAdvances ==
    /\ overdue < MaxOverdue
    /\ overdue' = overdue + 1
    /\ UNCHANGED <<load, base>>

LoadChanges ==
    /\ load' \in {n \in {load - 1, load + 1} : n \in 0 .. MaxLoad}
    /\ UNCHANGED <<overdue, base>>

ResilienceNext == ClockAdvances \/ LoadChanges

ResilienceSpec == ResilienceInit /\ [][ResilienceNext]_resilienceVars
-------------------------------------------------------------------------------
\* Time does not take a verdict back, and a more critical node never waits longer
\* for one (should_auto_suspend at its three deadlines).
VerdictsStand ==
    [][/\ \A c \in {"CRITICAL", "HIGH", "STANDARD"} :
             should_auto_suspend(c, overdue) # "none" =>
                 should_auto_suspend(c, overdue') = should_auto_suspend(c, overdue)
       /\ should_auto_suspend("STANDARD", overdue') # "none" =>
             should_auto_suspend("HIGH", overdue') # "none"
       /\ should_auto_suspend("HIGH", overdue') # "none" =>
             should_auto_suspend("CRITICAL", overdue') # "none"]_resilienceVars

\* More escalations never make the engine stricter, as long as the configured
\* thresholds are within surge_calm's own caps.
WithinCaps == base[1] <= ProvisionalCap /\ base[2] <= ReviewCap

SurgeOnlyCalms ==
    [][WithinCaps /\ load <= load' =>
          \A i \in {1, 2} : surge_calm(base, load)[i] <= surge_calm(base, load')[i]]_resilienceVars

\* "surge-calm" (README): also for a threshold above the cap, which is allowed.
SurgeCalmsAll ==
    [][load <= load' =>
          \A i \in {1, 2} : surge_calm(base, load)[i] <= surge_calm(base, load')[i]]_resilienceVars
===============================================================================
