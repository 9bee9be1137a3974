------------------------------ MODULE Allocation ------------------------------
(***************************************************************************)
(* allocate_reviewer_bandwidth (src/core/engine/portfolio_optimizer.py) on *)
(* the fleet whose audit trails portfolio.py has read: every node is       *)
(* scored by the risk its review takes away per hour, then one pass in the *)
(* order of the scores takes what fits.                                    *)
(***************************************************************************)
EXTENDS Portfolio

CONSTANTS
    Positions,      \* positions of the nodes in the list the caller passes
    Fleets,     \* inputs: trails, current hazards, hours of a review, budget
    PostReview  \* post_review_hazard

ASSUME AllocationAssumption ==
    /\ Positions \subseteq Nat /\ IsFiniteSet(Positions) /\ PostReview \in Nat
    /\ \A f \in Fleets : /\ f.trails \in [Positions -> Seq(Nat)] /\ f.hazards \in [Positions -> Nat]
                         /\ f.hours \in [Positions -> Nat] /\ f.budget \in Nat

VARIABLES
    fleet,      \* the arguments
    reduction,  \* what the review of each node takes away
    todo,       \* scored nodes the greedy loop has not looked at
    selected,   \* the list to be returned
    spent,      \* cumulative_time
    pc          \* scoring, greedy loop, returned

allocationVars == <<fleet, reduction, todo, selected, spent, pc>>

\* Half hours, for a node with a time of its own in review_times or without one.
default_review_times(criticality) ==
    CASE criticality = "CRITICAL" -> 4 [] criticality = "HIGH" -> 3 [] OTHER -> 2

NodeIds == extract_hazard_series(fleet.trails)
Hazards == [i \in NodeIds |-> fleet.hazards[i]]
Covariance == compute_hazard_covariance_matrix(fleet.trails, NodeIds)

AllocationInit ==
    /\ fleet \in Fleets
    /\ reduction = [i \in {} |-> 0] /\ todo = {} /\ selected = <<>> /\ spent = 0
    /\ pc = "scoring"

\* Mutant: hazards.copy() is missing, so earlier nodes stay reviewed.
ReviewedUpTo(h, i) == [j \in DOMAIN h |-> IF j <= i THEN PostReview ELSE h[j]]

PostHazards(h, i) == [h EXCEPT ![i] = PostReview]

RiskReduction(cov, h) ==
    [i \in DOMAIN h |-> Max({0, Volatility(cov, h) - Volatility(cov, PostHazards(h, i))})]

Score ==
    /\ pc = "scoring"
    /\ reduction' = RiskReduction(Covariance, Hazards)
    /\ todo' = NodeIds
    /\ pc' = "greedy"
    /\ UNCHANGED <<fleet, selected, spent>>

\* The score as a fraction; a review that takes no time scores 0.
ScoreOf(i) == IF fleet.hours[i] > 0 THEN <<reduction[i], fleet.hours[i]>> ELSE <<0, 1>>

\* Mutant: reverse=True is missing.
LowestFirst(i, j) ==
    LET a == ScoreOf(i)[1] * ScoreOf(j)[2]
        b == ScoreOf(j)[1] * ScoreOf(i)[2]
    IN  a < b \/ (a = b /\ i <= j)

\* Sorted by score, highest first; the sort is stable.
Before(i, j) ==
    LET a == ScoreOf(i)[1] * ScoreOf(j)[2]
        b == ScoreOf(j)[1] * ScoreOf(i)[2]
    IN  a > b \/ (a = b /\ i <= j)

Best == {i \in todo : \A j \in todo : Before(i, j)}

\* Mutant: the pass ends at the first node that does not fit.
StopWhenFull(i) ==
    /\ pc = "greedy" /\ i \in Best
    /\ todo' = IF spent + fleet.hours[i] <= fleet.budget THEN todo \ {i} ELSE {}
    /\ IF spent + fleet.hours[i] <= fleet.budget
       THEN selected' = Append(selected, i) /\ spent' = spent + fleet.hours[i]
       ELSE UNCHANGED <<selected, spent>>
    /\ UNCHANGED <<fleet, reduction, pc>>

\* One iteration of the loop.
Consider(i) ==
    /\ pc = "greedy" /\ i \in Best
    /\ todo' = todo \ {i}
    /\ IF spent + fleet.hours[i] <= fleet.budget
       THEN selected' = Append(selected, i) /\ spent' = spent + fleet.hours[i]
       ELSE UNCHANGED <<selected, spent>>
    /\ UNCHANGED <<fleet, reduction, pc>>

Return ==
    /\ pc = "greedy" /\ todo = {}
    /\ pc' = "returned"
    /\ UNCHANGED <<fleet, reduction, todo, selected, spent>>

AllocationNext == Score \/ Return \/ \E i \in todo : Consider(i)

AllocationSpec == AllocationInit /\ [][AllocationNext]_allocationVars
-------------------------------------------------------------------------------
Chosen == {selected[k] : k \in DOMAIN selected}

Budget == INSTANCE ReviewBudget WITH
    Nodes <- Positions, offered <- NodeIds, hours <- fleet.hours, budget <- fleet.budget,
    chosen <- Chosen, spent <- spent, closed <- (pc = "returned")

\* The greedy loop implements ReviewBudget: it never overspends, and although each
\* node is looked at once, early on, nothing that was passed over fits at the end.
BudgetSpec == Budget!Spec

HoursOf(S) == SumFunctionOnSet(fleet.hours, S)
ReductionOf(S) == SumFunctionOnSet(reduction, S)

\* No choice within the budget is worth more than the allocation and one skipped
\* review together: ranking by reduction per hour loses at most one review.
WithinOneReview ==
    pc = "returned" =>
        \A S \in SUBSET NodeIds : HoursOf(S) <= fleet.budget =>
            \/ ReductionOf(S) <= ReductionOf(Chosen)
            \/ \E i \in NodeIds \ Chosen : ReductionOf(S) <= ReductionOf(Chosen) + reduction[i]

\* The decomposition of portfolio.py and the optimizer's recomputation agree on
\* hedges: a node whose risk contribution is not positive is never worth a review.
HedgesNeverPay ==
    pc = "greedy" => \A i \in NodeIds :
        RiskContribution(Covariance, Hazards, i) <= 0 /\ PostReview <= Hazards[i]
            => reduction[i] = 0

\* One alignment for all series makes the matrix a covariance, whatever lengths the
\* trails have: no portfolio of hazards has a negative variance for max() to hide.
VarianceNeverNegative == pc = "scoring" => Variance(Covariance, Hazards) >= 0

\* "respecting time budget" and "actual portfolio risk reduction" (portfolio_optimizer
\* .py): reviewing the whole list does not raise the risk.
ReviewsNeverHurt ==
    pc = "returned" =>
        Volatility(Covariance, [i \in NodeIds |-> IF i \in Chosen THEN PostReview ELSE Hazards[i]])
            <= Volatility(Covariance, Hazards)
===============================================================================
