------------------------------ MODULE Portfolio -------------------------------
(***************************************************************************)
(* src/core/engine/portfolio.py: the covariance of the hazards that the    *)
(* audit trail recorded, and the risk a fleet of nodes bears together.     *)
(*                                                                         *)
(* trails[i] is the hazard series of the i-th node asked for, oldest       *)
(* first, in integer units.  A covariance is numpy's times L(L-1), where L *)
(* is the common length: one positive factor, which no comparison sees.    *)
(***************************************************************************)
EXTENDS Statistics

CONSTANT MinHistory   \* extract_hazard_series' min_history

ASSUME HistoryAssumption == MinHistory \in Nat /\ MinHistory >= 2

\* The nodes with a series.
extract_hazard_series(trails) == {i \in DOMAIN trails : Len(trails[i]) >= MinHistory}

\* Every series cut to the length of the shortest, its newest values kept.
Aligned(trails, S) ==
    LET L == Min({Len(trails[j]) : j \in S}) IN [i \in S |-> Newest(trails[i], L)]

\* Mutant: each pair of nodes over all the values both have (12 is a multiple of
\* L(L-1) for the lengths the runs use).
PairwiseCovariance(trails, S) ==
    LET cov(i, j) ==
            LET x == Aligned(trails, {i, j})
                L == Len(x[i])
            IN  Moment(x[i], x[j]) * (12 \div (L * (L - 1)))
    IN  [i \in S |-> [j \in S |-> IF Cardinality(S) < 2 THEN 0 ELSE cov(i, j)]]

\* numpy.cov; a single node has no covariance.
compute_hazard_covariance_matrix(trails, S) ==
    LET x == Aligned(trails, S)
    IN  [i \in S |-> [j \in S |-> IF Cardinality(S) < 2 THEN 0 ELSE Moment(x[i], x[j])]]

\* Row i of Sigma @ H.
SigmaH(cov, h, i) == SumFunction([j \in DOMAIN h |-> cov[i][j] * h[j]])

Variance(cov, h) == SumFunction([i \in DOMAIN h |-> h[i] * SigmaH(cov, h, i)])

\* The square root, rounded down.
Volatility(cov, h) ==
    LET v == Max({0, Variance(cov, h)})
    IN  CHOOSE r \in 0 .. v : r * r <= v /\ v < (r + 1) * (r + 1)

\* RC_i times the volatility; all are 0 where there is none.
RiskContribution(cov, h, i) == IF Volatility(cov, h) = 0 THEN 0 ELSE h[i] * SigmaH(cov, h, i)
===============================================================================
