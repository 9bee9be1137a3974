------------------------------ MODULE Statistics ------------------------------
(***************************************************************************)
(* Sums over series, shared by csd.py and portfolio.py.  Moment(x, y) is   *)
(* the sum of the products of the deviations from the two means, times the *)
(* length: an exact integer.                                               *)
(***************************************************************************)
EXTENDS Integers, Sequences, FiniteSetsExt

Total(s) == SumFunction(s)

Moment(x, y) ==
    Len(x) * Total([k \in DOMAIN x |-> x[k] * y[k]]) - Total(x) * Total(y)

\* s[-n:], the newest n elements.
Newest(s, n) == SubSeq(s, Max({1, Len(s) - n + 1}), Len(s))
===============================================================================
