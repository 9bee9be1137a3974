----------------------------- MODULE MCGovernance -----------------------------
(***************************************************************************)
(* Instances of Governance for TLC: tenths for reliability, three kinds of *)
(* cost configuration, signals of the four classes the pipeline reads.     *)
(***************************************************************************)
EXTENDS Governance, TLC

CONSTANTS n1, n2, n3

\* An active row a deployment could set: intervention is cheap, and a drop of
\* more than half of the performance axis escalates at once.
GatedConfig ==
    [DefaultCostConfig EXCEPT !.C_err = 3000, !.hazard_mode = "hard_gate",
                              !.dominant_axes["p"] = 5]

\* POST /config/cost validates nothing: the weights sum to 1.2.
InvalidConfig == [DefaultCostConfig EXCEPT !.weights["s"] = 4]

Configs == [n \in Nodes |->
    IF n = n1 THEN DefaultCostConfig ELSE IF n = n2 THEN GatedConfig ELSE InvalidConfig]

\* exp(-d / 2) and a node that does not decay, in tenths.
Decay == [n \in Nodes |-> [d \in Days |->
    IF n # n1 THEN 10 ELSE CASE d = 0 -> 10 [] d = 1 -> 6 [] d = 2 -> 4 [] OTHER -> 2]]

\* Enough minor changes to break the regulatory floor, with a drift of negative
\* severity, which raises its axis; and a major change that puts the regulatory axis at
\* 0.3 whatever it was, with a drift and a macroeconomic shock.
Signals == {NoShock, [NoShock EXCEPT !.minor = 9, !.drift = -10],
            [NoShock EXCEPT !.drift = 6, !.macro = 4, !.major = TRUE]}

\* One signal that breaks the structural floor, one that only adds hazard.
FewSignals == {[NoShock EXCEPT !.structural = TRUE], [NoShock EXCEPT !.drift = 10]}

RowSymmetry == Permutations(TaskIds) \cup Permutations(Workers)
===============================================================================
