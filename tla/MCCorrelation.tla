--------------------------- MODULE MCCorrelation ---------------------------
(* Rule bodies for the runs of CorrelationEngine. *)
EXTENDS CorrelationEngine, TLC
CONSTANT a1

\* Two failed logins within one time unit, per source.
BruteForce == [conditions |-> {{a1}}, aggregated |-> TRUE, window |-> 1, threshold |-> 2]
\* Any event at all, no conditions, every event raises.
AnyEvent == [conditions |-> {}, aggregated |-> FALSE, window |-> 1, threshold |-> 1]
MixedRules == {BruteForce, AnyEvent}
Symmetry == Permutations(Workers) \cup Permutations(RuleIds)
=============================================================================
