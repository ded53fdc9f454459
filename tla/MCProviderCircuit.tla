------------------------- MODULE MCProviderCircuit -------------------------
(***************************************************************************)
(* Instances of ProviderCircuit for TLC: two probes of one replica and one *)
(* of another, or the two probes of a single replica.                      *)
(***************************************************************************)
EXTENDS ProviderCircuit, TLC

CONSTANTS r1, r2, p1, p2, p3

TwoReplicas == [p \in {p1, p2, p3} |-> IF p = p3 THEN r2 ELSE r1]
Across      == [p \in {p1, p2} |-> IF p = p1 THEN r1 ELSE r2]
OneReplica  == [p \in {p1, p2} |-> r1]
EveryAwait  == Awaits
NoAwait     == {}

\* p1 and p2 run in the same replica and nothing tells them apart.
SameReplica == Permutations({p1, p2})

=============================================================================
