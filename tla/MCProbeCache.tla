---------------------------- MODULE MCProbeCache ----------------------------
(***************************************************************************)
(* Instances of ProbeCache for TLC: the callers of one replica, and two of *)
(* a replica beside a peer that meets them in Redis only.                  *)
(***************************************************************************)
EXTENDS ProbeCache, TLC

CONSTANTS r1, r2, c1, c2, c3

OneReplica  == [c \in Callers |-> r1]
TwoReplicas == [c \in Callers |-> IF c = c3 THEN r2 ELSE r1]

\* One await or more for each way a cancellation is handled.
SomeAwaits == {"waiting", "locking", "origin", "unlocking"}

\* The load, and the commands whose effect a cancellation leaves open.
OpenAwaits == {"locking", "origin", "writing"}

\* c1 and c2 run in the same replica and nothing tells them apart.
SameReplica == Permutations({c1, c2})

=============================================================================
