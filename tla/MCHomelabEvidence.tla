-------------------------- MODULE MCHomelabEvidence --------------------------
(***************************************************************************)
(* Where the evidence of a refresh comes from, and what becomes of it.     *)
(* Gathering: two replicas whose rotations are out of step, two services   *)
(* and a budget of one.  Judging: three nodes of the topology.  Posture:   *)
(* what pfSense says of its resolver.  The three share no state: each      *)
(* execution is one of one of them, and the others stay as they started.   *)
(***************************************************************************)
EXTENDS HomelabEvidence, ServiceHealth, TLC

CONSTANTS r1, r2, a, b, n1, n2, n3,
          MaxConcurrency, MaxRefreshes, MaxChanges

VARIABLES
    part,
    appliance, stage, cut, reads, got, during, current, lastGood, refreshes, changes

Posture == INSTANCE PfSensePosture WITH phase <- stage

ASSUME Posture!PostureAssumption

posture == <<appliance, stage, cut, reads, got, during, current, lastGood,
             refreshes, changes>>

TwoServices == <<a, b>>
Unranked    == [s \in {a, b} |-> NoRank]

SameReplica == Permutations(Replicas)

MCInit ==
    /\ part \in {"gathering", "judging", "posture"}
    /\ Init /\ HealthInit /\ Posture!Init
    /\ part # "gathering" => bucket = [r \in Replicas |-> 0]
    /\ part # "posture" => appliance = Posture!Up

MCNext ==
    /\ UNCHANGED part
    /\ \/ part = "gathering" /\ Next /\ UNCHANGED <<healthVars, posture>>
       \/ part = "judging" /\ HealthNext /\ UNCHANGED <<vars, posture>>
       \/ part = "posture" /\ Posture!Next /\ UNCHANGED <<vars, healthVars>>

MCSpec == MCInit /\ [][MCNext]_<<part, vars, healthVars, posture>>

\* What the published interval needs, whatever is eligible: a slot for the
\* rotation, evidence that is retained for a cycle, and a wrap of the buckets
\* that falls between two rounds.
RotationHasRoom ==
    \A S \in SUBSET Services : AllFit(S, Limit) \/ Slots(S, Limit) > 0
CyclesAreRetained ==
    \A S \in SUBSET Services : FullCycle(S, Limit) < MaxRetention
WholeRounds ==
    \A S \in SUBSET Services :
        AllFit(S, Limit) \/ Period % Len(Rotating(S, Limit)) = 0

ASSUME CadenceAssumption == RotationHasRoom /\ CyclesAreRetained /\ WholeRounds

\* A verdict about the resolver of pfSense was true while it was read.
VerdictWasTrue == Posture!VerdictWasTrue

=============================================================================
