---------------------------- MODULE SingleFlight ----------------------------
(***************************************************************************)
(* What the single-flight caches of the application promise, whatever they *)
(* cache: of the callers of one group at most one leads, that is, does the *)
(* work the others wait for; and a caller that asked comes back.           *)
(*                                                                         *)
(* ProbeCache implements it with one group per refresh lock of a replica,  *)
(* SickzCache with a single group.                                         *)
(***************************************************************************)
CONSTANTS
    Callers,    \* concurrent calls of the cache
    Groups      \* what the callers may share the work of

VARIABLES
    phase,      \* "idle", "asking" or "leading", per caller
    group       \* the group each caller asks in

Init ==
    /\ phase = [c \in Callers |-> "idle"]
    /\ group \in [Callers -> Groups]

Ask(c) ==
    /\ phase[c] = "idle"
    /\ phase' = [phase EXCEPT ![c] = "asking"]
    /\ \E g \in Groups : group' = [group EXCEPT ![c] = g]

\* One caller starts the work, or looks whether it has to.
Lead(c) ==
    /\ phase[c] = "asking"
    /\ \A d \in Callers : group[d] = group[c] => phase[d] # "leading"
    /\ phase' = [phase EXCEPT ![c] = "leading"]
    /\ UNCHANGED group

\* Callers come back: answered, failed, cancelled, or lost with their process.
Leave(S) ==
    /\ phase' = [c \in Callers |-> IF c \in S THEN "idle" ELSE phase[c]]
    /\ group' \in [Callers -> Groups]
    /\ \A c \in Callers \ S : group'[c] = group[c]

Next ==
    \/ \E c \in Callers : Ask(c) \/ Lead(c)
    \/ \E S \in SUBSET Callers : Leave(S)

Spec == Init /\ [][Next]_<<phase, group>>

\* Nobody who asked or leads is kept for ever.
Answered == \A c \in Callers : phase[c] # "idle" ~> phase[c] = "idle"

=============================================================================
