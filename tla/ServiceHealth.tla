---------------------------- MODULE ServiceHealth ----------------------------
(***************************************************************************)
(* What the health page says of a service: the evidence of its probes, of  *)
(* TrueNAS and of Cloudflare reconciled into one state                     *)
(* (nabla/api/homelab_service_health.py), the nodes of the topology that   *)
(* only TrueNAS knows and the SQL probe of the application folded in       *)
(* (homelab_health_evidence.py), and the states handed on along required   *)
(* relations (homelab_dependency_health.py).                               *)
(*                                                                         *)
(* A probe row that is stale counts as none everywhere, and so does a      *)
(* tunnel whose status is stale or unconfirmed, except that it dates a     *)
(* row.  Relations are the required ones whose type bears health.          *)
(***************************************************************************)
EXTENDS Integers, FiniteSets

CONSTANTS
    Nodes,      \* the nodes of the topology
    Database    \* the node that the SQL probe is about

ASSUME HealthAssumption == IsFiniteSet(Nodes) /\ Database \in Nodes

VARIABLES
    phase,
    snapshot,   \* what is known of TrueNAS: "none", "fresh" or "stale"
    todo,       \* the services of the catalogue without a row as yet
    rows,       \* the state of each node that has a row
    proof,      \* history: what spoke for the state of the last service
    requires,   \* the relations, as pairs of a source and a target
    effective,  \* effective_states
    round       \* rounds of the propagation so far

healthVars == <<phase, snapshot, todo, rows, proof, requires, effective, round>>

Snapshots == {"none", "fresh", "stale"}
States    == {"ok", "warn", "fail", "unknown"}

\* direct: "ok" is 2xx and "moved" 3xx; "warn" is a refusal such as 401 or 429, an
\* answer of Access, or a blocked probe; "error" is an error page under 2xx, and
\* "late" a probe that did not end.  app: "missing" is a binding that no app
\* matches, or more than one.  issue: the primary container does not run.
Evidence ==
    {e \in [direct   : {"none", "ok", "moved", "warn", "error", "fail", "late"},
            internal : {"none", "ok", "fail", "late"},
            app      : {"none", "missing", "ok", "warn", "fail", "deploying"},
            issue    : BOOLEAN,
            tunnel   : {"none", "ok", "warn", "fail"},
            external : BOOLEAN] :
        /\ ~e.external => e.direct = "none" /\ e.tunnel = "none"
        /\ e.issue => e.app \notin {"none", "missing"}}

-----------------------------------------------------------------------------
\* The states that the evidence comes down to; "none" where there is none.
DirectState(e) == CASE e.direct \in {"ok", "moved"}   -> "ok"
                    [] e.direct \in {"warn", "late"}  -> "warn"
                    [] e.direct \in {"fail", "error"} -> "fail"
                    [] e.direct = "none"              -> "none"
InternalState(e) == IF e.internal = "late" THEN "warn" ELSE e.internal

StaleCounts(e, known) ==                            \* bug: a stale app counts
    IF known = "none" \/ e.app \in {"none", "missing"} THEN "none"
    ELSE IF e.app = "deploying" THEN "fail" ELSE e.app
RuntimeState(e, known) ==
    IF known # "fresh" \/ e.app \in {"none", "missing"} THEN "none"
    ELSE IF e.app = "deploying" THEN "fail" ELSE e.app

Missing(e, known) == known = "fresh" /\ e.app = "missing"

\* origin_proven_up
ProvenUp(e) == e.internal = "ok" \/ e.direct \in {"ok", "error"}

FromDirect(e, runtime) ==
    LET internal == InternalState(e)
        backed   == "ok" \in {internal, runtime}
    IN  CASE DirectState(e) = "ok" ->
                IF "fail" \in {e.tunnel, internal} THEN "warn" ELSE "ok"
          [] DirectState(e) = "warn" ->
                IF e.tunnel = "fail" /\ ~backed THEN "fail" ELSE "warn"
          [] DirectState(e) = "fail" -> IF backed THEN "warn" ELSE "fail"

\* Without a direct probe: the LAN, then TrueNAS, then the tunnel.
FromOthers(e, runtime) ==
    LET internal == InternalState(e) IN
    IF internal = "ok" THEN "ok"
    ELSE IF internal = "fail" THEN IF runtime = "ok" THEN "warn" ELSE "fail"
    ELSE IF runtime = "ok" THEN IF e.external THEN "warn" ELSE "ok"
    ELSE IF {internal, runtime, e.tunnel} # {"none"} THEN "warn" ELSE "unknown"

\* reconcile_service_state
Reconciled(e, known) ==
    LET runtime == RuntimeState(e, known)
        red     == IF ProvenUp(e) THEN "warn" ELSE "fail"
    IN
    IF Missing(e, known) THEN red
    ELSE IF e.direct = "error" THEN "warn"
    ELSE IF runtime = "fail" THEN red
    ELSE IF e.direct # "none" THEN FromDirect(e, runtime)
    ELSE FromOthers(e, runtime)

\* The state of the row: green only with a primary container that runs.
RowState(e, known) ==
    IF Reconciled(e, known) = "ok" /\ e.issue /\ known = "fresh" THEN "warn"
    ELSE Reconciled(e, known)

\* What speaks for a state, whatever comes before what: something fails, the
\* service itself fails, something is well, the origin answered.
Proof(e, known) ==
    LET fresh == known = "fresh"
        broken == \/ e.direct \in {"fail", "error"} \/ e.internal = "fail"
                  \/ fresh /\ (e.app \in {"missing", "fail", "deploying"} \/ e.issue)
    IN  [state   |-> RowState(e, known),
         failing |-> broken \/ e.tunnel = "fail",
         broken  |-> broken,
         well    |-> \/ e.direct \in {"ok", "moved"} \/ e.internal = "ok"
                     \/ fresh /\ e.app = "ok",
         up      |-> ProvenUp(e)]

Proofs == [known \in Snapshots |-> {Proof(e, known) : e \in Evidence}]

-----------------------------------------------------------------------------
NoProof == [state |-> "unknown", failing |-> FALSE, broken |-> FALSE,
            well |-> FALSE, up |-> FALSE]

HealthInit ==
    /\ phase = "done" /\ snapshot = "none" /\ todo = {}
    /\ rows = [n \in {} |-> "ok"] /\ effective = rows
    /\ proof = NoProof /\ requires = {} /\ round = 0

Known == DOMAIN rows

\* A payload, a catalogue and a snapshot of TrueNAS are there.
Begin ==
    /\ phase = "done"
    /\ phase' = "services"
    /\ snapshot' \in Snapshots
    /\ todo' \in SUBSET Nodes
    /\ rows' = [n \in {} |-> "ok"] /\ effective' = rows'
    /\ proof' = NoProof /\ requires' = {} /\ round' = 0

WithRow(n, state) == [m \in Known \cup {n} |-> IF m = n THEN state ELSE rows[m]]

\* build_reconciled_service_health, one service after the other
Reconcile ==
    /\ phase = "services" /\ todo # {}
    /\ LET n == CHOOSE m \in todo : TRUE
       IN  \E p \in Proofs[snapshot] :
              /\ proof' = p
              /\ rows'  = WithRow(n, p.state)
              /\ todo'  = todo \ {n}
    /\ UNCHANGED <<phase, snapshot, requires, effective, round>>

\* _append_runtime_topology_component_evidence: a node of the topology without a
\* service has a row when exactly one app matches it, and nothing when TrueNAS is
\* not to be had.
Project ==
    /\ phase = "services" /\ todo = {}
    /\ \E shown \in IF snapshot = "none" THEN {{}} ELSE SUBSET (Nodes \ Known) :
       \E state \in [shown -> IF snapshot = "stale" THEN {"unknown"} ELSE States] :
          rows' = [n \in Known \cup shown |-> IF n \in shown THEN state[n] ELSE rows[n]]
    /\ phase' = "shared"
    /\ proof' = NoProof
    /\ UNCHANGED <<snapshot, todo, requires, effective, round>>

\* _reconcile_shared_component_evidence: the answer of the SQL probe wins; its
\* silence only casts doubt.
Doubted(state) == IF state \in {"ok", "unknown"} THEN "warn" ELSE state

FoldIn ==
    /\ phase = "shared"
    /\ \/ UNCHANGED rows
       \/ /\ Database \in Known
          /\ \/ rows' = WithRow(Database, "ok")
             \/ rows' = WithRow(Database, Doubted(rows[Database]))
    /\ requires' \in SUBSET {pair \in Nodes \X Nodes : pair[1] # pair[2]}
    /\ effective' = rows'
    /\ phase' = "rounds"
    /\ UNCHANGED <<snapshot, todo, proof, round>>

-----------------------------------------------------------------------------
\* A target without a row, or in a view on stale runtime evidence, is unknown.
Trusted(n)     == n \in Known /\ snapshot # "stale"
TargetState(n) == IF Trusted(n) THEN effective[n] ELSE "unknown"

DependencyStates(n) == {TargetState(pair[2]) : pair \in {q \in requires : q[1] = n}}

\* _effective_state: a dependency that fails or is doubtful casts doubt, one that
\* is unknown does not.
UnknownCounts(n) ==                                 \* bug: unknown counts as doubt
    IF rows[n] = "fail" THEN "fail"
    ELSE IF DependencyStates(n) \cap {"fail", "warn", "unknown"} # {} THEN "warn"
    ELSE rows[n]
EffectiveState(n) ==
    IF rows[n] = "fail" THEN "fail"
    ELSE IF DependencyStates(n) \cap {"fail", "warn"} # {} THEN "warn"
    ELSE rows[n]

\* The rounds that propagate_required_dependency_health allows itself.
OneRound  == 1                                      \* bug: neighbours only
MaxRounds == Cardinality(Known) + 1

Propagate ==
    /\ phase = "rounds"
    /\ effective' = [n \in Known |-> EffectiveState(n)]
    /\ round' = round + 1
    /\ phase' = IF effective' = effective \/ round' = MaxRounds THEN "done" ELSE "rounds"
    /\ UNCHANGED <<snapshot, todo, rows, proof, requires>>

HealthNext == Begin \/ Reconcile \/ Project \/ FoldIn \/ Propagate

HealthSpec == HealthInit /\ [][HealthNext]_healthVars

-----------------------------------------------------------------------------
HealthTypeOK ==
    /\ phase \in {"services", "shared", "rounds", "done"}
    /\ snapshot \in Snapshots
    /\ todo \subseteq Nodes /\ Known \subseteq Nodes
    /\ rows \in [Known -> States]
    /\ requires \subseteq Nodes \X Nodes
    /\ DOMAIN effective \subseteq Known /\ effective \in [DOMAIN effective -> States]
    /\ round \in 0 .. Cardinality(Nodes) + 1

\* Neither red nor green without proof: a service is down only when something
\* failed and its origin did not answer, and well only when something says so and
\* nothing of its own is broken; a dependency never makes it either.
VerdictsProved ==
    /\ proof.state = "fail" => proof.failing /\ ~proof.up
    /\ proof.state = "ok" => proof.well /\ ~proof.broken
    /\ proof.state = "unknown" => ~proof.failing /\ ~proof.well
    /\ \A n \in DOMAIN effective :
          effective[n] # rows[n] => effective[n] = "warn" /\ rows[n] # "fail"

\* The rounds find all that doubt reaches and nothing else, around cycles too: what
\* is in every set that holds the troubled nodes and, with a trusted node, all who
\* require it.
Reached ==
    LET Closed(X) == /\ \A n \in Known : rows[n] \in {"warn", "fail"} => n \in X
                     /\ \A pair \in requires :
                           pair[1] \in Known /\ pair[2] \in X /\ Trusted(pair[2])
                              => pair[1] \in X
    IN  {n \in Known : \A X \in SUBSET Known : Closed(X) => n \in X}

DoubtIsReached ==
    phase = "done" =>
        \A n \in Known : effective[n] = IF n \notin Reached \/ rows[n] = "fail"
                                        THEN rows[n] ELSE "warn"

=============================================================================
