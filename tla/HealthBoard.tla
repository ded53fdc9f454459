----------------------------- MODULE HealthBoard -----------------------------
(***************************************************************************)
(* nabla/api/health_board.py in one worker: the cached snapshot, the       *)
(* background refresh, the tasks a refresh starts, and the reset.          *)
(*                                                                         *)
(* No critical section of _cache_lock contains an await, so whoever asks   *)
(* for it has it at once: what such a section does is part of its step.    *)
(* A refresh that meets a source that is down is late: its deadlines may   *)
(* pass and its tasks may raise.                                           *)
(***************************************************************************)
EXTENDS Naturals

CONSTANTS
    Refreshes,    \* names for runs of _refresh, used again when all is over
    NoRefresh,    \* _refresh_task is None
    NoSnapshot,   \* _cached_snapshot is None
    MaxTroubles   \* bound: late refreshes and resets of the board together

ASSUME BoardAssumption == NoRefresh \notin Refreshes /\ MaxTroubles \in Nat

VARIABLES
    late,       \* refreshes that meet a source that is down
    stage,      \* where each refresh is suspended
    why,        \* what unwinds a refresh
    part,       \* the tasks of each refresh
    task,       \* _refresh_task
    snapshot,   \* _cached_snapshot and whether its age is below the TTL
    error,      \* _last_refresh_error is set
    troubles,   \* late refreshes and resets so far
    outdated    \* history: refreshes that a reset has overtaken

vars == <<late, stage, why, part, task, snapshot, error, troubles, outdated>>

\* reconciliation_task, homelab_payload_task, healthz_task and runtime_task
Parts  == {"recon", "payload", "healthz", "runtime"}
Joint  == {"healthz", "runtime"}
Active == {"running", "stopping"}

Snapshot == [fresh : BOOLEAN, outdated : BOOLEAN]

Fresh == snapshot # NoSnapshot /\ snapshot.fresh

Quiet(s) == stage[s] = "idle" /\ \A p \in Parts : part[s][p] \notin Active

NeverAsked  == FALSE                                \* bug: no single flight
TaskRunning == task # NoRefresh /\ stage[task] # "idle"

Init ==
    /\ late     = {}
    /\ stage    = [s \in Refreshes |-> "idle"]
    /\ why      = [s \in Refreshes |-> "none"]
    /\ part     = [s \in Refreshes |-> [p \in Parts |-> "none"]]
    /\ task     = NoRefresh
    /\ snapshot = NoSnapshot
    /\ error    = FALSE
    /\ troubles = 0
    /\ outdated = {}

\* One more reset, or late refresh.
Trouble == troubles < MaxTroubles /\ troubles' = troubles + 1

Goto(s, to) == stage' = [stage EXCEPT ![s] = to]

\* The task of a refresh is done: what it has not awaited goes on without it.
End(s) ==
    /\ Goto(s, "idle")
    /\ why'  = [why EXCEPT ![s] = "none"]
    /\ part' = [part EXCEPT ![s] =
                  [p \in Parts |-> IF @[p] \in Active THEN @[p] ELSE "none"]]
    /\ late' = late \ {s}
    /\ outdated' = outdated \ {s}

-----------------------------------------------------------------------------
\* get_health_board_snapshot: a snapshot that is missing, stale or unwanted is
\* refreshed in the background.  Otherwise the call only reads.
Get(force) ==
    /\ force \/ ~Fresh
    /\ ~TaskRunning
    /\ \E s \in Refreshes :
        /\ Quiet(s)
        /\ Goto(s, "services")
        /\ task' = s
        /\ \/ UNCHANGED <<late, troubles>>
           \/ Trouble /\ late' = late \cup {s}
    /\ UNCHANGED <<why, part, snapshot, error, outdated>>

\* The services are known: the four tasks are created.
ServicesLoaded(s) ==
    /\ stage[s] = "services"
    /\ Goto(s, "joint")
    /\ part' = [part EXCEPT ![s] = [p \in Parts |-> "running"]]
    /\ UNCHANGED <<late, why, task, snapshot, error, troubles, outdated>>

\* gather(healthz_task, runtime_task) returns.
Joined(s) ==
    /\ stage[s] = "joint"
    /\ \A p \in Joint : part[s][p] = "done"
    /\ Goto(s, "homelab")
    /\ UNCHANGED <<late, why, part, task, snapshot, error, troubles, outdated>>

\* build_homelab_snapshot awaits the payload, then the reconciliation context.
PayloadOnly(s) == "payload"                         \* bug: context not awaited
Awaited(s) == IF part[s]["payload"] = "done" THEN "recon" ELSE "payload"

\* It has both, or its own deadline has cancelled the one it awaited: the
\* snapshot goes on, complete or degraded.
HomelabBuilt(s) ==
    /\ stage[s] = "homelab"
    /\ part[s][Awaited(s)] \in {"done", "cancelled"}
    /\ Goto(s, "rest")
    /\ UNCHANGED <<late, why, part, task, snapshot, error, troubles, outdated>>

HomelabLate(s) ==
    /\ stage[s] = "homelab" /\ s \in late
    /\ part[s][Awaited(s)] = "running"
    /\ part' = [part EXCEPT ![s][Awaited(s)] = "stopping"]
    /\ UNCHANGED <<late, stage, why, task, snapshot, error, troubles, outdated>>

\* The metrics and the sickz snapshot complete the board: it is stored.
ErrorKept == UNCHANGED error                        \* bug: error not cleared
ErrorGone == error' = FALSE

Store(s) ==
    /\ stage[s] = "rest"
    /\ snapshot' = [fresh |-> TRUE, outdated |-> s \in outdated]
    /\ ErrorGone
    /\ End(s)
    /\ UNCHANGED <<task, troubles>>

\* What a refresh awaits raises: the error is kept for the readers.
Raised(s) ==
    \/ stage[s] = "joint" /\ \E p \in Joint : part[s][p] = "raised"
    \/ stage[s] = "homelab" /\ part[s][Awaited(s)] = "raised"
    \/ stage[s] = "rest" /\ s \in late

Fail(s) ==
    /\ Raised(s)
    /\ error' = TRUE
    /\ End(s)
    /\ UNCHANGED <<task, snapshot, troubles>>

-----------------------------------------------------------------------------
\* A refresh is cancelled by its deadline or by a reset.  It passes that on to
\* what it awaits: the two tasks of the gather, or one task of the homelab.
Interrupted(s) ==
    IF stage[s] = "joint" THEN Joint
    ELSE IF stage[s] = "homelab" THEN {Awaited(s)} ELSE {}

Unwind(s, reason) ==
    /\ Goto(s, "unwinding")
    /\ why'  = [why EXCEPT ![s] = reason]
    /\ part' = [part EXCEPT ![s] =
                  [p \in Parts |-> IF p \in Interrupted(s) /\ @[p] = "running"
                                   THEN "stopping" ELSE @[p]]]

\* _HEALTH_BOARD_REFRESH_DEADLINE_SEC have passed.
Deadline(s) ==
    /\ stage[s] \in {"services", "joint", "homelab", "rest"}
    /\ s \in late
    /\ Unwind(s, "deadline")
    /\ UNCHANGED <<late, task, snapshot, error, troubles, outdated>>

\* What the refresh awaited has ended; gather ends with its first task.
Unwound(s) ==
    /\ stage[s] = "unwinding"
    /\ \/ \A p \in Parts : part[s][p] # "stopping"
       \/ \E p \in Joint : part[s][p] \in {"cancelled", "raised"}
    /\ error' = (error \/ why[s] = "deadline")
    /\ End(s)
    /\ UNCHANGED <<task, snapshot, troubles>>

\* reset_health_board_cache: all is forgotten and the running task cancelled,
\* which overrides a deadline it is unwinding from.
Forgotten == UNCHANGED <<stage, why, part>>         \* bug: task not cancelled
Cancelled == IF TaskRunning THEN Unwind(task, "reset")
                            ELSE UNCHANGED <<stage, why, part>>

Reset ==
    /\ Trouble
    /\ Cancelled
    /\ task'     = NoRefresh
    /\ snapshot' = NoSnapshot
    /\ error'    = FALSE
    /\ outdated' = {s \in Refreshes : stage[s] # "idle"}
    /\ UNCHANGED late

-----------------------------------------------------------------------------
\* A task ends by itself, with a value or an error, or lets go when cancelled.
PartEnds(s, p) ==
    /\ \E end \in {"done", "raised", "cancelled"} :
        /\ \/ part[s][p] = "running" /\ end = "done"
           \/ part[s][p] = "running" /\ end = "raised" /\ s \in late
           \/ part[s][p] = "stopping" /\ end = "cancelled"
        /\ part' = [part EXCEPT ![s][p] =
                      IF stage[s] = "idle" THEN "none" ELSE end]
    /\ UNCHANGED <<late, stage, why, task, snapshot, error, troubles, outdated>>

\* The snapshot's age reaches the TTL.
Expire ==
    /\ Fresh
    /\ snapshot' = [snapshot EXCEPT !.fresh = FALSE]
    /\ UNCHANGED <<late, stage, why, part, task, error, troubles, outdated>>

Progress(s) ==
    \/ ServicesLoaded(s) \/ Joined(s) \/ HomelabBuilt(s) \/ Store(s) \/ Fail(s)
    \/ Unwound(s)

Next ==
    \/ \E force \in BOOLEAN : Get(force)
    \/ \E s \in Refreshes : \/ Progress(s) \/ HomelabLate(s) \/ Deadline(s)
                            \/ \E p \in Parts : PartEnds(s, p)
    \/ Reset \/ Expire

Spec == Init /\ [][Next]_vars

\* Awaits that are over are resumed, every task is bounded by the timeouts of
\* its own clients, time passes and readers keep asking.
Fairness ==
    /\ WF_vars(Get(FALSE)) /\ WF_vars(Expire)
    /\ \A s \in Refreshes : /\ WF_vars(Progress(s))
                            /\ \A p \in Parts : WF_vars(PartEnds(s, p))

FairSpec == Spec /\ Fairness

-----------------------------------------------------------------------------
TypeOK ==
    /\ late \subseteq Refreshes
    /\ stage \in [Refreshes -> {"idle", "services", "joint", "homelab", "rest",
                                "unwinding"}]
    /\ why \in [Refreshes -> {"none", "deadline", "reset"}]
    /\ part \in [Refreshes -> [Parts -> Active \cup {"none", "done", "raised",
                                                     "cancelled"}]]
    /\ task \in Refreshes \cup {NoRefresh}
    /\ snapshot \in Snapshot \cup {NoSnapshot}
    /\ error \in BOOLEAN
    /\ troubles \in 0 .. MaxTroubles
    /\ outdated \subseteq Refreshes
    /\ \A s \in Refreshes : why[s] # "none" <=> stage[s] = "unwinding"

\* A refresh that may still store its snapshot is the one readers know of, so
\* there is one at most, even while a cancelled one unwinds beside it.
OneRefresh ==
    \A s \in Refreshes : stage[s] # "idle" /\ why[s] # "reset" => task = s

\* A snapshot whose refresh began before a reset is not stored after it.
ResetHolds == snapshot # NoSnapshot => ~snapshot.outdated

\* While readers keep asking, the board is fresh and without an error again
\* and again, however late refreshes and resets have interrupted it before.
BoardRecovers == []<>(Fresh /\ ~error)

\* While nothing is late and nothing is reset, the tasks of two refreshes never
\* run at the same time: a refresh has awaited all it started when it stores.
WorkIsSingleFlight ==
    troubles = 0 =>
        \A s, t \in Refreshes, p, q \in Parts :
            part[s][p] = "running" /\ part[t][q] = "running" => s = t

=============================================================================
