--------------------------- MODULE HomelabRefresh ---------------------------
(***************************************************************************)
(* build_homelab_health_payload of nabla/api/homelab_health.py in one      *)
(* worker: the cached payload and its lock, the fan-out of a refresh       *)
(* (homelab_probe_runner.py) and the two batches that collect it within a  *)
(* budget (homelab_probe_batch.py).  What the rows are merged with is      *)
(* HomelabEvidence.                                                        *)
(*                                                                         *)
(* A call that is interrupted leaves tasks behind; its name is used again  *)
(* only once they are over, so two names stand for any number of calls.    *)
(***************************************************************************)
EXTENDS Naturals, FiniteSets

CONSTANTS
    Callers,         \* concurrent calls
    Public,          \* the services selected for a public probe
    Internal,        \* the services selected for an internal probe
    MaxConcurrency,  \* _MAX_PROBE_CONCURRENCY
    NoCaller,        \* _cache_lock is free
    MaxTroubles      \* bound: cancellations, and tasks that raise

ASSUME RefreshAssumption ==
    /\ IsFiniteSet(Public) /\ IsFiniteSet(Internal)
    /\ Public \cap Internal = {}
    /\ MaxConcurrency \in Nat \ {0}
    /\ NoCaller \notin Callers
    /\ MaxTroubles \in Nat

VARIABLES
    lock,      \* _cache_lock: the call that holds it
    payload,   \* _cached_payload and whether its age is below the TTL
    pc,        \* where each call is suspended
    permits,   \* the value of service_semaphore, one per refresh
    probe,     \* the probe tasks of a refresh
    batch,     \* public_results_task and internal_results_task
    truenas,   \* truenas_task
    row,       \* the row a batch has made of each probe
    troubles   \* cancellations and errors so far

fanout == <<permits, probe, batch, truenas, row>>
vars   == <<lock, payload, pc, fanout, troubles>>

Scopes   == {"public", "internal"}
Services == Public \cup Internal
Of(s)    == IF s = "public" THEN Public ELSE Internal

\* A probe at "edge" is past the semaphore; one "stopping" or "leaving" was
\* cancelled, with a permit or at the edge, and has not let go yet.
Holding == {"running", "stopping"}
Ended   == {"done", "raised", "cancelled"}
Stages  == {"none", "queued", "edge", "leaving"} \cup Holding \cup Ended

Busy      == {"waiting", "draining", "aborting"}
Alive(c)  == {p \in Services : probe[c][p] \notin Ended \cup {"none"}}
Holders(c) == {p \in Services : probe[c][p] \in Holding}
Quiet(c)  == /\ Alive(c) = {}
             /\ \A s \in Scopes : batch[c][s] \notin Busy
             /\ truenas[c] \notin {"running", "stopping"}

Init ==
    /\ lock     = NoCaller
    /\ payload  = "none"
    /\ pc       = [c \in Callers |-> "idle"]
    /\ permits  = [c \in Callers |-> MaxConcurrency]
    /\ probe    = [c \in Callers |-> [p \in Services |-> "none"]]
    /\ batch    = [c \in Callers |-> [s \in Scopes |-> "none"]]
    /\ truenas  = [c \in Callers |-> "none"]
    /\ row      = [c \in Callers |-> [p \in Services |-> "none"]]
    /\ troubles = 0

Trouble == troubles < MaxTroubles /\ troubles' = troubles + 1

Goto(c, to) == pc' = [pc EXCEPT ![c] = to]

\* What has ended when its call is over is forgotten; the rest goes on.
Left(c, now) == IF pc[c] = "idle" THEN "none" ELSE now

\* async with _cache_lock ends with a payload, an error or a cancellation.
End(c) ==
    /\ Goto(c, "idle")
    /\ lock'    = IF lock = c THEN NoCaller ELSE lock
    /\ probe'   = [probe EXCEPT ![c] =
                     [p \in Services |-> IF p \in Alive(c) THEN @[p] ELSE "none"]]
    /\ batch'   = [batch EXCEPT ![c] =
                     [s \in Scopes |-> IF @[s] \in Busy THEN @[s] ELSE "none"]]
    /\ truenas' = [truenas EXCEPT ![c] =
                     IF @ \in {"running", "stopping"} THEN @ ELSE "none"]
    /\ row'     = [row EXCEPT ![c] = [p \in Services |-> "none"]]
    /\ UNCHANGED permits

-----------------------------------------------------------------------------
Call(c) ==
    /\ pc[c] = "idle" /\ Quiet(c)
    /\ Goto(c, "waiting")
    /\ UNCHANGED <<lock, payload, fanout, troubles>>

\* Under the lock: a payload younger than the TTL is copied and returned.
Serve(c) ==
    /\ pc[c] = "waiting" /\ lock = NoCaller /\ payload = "fresh"
    /\ Goto(c, "idle")
    /\ UNCHANGED <<lock, payload, fanout, troubles>>

Refresh(c) ==
    /\ pc[c] = "waiting" /\ lock = NoCaller /\ payload # "fresh"
    /\ lock' = c
    /\ Goto(c, "catalogue")
    /\ UNCHANGED <<payload, fanout, troubles>>

\* The services are known: a semaphore, the tasks and the batches are made.
FanOut(c) ==
    /\ pc[c] = "catalogue"
    /\ Goto(c, "probing")
    /\ permits' = [permits EXCEPT ![c] = MaxConcurrency]
    /\ probe'   = [probe EXCEPT ![c] = [p \in Services |-> "queued"]]
    /\ batch'   = [batch EXCEPT ![c] = [s \in Scopes |-> "waiting"]]
    /\ truenas' = [truenas EXCEPT ![c] = "running"]
    /\ UNCHANGED <<lock, payload, row, troubles>>

\* gather has the two batches and TrueNAS.
Probed(c) ==
    /\ pc[c] = "probing"
    /\ \A s \in Scopes : batch[c][s] = "done"
    /\ truenas[c] = "done"
    /\ Goto(c, "reading")
    /\ UNCHANGED <<lock, payload, fanout, troubles>>

\* The first task that raises ends the gather; the batches go on.
GatherRaised(c) ==
    /\ pc[c] = "probing" /\ truenas[c] = "raised"
    /\ End(c)
    /\ UNCHANGED <<payload, troubles>>

\* The shared evidence is read and merged, or not to be had in time.
Merge(c) ==
    /\ pc[c] = "reading"
    /\ Goto(c, "writing")
    /\ UNCHANGED <<lock, payload, fanout, troubles>>

\* It is written back, or not, and the payload is stored.
Store(c) ==
    /\ pc[c] = "writing"
    /\ payload' = "fresh"
    /\ End(c)
    /\ UNCHANGED troubles

-----------------------------------------------------------------------------
SetProbe(c, p, to) == probe' = [probe EXCEPT ![c][p] = Left(c, to)]

\* async with semaphore: DNS, HEAD and GET, or the TCP connection.
Unqueued(c, p) ==                                   \* bug: does not wait
    /\ probe[c][p] = "queued"
    /\ probe' = [probe EXCEPT ![c][p] = "running"]
    /\ permits' = [permits EXCEPT ![c] = @ - 1]
    /\ UNCHANGED <<lock, payload, pc, batch, truenas, row, troubles>>
Acquire(c, p) ==
    /\ probe[c][p] = "queued" /\ permits[c] > 0
    /\ probe' = [probe EXCEPT ![c][p] = "running"]
    /\ permits' = [permits EXCEPT ![c] = @ - 1]
    /\ UNCHANGED <<lock, payload, pc, batch, truenas, row, troubles>>

\* The permit is given back.  A service behind Cloudflare Access that answered
\* is then asked again at the edge, outside the semaphore.  The clients of a
\* refresh that was interrupted are closed: a probe of it may raise.
Answered(c, p) ==
    /\ probe[c][p] = "running"
    /\ \/ SetProbe(c, p, "done") /\ UNCHANGED troubles
       \/ p \in Public /\ pc[c] = "idle" /\ SetProbe(c, p, "raised")
          /\ UNCHANGED troubles
       \/ Trouble /\ SetProbe(c, p, "raised")
       \/ p \in Public /\ UNCHANGED troubles
          /\ probe' = [probe EXCEPT ![c][p] = "edge"]
    /\ permits' = [permits EXCEPT ![c] = @ + 1]
    /\ UNCHANGED <<lock, payload, pc, batch, truenas, row>>

EdgeAnswered(c, p) ==
    /\ probe[c][p] = "edge"
    /\ SetProbe(c, p, "done")
    /\ UNCHANGED <<lock, payload, pc, permits, batch, truenas, row, troubles>>

\* A cancelled probe lets go.
PermitLost(c, p) ==                                 \* bug: not in a with
    /\ probe[c][p] \in {"stopping", "leaving"}
    /\ SetProbe(c, p, "cancelled")
    /\ UNCHANGED <<lock, payload, pc, permits, batch, truenas, row, troubles>>
LetGo(c, p) ==
    /\ probe[c][p] \in {"stopping", "leaving"}
    /\ SetProbe(c, p, "cancelled")
    /\ permits' = [permits EXCEPT ![c] =
                     IF probe[c][p] = "stopping" THEN @ + 1 ELSE @]
    /\ UNCHANGED <<lock, payload, pc, batch, truenas, row, troubles>>

\* task.cancel() on the probes in P.
Cancelled(c, P) ==
    [p \in Services |->
        IF p \notin P THEN probe[c][p]
        ELSE CASE probe[c][p] = "queued"  -> Left(c, "cancelled")
               [] probe[c][p] = "running" -> "stopping"
               [] probe[c][p] = "edge"    -> "leaving"
               [] OTHER                   -> probe[c][p]]

\* A child may be cancelled independently, before the budget expires.
ChildCancelled(c, p) ==
    /\ probe[c][p] \in {"queued", "running", "edge"}
    /\ pc[c] = "probing"
    /\ Trouble
    /\ probe' = [probe EXCEPT ![c] = Cancelled(c, {p})]
    /\ UNCHANGED <<lock, payload, pc, permits, batch, truenas, row>>

\* truenas_task has a payload, raises, or has been cancelled.
TrueNASEnds(c) ==
    /\ \/ truenas[c] = "running" /\ UNCHANGED troubles
          /\ truenas' = [truenas EXCEPT ![c] = Left(c, "done")]
       \/ truenas[c] = "running" /\ Trouble
          /\ truenas' = [truenas EXCEPT ![c] = Left(c, "raised")]
       \/ truenas[c] = "stopping" /\ UNCHANGED troubles
          /\ truenas' = [truenas EXCEPT ![c] = Left(c, "cancelled")]
    /\ UNCHANGED <<lock, payload, pc, permits, probe, batch, row>>

-----------------------------------------------------------------------------
\* The row of a probe by what its task has come to.
RowOf(stage) ==
    CASE stage = "done"      -> "observed"
      [] stage = "cancelled" -> "probe_cancelled"
      [] stage = "raised"    -> "probe_error"
      [] OTHER               -> "deadline"

SetBatch(c, s, to) ==
    batch' = [batch EXCEPT ![c][s] = IF to \in Busy THEN to ELSE Left(c, to)]

\* asyncio.wait returns with the last probe, or when fanout_budget_seconds have
\* passed: a row is made of each probe and the pending ones are cancelled.
MakeRows(c, s) ==
    row' = [row EXCEPT ![c] =
              [p \in Services |->
                  IF p \notin Of(s) THEN @[p] ELSE Left(c, RowOf(probe[c][p]))]]

NotAwaited(c, s) ==                                 \* bug: no second gather
    /\ batch[c][s] = "waiting"
    /\ MakeRows(c, s)
    /\ probe' = [probe EXCEPT ![c] = Cancelled(c, Of(s) \cap Alive(c))]
    /\ SetBatch(c, s, "done")
    /\ UNCHANGED <<lock, payload, pc, permits, truenas, troubles>>
NoBudget(c, s) ==                                   \* bug: wait without timeout
    /\ batch[c][s] = "waiting" /\ Of(s) \cap Alive(c) = {}
    /\ MakeRows(c, s)
    /\ SetBatch(c, s, "done")
    /\ UNCHANGED <<lock, payload, pc, permits, probe, truenas, troubles>>
Collect(c, s) ==
    /\ batch[c][s] = "waiting"
    /\ MakeRows(c, s)
    /\ probe' = [probe EXCEPT ![c] = Cancelled(c, Of(s) \cap Alive(c))]
    /\ SetBatch(c, s, IF Of(s) \cap Alive(c) = {} THEN "done" ELSE "draining")
    /\ UNCHANGED <<lock, payload, pc, permits, truenas, troubles>>

\* gather(*pending, return_exceptions=True) returns.
Drained(c, s) ==
    /\ batch[c][s] \in {"draining", "aborting"}
    /\ Of(s) \cap Alive(c) = {}
    /\ SetBatch(c, s, IF batch[c][s] = "draining" THEN "done" ELSE "cancelled")
    /\ UNCHANGED <<lock, payload, pc, permits, probe, truenas, row, troubles>>

-----------------------------------------------------------------------------
\* A deadline of the caller cancels the call.  A gather passes that on to its
\* three tasks; a batch that waits ends at once and leaves its probes running.
Cancel(c) ==
    /\ pc[c] \notin {"idle", "unwinding"}
    /\ Trouble
    /\ IF pc[c] = "probing"
       THEN /\ Goto(c, "unwinding")
            /\ truenas' = [truenas EXCEPT ![c] =
                             IF @ = "running" THEN "stopping" ELSE @]
            /\ batch' = [batch EXCEPT ![c] =
                           [s \in Scopes |->
                               CASE @[s] = "waiting"  -> "cancelled"
                                 [] @[s] = "draining" -> "aborting"
                                 [] OTHER             -> @[s]]]
            /\ UNCHANGED <<lock, permits, probe, row>>
       ELSE End(c)
    /\ UNCHANGED payload

\* The gather ends with the first of its tasks that did not return.
Unwound(c) ==
    /\ pc[c] = "unwinding"
    /\ \/ \E s \in Scopes : batch[c][s] = "cancelled"
       \/ truenas[c] \in {"raised", "cancelled"}
       \/ (\A s \in Scopes : batch[c][s] = "done") /\ truenas[c] = "done"
    /\ End(c)
    /\ UNCHANGED <<payload, troubles>>

\* The payload's age reaches _HEALTH_CACHE_TTL_SEC.
Expire ==
    /\ payload = "fresh"
    /\ payload' = "stale"
    /\ UNCHANGED <<lock, pc, fanout, troubles>>

Enter(c) == Serve(c) \/ Refresh(c)
Resume(c) == \/ FanOut(c) \/ Probed(c) \/ GatherRaised(c) \/ Merge(c) \/ Store(c)
             \/ Unwound(c)

Next ==
    \/ \E c \in Callers :
        \/ Call(c) \/ Enter(c) \/ Resume(c) \/ Cancel(c) \/ TrueNASEnds(c)
        \/ \E p \in Services : \/ Acquire(c, p) \/ Answered(c, p)
                               \/ EdgeAnswered(c, p) \/ LetGo(c, p)
                               \/ ChildCancelled(c, p)
        \/ \E s \in Scopes : Collect(c, s) \/ Drained(c, s)
    \/ Expire

Spec == Init /\ [][Next]_vars

\* Awaits that are over are resumed, asyncio.Lock is first in first out, the
\* budget of a batch expires, a cancelled probe lets go, and TrueNAS carries
\* its own deadlines.  Nothing is assumed of the origins.
Fairness ==
    \A c \in Callers :
        /\ SF_vars(Enter(c)) /\ WF_vars(Resume(c)) /\ WF_vars(TrueNASEnds(c))
        /\ \A p \in Services : WF_vars(LetGo(c, p))
        /\ \A s \in Scopes : WF_vars(Collect(c, s)) /\ WF_vars(Drained(c, s))

FairSpec == Spec /\ Fairness

-----------------------------------------------------------------------------
TypeOK ==
    /\ lock \in Callers \cup {NoCaller}
    /\ payload \in {"none", "fresh", "stale"}
    /\ pc \in [Callers -> {"idle", "waiting", "catalogue", "probing", "reading",
                           "writing", "unwinding"}]
    /\ permits \in [Callers -> 0 .. MaxConcurrency]
    /\ probe \in [Callers -> [Services -> Stages]]
    /\ batch \in [Callers -> [Scopes -> Busy \cup {"none", "done", "cancelled"}]]
    /\ truenas \in [Callers -> {"none", "running", "stopping"} \cup Ended]
    /\ row \in [Callers -> [Services -> {"none", "observed", "probe_cancelled",
                                         "probe_error", "deadline"}]]
    /\ troubles \in 0 .. MaxTroubles

\* However its probes end - answered, raised, at the budget, cancelled alone or
\* left behind by an interrupted call - no refresh holds more than
\* _MAX_PROBE_CONCURRENCY origins, and no permit is lost to its other probes.
FanOutBounded ==
    \A c \in Callers :
        /\ Cardinality(Holders(c)) <= MaxConcurrency
        /\ permits[c] + Cardinality(Holders(c)) = MaxConcurrency

\* What goes into the evidence is settled: every service probed has a row, the
\* row says what its task came to, and no task is left that could say more.
RowsSettled ==
    \A c \in Callers : pc[c] \in {"reading", "writing"} =>
        \A p \in Services :
            /\ row[c][p] # "none" /\ probe[c][p] \in Ended
            /\ row[c][p] = "deadline" => probe[c][p] = "cancelled"
            /\ row[c][p] # "deadline" => row[c][p] = RowOf(probe[c][p])

\* Every call comes back, although an origin may never answer.
CallsAnswered == \A c \in Callers : pc[c] = "waiting" ~> pc[c] = "idle"

=============================================================================
