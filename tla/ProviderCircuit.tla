--------------------------- MODULE ProviderCircuit ---------------------------
(***************************************************************************)
(* The provider-level circuit breaker of nabla/api/provider_circuit.py, as *)
(* the external probe cache drives it: before_provider_probe decides,      *)
(* record_provider_probe_outcome counts, release_provider_probe gives the  *)
(* half-open ownership back.                                               *)
(*                                                                         *)
(* One provider is modelled: no state is shared between providers.  Every  *)
(* replica is one event loop, so code between two awaits is one step; the  *)
(* awaits on Redis are where calls interleave.  _state_lock never spans an *)
(* await and is therefore no state of its own.                             *)
(*                                                                         *)
(* Instants are kept as the time left until them (open_until - now, never  *)
(* below zero), so that the clock itself needs no bound: max() of two      *)
(* instants is max() of the times left.                                    *)
(***************************************************************************)
EXTENDS Naturals

CONSTANTS
    Replicas,           \* processes sharing one Redis
    Probes,             \* concurrent origin refreshes, one asyncio task each
    Home,               \* the replica each probe runs in
    NoProbe,            \* the free distributed lock
    FailureThreshold,   \* CircuitBreakerPolicy.failure_threshold
    BaseBackoff,        \* CircuitBreakerPolicy.base_backoff
    MaxBackoff,         \* CircuitBreakerPolicy.max_backoff
    JitterPercent,      \* CircuitBreakerPolicy.jitter_ratio, in percent
    LockTTL,            \* CircuitBreakerPolicy.half_open_lock_ttl
    MaxExponent,        \* largest e for which Python can turn 2**e into a float
    FailureCap,         \* bound: counts from here on all behave alike
    RedisFails,         \* whether a Redis command may raise
    Cancellable,        \* the awaits a caller's deadline may interrupt
    ColdCalls,          \* the probes whose key has no cached evidence
    Purges              \* whether an operator may purge the provider's circuit

\* Where a probe can be suspended, named for what it waits for.
Awaits == {"reading", "acquiring", "origin", "record_ok", "record_fail",
           "mirroring", "settled", "unlocking"}

ASSUME ConstantsAssumption ==
    /\ Home \in [Probes -> Replicas]
    /\ NoProbe \notin Probes
    /\ FailureThreshold \in Nat \ {0}
    /\ BaseBackoff \in Nat \ {0}
    /\ MaxBackoff \in Nat /\ MaxBackoff >= BaseBackoff
    /\ JitterPercent \in 0 .. 100
    /\ LockTTL \in Nat \ {0}
    /\ MaxExponent \in Nat
    /\ FailureCap \in Nat /\ FailureCap >= FailureThreshold
    /\ RedisFails \in BOOLEAN
    /\ Cancellable \subseteq Awaits
    /\ ColdCalls \subseteq Probes
    /\ Purges \in BOOLEAN

VARIABLES
    local,        \* _local_states: one ProviderCircuitState per replica
    inProgress,   \* provider \in _half_open_in_progress, per replica
    remote,       \* the Redis key health:v1:circuit:<provider>
    lease,        \* the Redis key health:v1:lock:circuit:<provider>
    pc,           \* where each probe is suspended
    snap,         \* the local state a probe copied before it awaited Redis
    seen,         \* decision.state, then the new state being mirrored
    owns,         \* decision.owns_half_open
    token,        \* decision.lock_token is not None
    window,       \* history: time left of the TTL a token holder was granted
    originUp,     \* environment: whether the provider answers
    purged        \* history: replicas purged since they started

vars == <<local, inProgress, remote, lease, pc, snap, seen, owns, token,
          window, originUp, purged>>
callVars == <<pc, snap, seen, owns, token, window>>

-----------------------------------------------------------------------------
Larger(a, b)  == IF a >= b THEN a ELSE b
Smaller(a, b) == IF a <= b THEN a ELSE b

CircuitState == [failures : 0 .. FailureCap, openFor : 0 .. MaxBackoff]
Closed       == [failures |-> 0, openFor |-> 0]     \* ProviderCircuitState()
Absent       == Closed                              \* no Redis key

\* No Redis key and a key holding zeros merge alike, and the code never writes
\* the latter, so one value stands for both.
MergeStates(a, b) ==
    [failures |-> Larger(a.failures, b.failures),
     openFor  |-> Larger(a.openFor, b.openFor)]

\* backoff_seconds: capped exponential, then positive jitter below the cap.
Exponent(failures) ==
    IF failures > FailureThreshold THEN failures - FailureThreshold ELSE 0

BackoffSeconds(failures) ==
    LET base == Smaller(MaxBackoff, BaseBackoff * 2 ^ Exponent(failures))
    IN  {d \in 1 .. MaxBackoff :
            base <= d /\ 100 * d <= base * (100 + JitterPercent)}

\* One more failure than either the stored or the decision's count.
DecisionCount(stored, decided) ==               \* bug: the stored count ignored
    Smaller(FailureCap, decided.failures + 1)
FailureCount(stored, decided) ==
    Smaller(FailureCap, Larger(stored.failures, decided.failures) + 1)

\* base_backoff * 2**exponent raises OverflowError
Overflows(failures) == Exponent(failures) > MaxExponent

\* FailureCap only cuts counts that change nothing: the backoff has reached its
\* cap there, or cannot be computed.
ASSUME CapAssumption ==
    \/ Overflows(FailureCap)
    \/ BaseBackoff * 2 ^ Exponent(FailureCap) >= MaxBackoff

\* The states a failure may leave, open from the threshold on.
FailureStates(stored, decided) ==
    LET failures == FailureCount(stored, decided)
    IN  {[failures |-> failures, openFor |-> d] : d \in
            IF Overflows(failures) THEN {}
            ELSE IF failures >= FailureThreshold
                 THEN BackoffSeconds(failures) ELSE {0}}

Elapse(state) == [state EXCEPT !.openFor = IF @ > 0 THEN @ - 1 ELSE 0]

-----------------------------------------------------------------------------
Init ==
    /\ local      = [r \in Replicas |-> Closed]
    /\ inProgress = [r \in Replicas |-> FALSE]
    /\ remote     = Absent
    /\ lease      = [owner |-> NoProbe, ttl |-> 0]
    /\ pc         = [p \in Probes |-> "idle"]
    /\ snap       = [p \in Probes |-> Closed]
    /\ seen       = [p \in Probes |-> Closed]
    /\ owns       = [p \in Probes |-> FALSE]
    /\ token      = [p \in Probes |-> FALSE]
    /\ window     = [p \in Probes |-> 0]
    /\ originUp   = TRUE
    /\ purged     = [r \in Replicas |-> FALSE]

\* The call is over; its decision is dropped.
Return(p) ==
    /\ pc'   = [pc EXCEPT ![p] = "idle"]
    /\ snap' = [snap EXCEPT ![p] = Closed]
    /\ seen' = [seen EXCEPT ![p] = Closed]

\* The decision lets the caller run the loader.
GoToOrigin(p, state) ==
    /\ pc'   = [pc EXCEPT ![p] = "origin"]
    /\ snap' = [snap EXCEPT ![p] = Closed]
    /\ seen' = [seen EXCEPT ![p] = state]

\* The decision denies the origin.  get_or_refresh_probe returns the cached
\* evidence, or goes on to the origin when there is none.
Suppress(p, state) ==
    \/ Return(p)
    \/ p \in ColdCalls /\ GoToOrigin(p, state)

-----------------------------------------------------------------------------
\* before_provider_probe up to its GET: _load_state copies the local state.
Start(p) ==
    /\ pc[p] = "idle"
    /\ pc'   = [pc EXCEPT ![p] = "reading"]
    /\ snap' = [snap EXCEPT ![p] = local[Home[p]]]
    /\ UNCHANGED <<local, inProgress, remote, lease, seen, owns, token,
                   window, originUp, purged>>

\* provider in _half_open_in_progress, as before_provider_probe tests it
HalfOpenUntested(r) == FALSE                    \* bug: the test is dropped
HalfOpenBusy(r)     == inProgress[r]

\* The decision taken from the loaded state; shared says Redis answered.
Decide(p, state, shared) ==
    LET r        == Home[p]
        halfOpen == state.openFor = 0 /\ state.failures >= FailureThreshold
    IN  \/ /\ state.openFor > 0 \/ (halfOpen /\ HalfOpenBusy(r))
           /\ Suppress(p, state)
           /\ UNCHANGED <<inProgress, owns>>
        \/ /\ state.openFor = 0 /\ state.failures < FailureThreshold
           /\ GoToOrigin(p, state)
           /\ UNCHANGED <<inProgress, owns>>
        \/ /\ halfOpen /\ ~HalfOpenBusy(r)
           /\ inProgress' = [inProgress EXCEPT ![r] = TRUE]
           /\ owns' = [owns EXCEPT ![p] = TRUE]
           /\ seen' = [seen EXCEPT ![p] = state]
           /\ snap' = [snap EXCEPT ![p] = Closed]
           /\ pc'   = [pc EXCEPT ![p] = IF shared THEN "acquiring"
                                                  ELSE "origin"]

\* _load_state's merge and the store that follows it
Merged(p) == MergeStates(snap[p], remote)

\* The GET answers: the merged state replaces the local one, then decides.
ReadShared(p) ==
    /\ pc[p] = "reading"
    /\ local' = [local EXCEPT ![Home[p]] = Merged(p)]
    /\ Decide(p, Merged(p), TRUE)
    /\ UNCHANGED <<remote, lease, token, window, originUp, purged>>

\* There is no client, or the GET raised: the copied local state decides.
ReadLocal(p) ==
    /\ pc[p] = "reading"
    /\ RedisFails
    /\ Decide(p, snap[p], FALSE)
    /\ UNCHANGED <<local, remote, lease, token, window, originUp, purged>>

\* SET NX EX of the half-open lock, when the server runs it.
TakeLease(p) ==
    lease' = IF lease.owner = NoProbe THEN [owner |-> p, ttl |-> LockTTL]
                                      ELSE lease

AcquireGranted(p) ==
    /\ pc[p] = "acquiring"
    /\ lease.owner = NoProbe
    /\ TakeLease(p)
    /\ token'  = [token EXCEPT ![p] = TRUE]
    /\ window' = [window EXCEPT ![p] = LockTTL]
    /\ pc'     = [pc EXCEPT ![p] = "origin"]
    /\ UNCHANGED <<local, inProgress, remote, snap, seen, owns, originUp,
                   purged>>

\* A peer replica holds the lock: the local ownership is given back at once.
AcquireRefused(p) ==
    /\ pc[p] = "acquiring"
    /\ lease.owner # NoProbe
    /\ inProgress' = [inProgress EXCEPT ![Home[p]] = FALSE]
    /\ owns'       = [owns EXCEPT ![p] = FALSE]
    /\ Suppress(p, seen[p])
    /\ UNCHANGED <<local, remote, lease, token, window, originUp, purged>>

\* The SET raised, applied or not: the probe goes on without a token.
AcquireRaised(p) ==
    /\ pc[p] = "acquiring"
    /\ RedisFails
    /\ TakeLease(p) \/ UNCHANGED lease
    /\ pc' = [pc EXCEPT ![p] = "origin"]
    /\ UNCHANGED <<local, inProgress, remote, snap, seen, owns, token,
                   window, originUp, purged>>

-----------------------------------------------------------------------------
\* The loader ended; record_provider_probe_outcome copies the local state.
OriginEnds(p) ==
    /\ pc[p] = "origin"
    /\ pc'   = [pc EXCEPT ![p] = IF originUp THEN "record_ok"
                                             ELSE "record_fail"]
    /\ snap' = [snap EXCEPT ![p] = local[Home[p]]]
    /\ UNCHANGED <<local, inProgress, remote, lease, seen, owns, token,
                   window, originUp, purged>>

\* The outcome replaces the local state; with Redis it is mirrored next.
Record(p, states, shared) ==
    \E state \in states :
        /\ local' = [local EXCEPT ![Home[p]] = state]
        /\ seen'  = [seen EXCEPT ![p] = state]
        /\ snap'  = [snap EXCEPT ![p] = Closed]
        /\ pc'    = [pc EXCEPT ![p] = IF shared THEN "mirroring"
                                                ELSE "settled"]
        /\ UNCHANGED <<inProgress, remote, lease, owns, token, window,
                       originUp, purged>>

RecordSuccess(p) ==
    /\ pc[p] = "record_ok"
    /\ \/ Record(p, {Closed}, TRUE)
       \/ RedisFails /\ Record(p, {Closed}, FALSE)

RecordFailure(p) ==
    /\ pc[p] = "record_fail"
    /\ \/ Record(p, FailureStates(Merged(p), seen[p]), TRUE)
       \/ RedisFails /\ Record(p, FailureStates(snap[p], seen[p]), FALSE)

\* The DELETE after a success, or the SET after a failure, is answered.
Mirror(p) ==
    /\ pc[p] = "mirroring"
    /\ \/ remote' = seen[p]
       \/ RedisFails /\ UNCHANGED remote
    /\ pc' = [pc EXCEPT ![p] = "settled"]
    /\ UNCHANGED <<local, inProgress, lease, snap, seen, owns, token, window,
                   originUp, purged>>

\* _half_open_in_progress.discard, for the owner only
MarkKept(p)  == UNCHANGED inProgress            \* bug: never cleared
ClearMark(p) ==
    inProgress' = IF owns[p] THEN [inProgress EXCEPT ![Home[p]] = FALSE]
                             ELSE inProgress

\* release_provider_probe up to its EVAL, reached from the caller's finally.
Release(p) ==
    /\ ClearMark(p)
    /\ owns' = [owns EXCEPT ![p] = FALSE]
    /\ snap' = [snap EXCEPT ![p] = Closed]
    /\ seen' = [seen EXCEPT ![p] = Closed]
    /\ pc'   = [pc EXCEPT ![p] = IF token[p] THEN "unlocking" ELSE "idle"]
    /\ UNCHANGED <<lease, token, window, originUp, purged>>

Finish(p) ==
    /\ pc[p] = "settled"
    /\ Release(p)
    /\ UNCHANGED <<local, remote>>

\* backoff_seconds raises: the merged state stays, the error leaves the call
\* through the same finally, and nothing is recorded.
RecordOverflows(p) ==
    /\ pc[p] = "record_fail"
    /\ \/ /\ Overflows(FailureCount(Merged(p), seen[p]))
          /\ local' = [local EXCEPT ![Home[p]] = Merged(p)]
       \/ /\ RedisFails /\ Overflows(FailureCount(snap[p], seen[p]))
          /\ UNCHANGED local
    /\ Release(p)
    /\ UNCHANGED remote

\* The provider's rate budget rejects the attempt: no outcome is recorded.
BudgetRejects(p) ==
    /\ pc[p] = "origin"
    /\ Release(p)
    /\ UNCHANGED <<local, remote>>

\* The Lua script of release_lock deletes the key only for its own token.
TokenUnchecked(p) == TRUE                       \* bug: a plain DEL
TokenMatches(p)   == lease.owner = p

DropToken(p) ==
    /\ token'  = [token EXCEPT ![p] = FALSE]
    /\ window' = [window EXCEPT ![p] = 0]
    /\ pc'     = [pc EXCEPT ![p] = "idle"]
    /\ UNCHANGED <<local, inProgress, remote, snap, seen, owns, originUp,
                   purged>>

Unlock(p) ==
    /\ pc[p] = "unlocking"
    /\ DropToken(p)
    /\ \/ lease' = IF TokenMatches(p) THEN [owner |-> NoProbe, ttl |-> 0]
                                      ELSE lease
       \/ RedisFails /\ UNCHANGED lease

-----------------------------------------------------------------------------
\* CancelledError is no Exception: it passes every handler of the module.
CancelReading(p) ==
    /\ pc[p] = "reading"
    /\ Return(p)
    /\ UNCHANGED <<local, inProgress, remote, lease, owns, token, window,
                   originUp, purged>>

\* Nothing discards the provider from _half_open_in_progress here.
CancelAcquiring(p) ==
    /\ pc[p] = "acquiring"
    /\ TakeLease(p) \/ UNCHANGED lease
    /\ Return(p)
    /\ owns' = [owns EXCEPT ![p] = FALSE]
    /\ UNCHANGED <<local, inProgress, remote, token, window, originUp, purged>>

\* The finally of get_or_refresh_probe releases whatever was owned; a mirror
\* command already sent may still be applied.
CancelRefresh(p) ==
    /\ pc[p] \in {"origin", "record_ok", "record_fail", "mirroring", "settled"}
    /\ Release(p)
    /\ UNCHANGED local
    /\ \/ UNCHANGED remote
       \/ pc[p] = "mirroring" /\ remote' = seen[p]

CancelUnlocking(p) ==
    /\ pc[p] = "unlocking"
    /\ DropToken(p)
    /\ UNCHANGED lease

Cancel(p) ==
    /\ pc[p] \in Cancellable
    /\ \/ CancelReading(p) \/ CancelAcquiring(p)
       \/ CancelRefresh(p) \/ CancelUnlocking(p)

\* Time passes for every copy of an instant, and for the lock's EX.
Tick ==
    /\ local'  = [r \in Replicas |-> Elapse(local[r])]
    /\ snap'   = [p \in Probes |-> Elapse(snap[p])]
    /\ seen'   = [p \in Probes |-> Elapse(seen[p])]
    /\ remote' = Elapse(remote)
    /\ lease'  = IF lease.ttl > 1 THEN [lease EXCEPT !.ttl = @ - 1]
                                  ELSE [owner |-> NoProbe, ttl |-> 0]
    /\ window' = [p \in Probes |-> IF window[p] > 0 THEN window[p] - 1 ELSE 0]
    /\ UNCHANGED <<inProgress, pc, owns, token, originUp, purged>>

\* The circuit key lives 2 * max_backoff, longer than any open_until in it.
RemoteExpires ==
    /\ remote.openFor = 0
    /\ remote' = Absent
    /\ UNCHANGED <<local, inProgress, lease, callVars, originUp, purged>>

\* A replica is replaced: its memory and its tasks are gone, Redis stays.
Restart(r) ==
    LET cleared(f, v) == [p \in Probes |-> IF Home[p] = r THEN v ELSE f[p]]
    IN  /\ local'      = [local EXCEPT ![r] = Closed]
        /\ inProgress' = [inProgress EXCEPT ![r] = FALSE]
        /\ pc'     = cleared(pc, "idle")
        /\ snap'   = cleared(snap, Closed)
        /\ seen'   = cleared(seen, Closed)
        /\ owns'   = cleared(owns, FALSE)
        /\ token'  = cleared(token, FALSE)
        /\ window' = cleared(window, 0)
        /\ purged' = [purged EXCEPT ![r] = FALSE]
        /\ UNCHANGED <<remote, lease, originUp>>

\* POST /api/health-board/cache/reset forgets the provider in the replica that
\* serves it, whatever calls are in flight there ...
PurgeLocal(r) ==
    /\ Purges
    /\ local'      = [local EXCEPT ![r] = Closed]
    /\ inProgress' = [inProgress EXCEPT ![r] = FALSE]
    /\ purged'     = [purged EXCEPT ![r] = TRUE]
    /\ UNCHANGED <<remote, lease, callVars, originUp>>

\* ... and then deletes both Redis keys, for all replicas: no window granted
\* before stands after.
PurgeRemote ==
    /\ Purges
    /\ remote' = Absent
    /\ lease'  = [owner |-> NoProbe, ttl |-> 0]
    /\ window' = [p \in Probes |-> 0]
    /\ UNCHANGED <<local, inProgress, pc, snap, seen, owns, token, originUp,
                   purged>>

OriginFlips ==
    /\ originUp' = ~originUp
    /\ UNCHANGED <<local, inProgress, remote, lease, callVars, purged>>

Acquire(p) == AcquireGranted(p) \/ AcquireRefused(p) \/ AcquireRaised(p)

Step(p) ==
    \/ Start(p) \/ ReadShared(p) \/ ReadLocal(p) \/ Acquire(p)
    \/ OriginEnds(p) \/ BudgetRejects(p) \/ RecordSuccess(p)
    \/ RecordFailure(p) \/ RecordOverflows(p) \/ Mirror(p) \/ Finish(p)
    \/ Unlock(p)

Next ==
    \/ \E p \in Probes : Step(p) \/ Cancel(p)
    \/ \E r \in Replicas : Restart(r) \/ PurgeLocal(r)
    \/ PurgeRemote \/ Tick \/ RemoteExpires \/ OriginFlips

Spec == Init /\ [][Next]_vars

\* Callers keep asking (dashboards and scrapers poll), every await returns,
\* the budget's windows roll over, and time passes.
Fairness ==
    /\ \A p \in Probes : WF_vars(Step(p)) /\ SF_vars(OriginEnds(p))
    /\ WF_vars(Tick)

FairSpec == Spec /\ Fairness

-----------------------------------------------------------------------------
TypeOK ==
    /\ local \in [Replicas -> CircuitState]
    /\ inProgress \in [Replicas -> BOOLEAN]
    /\ remote \in CircuitState
    /\ lease \in [owner : Probes \cup {NoProbe}, ttl : 0 .. LockTTL]
    /\ pc \in [Probes -> Awaits \cup {"idle"}]
    /\ snap \in [Probes -> CircuitState]
    /\ seen \in [Probes -> CircuitState]
    /\ owns \in [Probes -> BOOLEAN]
    /\ token \in [Probes -> BOOLEAN]
    /\ window \in [Probes -> 0 .. LockTTL]
    /\ originUp \in BOOLEAN
    /\ purged \in [Replicas -> BOOLEAN]

\* Within one replica at most one probe owns the half-open attempt, whatever
\* Redis does and wherever a call is cancelled (_half_open_in_progress), until
\* an operator purges the circuit under a running attempt.
OneLocalHalfOpenOwner ==
    \A p, q \in Probes :
        owns[p] /\ owns[q] /\ Home[p] = Home[q] /\ ~purged[Home[p]] => p = q

\* During the TTL a probe was granted with its token, no other probe of any
\* replica is granted the half-open lock, even when an earlier holder whose
\* lock had expired releases late (the token check of release_lock).  A purge
\* deletes the lock and ends the windows with it.
OneTokenPerWindow ==
    \A p, q \in Probes : window[p] > 0 /\ window[q] > 0 => p = q

\* A replica marked half-open has a probe that will clear the mark.
HalfOpenFlagHasOwner ==
    \A r \in Replicas :
        inProgress[r] => \E p \in Probes : Home[p] = r /\ owns[p]

\* A failure never lets the provider be asked sooner than a window its recorder
\* has heard of allows: the one its decision was taken in, the one its replica had
\* when the outcome was reported, the one Redis answers with.  An attempt may be
\* reported long after others of its replica or of a peer have opened the circuit,
\* and its own backoff must be no shorter than what is left of theirs, which only
\* holds because the counts are merged and doubling outweighs jitter.  A failed
\* recovery opens the circuit whatever became of the stored count meanwhile.
FailuresExtend ==
    [][\A p \in Probes : RecordFailure(p) =>
          LET opened == local'[Home[p]].openFor
          IN  /\ opened >= snap[p].openFor
              /\ opened >= seen[p].openFor
              /\ pc'[p] = "mirroring" => opened >= remote.openFor
              /\ owns[p] => opened > 0]_vars

\* Once the origin stays up, a replica's callers find its circuit reset again
\* and again: no open window, half-open mark or lost lock shuts it for good.
RecoversAfterOutage ==
    <>[]originUp => \A r \in Replicas : []<>(local[r].failures = 0)

=============================================================================
