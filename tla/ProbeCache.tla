----------------------------- MODULE ProbeCache -----------------------------
(***************************************************************************)
(* get_or_refresh_probe of nabla/api/external_probe_cache.py for one key:  *)
(* the L1 copy and the refresh lock of each replica, the envelope and the  *)
(* refresh lock in Redis, and every caller between its awaits.             *)
(*                                                                         *)
(* The circuit breaker and the rate budget are seen as what they answer    *)
(* (ProviderCircuit models the first).  An observation is its success flag *)
(* and its age; ages stop at Old, beyond every TTL.                        *)
(***************************************************************************)
EXTENDS Naturals

CONSTANTS
    Replicas,       \* processes sharing one Redis
    Callers,        \* concurrent calls, one asyncio task each
    Home,           \* the replica each caller runs in
    NoCaller,       \* a free lock
    NoEnvelope,     \* no cached envelope
    SuccessTTL, FailureTTL, StaleTTL,   \* ProbeCachePolicy
    HotTTL,         \* _L1_HOT_TTL_SEC
    LockTTL,        \* ProbeCachePolicy.lock_ttl
    RedisFails,     \* the commands that may raise: "get", "lock", "set"
    Cancellable,    \* the awaits a caller's deadline may interrupt
    CircuitDenies,  \* whether the provider circuit may deny
    BudgetDenies,   \* whether the provider rate budget may deny
    MaxPurges       \* bound: purges a replica sees in its life

\* A purge of the key forgets its lock; the next call makes the next lock.
Locks == 0 .. MaxPurges

\* The awaits under the local refresh lock, and all of them.
LockedAwaits == {"reading", "locking", "polling", "deciding", "admitting",
                 "origin", "writing", "unlocking"}
Awaits == LockedAwaits \cup {"waiting"}

ASSUME ConstantsAssumption ==
    /\ Home \in [Callers -> Replicas]
    /\ NoCaller \notin Callers
    /\ {SuccessTTL, FailureTTL, StaleTTL, HotTTL} \subseteq Nat
    /\ LockTTL \in Nat \ {0}
    /\ RedisFails \subseteq {"get", "lock", "set"}
    /\ Cancellable \subseteq Awaits
    /\ CircuitDenies \in BOOLEAN
    /\ BudgetDenies \in BOOLEAN
    /\ MaxPurges \in Nat

VARIABLES
    l1,           \* _l1: the envelope each replica retains
    held,         \* time since that envelope was put
    epoch,        \* _refresh_locks: the lock a replica hands out now
    flight,       \* refresh_lock: the lock each caller was handed
    refreshing,   \* who holds each lock of each replica
    remote,       \* the Redis key health:v1:probe:<key>
    lease,        \* the Redis key health:v1:lock:<key>
    pc,           \* where each caller is suspended
    last,         \* last_envelope, then the new envelope being written
    avail,        \* redis_available
    token,        \* lock_acquired
    window,       \* history: time left of the TTL a token holder was granted
    results       \* history: the result the last step returned, if any

vars == <<l1, held, epoch, flight, refreshing, remote, lease, pc, last, avail,
          token, window, results>>
l1Vars    == <<l1, held>>
redisVars == <<remote, lease>>
lockVars  == <<epoch, flight>>

-----------------------------------------------------------------------------
Larger(a, b)  == IF a >= b THEN a ELSE b
Smaller(a, b) == IF a <= b THEN a ELSE b

\* The longest evidence window: L1 retention and the key's EX.
Retention == Larger(SuccessTTL, Larger(FailureTTL, StaleTTL))
Old       == Retention + 1
NoGood    == Old + 1
Ages      == 0 .. Old

\* current is [ok, age]; good is the age of last_good.  A successful current
\* is its own last_good.
Envelope == {e \in [ok : BOOLEAN, age : Ages, good : Ages \cup {NoGood}] :
                e.ok => e.good = e.age}

ASSUME EnvelopeAssumption == NoEnvelope \notin Envelope

Older(age) == IF age < Old THEN age + 1 ELSE age
Aged(e) == IF e = NoEnvelope THEN e
           ELSE [e EXCEPT !.age = Older(@), !.good = Older(@)]

TTL(e)            == IF e.ok THEN SuccessTTL ELSE FailureTTL
ExpiredOnce(e)    == e.age <= TTL(e)                \* bug: <= for <
CurrentFresh(e)   == e.age < TTL(e)
UsableFresh(e)    == e # NoEnvelope /\ CurrentFresh(e)
ValidLastGood(e)  == e.good <= StaleTTL
FailedWithGood(e) == ~e.ok /\ ValidLastGood(e)

\* _l1_get: the retained envelope, and whether it may bypass Redis.
Retained(r) == IF held[r] >= Retention THEN NoEnvelope ELSE l1[r]
Hot(r) ==
    LET e == Retained(r)
    IN  UsableFresh(e) /\ held[r] < Smaller(HotTTL, TTL(e))

\* _cached_lookup looks at L1 again under the lock
ForgetRecheck(r) == FALSE                           \* bug: no second look
HotUnderLock(r)  == Hot(r)

Pop(r) == l1' = [l1 EXCEPT ![r] = Retained(r)] /\ UNCHANGED held
Put(r, e) == /\ l1'   = [l1 EXCEPT ![r] = e]
             /\ held' = [held EXCEPT ![r] = 0]

-----------------------------------------------------------------------------
\* _result_from_envelope: whatever value it serves, a result carries the last good
\* evidence of its envelope while that is valid.
Offered(e) == IF ValidLastGood(e) THEN e.good ELSE NoGood

Results == [of : Replicas, good : Ages \cup {NoGood}]

Result(c, e) == results' = {[of |-> Home[c], good |-> Offered(e)]}

\* The step returns no result.
Silent == results' = {}

Init ==
    /\ l1         = [r \in Replicas |-> NoEnvelope]
    /\ held       = [r \in Replicas |-> 0]
    /\ epoch      = [r \in Replicas |-> 0]
    /\ flight     = [c \in Callers |-> 0]
    /\ refreshing = [r \in Replicas |-> [l \in Locks |-> NoCaller]]
    /\ remote     = NoEnvelope
    /\ lease      = [owner |-> NoCaller, ttl |-> 0]
    /\ pc         = [c \in Callers |-> "idle"]
    /\ last       = [c \in Callers |-> NoEnvelope]
    /\ avail      = [c \in Callers |-> FALSE]
    /\ token      = [c \in Callers |-> FALSE]
    /\ window     = [c \in Callers |-> 0]
    /\ results    = {}

\* async with refresh_lock ends
LockKept(c)     == UNCHANGED refreshing             \* bug: never released
LockReturned(c) ==
    refreshing' = [refreshing EXCEPT ![Home[c]][flight[c]] = NoCaller]

\* The lock a caller was handed is one of its locals.
Forget(c) == flight' = [flight EXCEPT ![c] = 0] /\ UNCHANGED epoch

\* The call is over and its locals are gone.
Leave(c) ==
    /\ pc'     = [pc EXCEPT ![c] = "idle"]
    /\ LockReturned(c)
    /\ Forget(c)
    /\ last'   = [last EXCEPT ![c] = NoEnvelope]
    /\ avail'  = [avail EXCEPT ![c] = FALSE]
    /\ token'  = [token EXCEPT ![c] = FALSE]
    /\ window' = [window EXCEPT ![c] = 0]

\* The call is decided; a lock it acquired in Redis is released first.
Conclude(c) ==
    \/ ~token[c] /\ Leave(c)
    \/ /\ token[c]
       /\ pc' = [pc EXCEPT ![c] = "unlocking"]
       /\ UNCHANGED <<lockVars, refreshing, last, avail, token, window>>

\* The call goes on under the local lock.
Proceed(c, to) ==
    /\ pc' = [pc EXCEPT ![c] = to]
    /\ UNCHANGED <<lockVars, refreshing>>

-----------------------------------------------------------------------------
\* The unlocked look at L1: a hot fresh copy answers at once.
Call(c) ==
    LET r == Home[c]
    IN  /\ pc[c] = "idle"
        /\ Pop(r)
        /\ \/ Hot(r) /\ Result(c, l1[r]) /\ UNCHANGED <<pc, flight>>
           \/ /\ ~Hot(r)
              /\ pc' = [pc EXCEPT ![c] = "waiting"]
              /\ flight' = [flight EXCEPT ![c] = epoch[r]]
              /\ Silent
        /\ UNCHANGED <<epoch, refreshing, redisVars, last, avail, token,
                       window>>

LockIgnored(c) == TRUE                              \* bug: no single flight
LockFree(c)    == refreshing[Home[c]][flight[c]] = NoCaller

\* The refresh lock is taken and L1 looked at again.
Enter(c) ==
    LET r == Home[c]
    IN  /\ pc[c] = "waiting"
        /\ LockFree(c)
        /\ Pop(r)
        /\ \/ HotUnderLock(r) /\ Result(c, l1[r]) /\ Leave(c)
           \/ /\ ~HotUnderLock(r)
              /\ pc' = [pc EXCEPT ![c] = "reading"]
              /\ refreshing' = [refreshing EXCEPT ![r][flight[c]] = c]
              /\ last' = [last EXCEPT ![c] = Retained(r)]
              /\ Silent
              /\ UNCHANGED <<lockVars, avail, token, window>>
        /\ UNCHANGED redisVars

\* The GET answers with an envelope, or with none: fresh ends the call.
ReadAnswered(c) ==
    /\ pc[c] = "reading"
    /\ \/ /\ remote = NoEnvelope
          /\ Proceed(c, "locking")
          /\ Silent
          /\ UNCHANGED <<l1Vars, last, token, window>>
          /\ avail' = [avail EXCEPT ![c] = TRUE]
       \/ /\ remote # NoEnvelope
          /\ Put(Home[c], remote)
          /\ \/ CurrentFresh(remote) /\ Result(c, remote) /\ Leave(c)
             \/ /\ ~CurrentFresh(remote)
                /\ Proceed(c, "locking")
                /\ last'  = [last EXCEPT ![c] = remote]
                /\ avail' = [avail EXCEPT ![c] = TRUE]
                /\ Silent
                /\ UNCHANGED <<token, window>>
    /\ UNCHANGED redisVars

\* There is no client, or the GET raised: retained fresh evidence answers.
ReadRaised(c) ==
    /\ pc[c] = "reading"
    /\ "get" \in RedisFails
    /\ \/ /\ UsableFresh(last[c])
          /\ Result(c, last[c]) /\ Leave(c)
       \/ /\ ~UsableFresh(last[c])
          /\ Proceed(c, "deciding")
          /\ Silent
          /\ UNCHANGED <<last, avail, token, window>>
    /\ UNCHANGED <<l1Vars, redisVars>>

-----------------------------------------------------------------------------
\* SET NX EX of the refresh lock, when the server runs it.
TakeLease(c) ==
    lease' = IF lease.owner = NoCaller THEN [owner |-> c, ttl |-> LockTTL]
                                       ELSE lease

LockGranted(c) ==
    /\ pc[c] = "locking"
    /\ lease.owner = NoCaller
    /\ TakeLease(c)
    /\ token'  = [token EXCEPT ![c] = TRUE]
    /\ window' = [window EXCEPT ![c] = LockTTL]
    /\ Proceed(c, "deciding")
    /\ Silent
    /\ UNCHANGED <<l1Vars, remote, last, avail>>

LockRefused(c) ==
    /\ pc[c] = "locking"
    /\ lease.owner # NoCaller
    /\ Proceed(c, "polling")
    /\ Silent
    /\ UNCHANGED <<l1Vars, redisVars, last, avail, token, window>>

\* The SET raised, applied or not: the call goes on without Redis.
LockRaised(c) ==
    /\ pc[c] = "locking"
    /\ "lock" \in RedisFails
    /\ TakeLease(c) \/ UNCHANGED lease
    /\ Proceed(c, "deciding")
    /\ avail' = [avail EXCEPT ![c] = FALSE]
    /\ Silent
    /\ UNCHANGED <<l1Vars, remote, last, token, window>>

\* _wait_for_peer finds the peer's fresh envelope.
PollFinds(c) ==
    /\ pc[c] = "polling"
    /\ UsableFresh(remote)
    /\ Put(Home[c], remote)
    /\ Result(c, remote)
    /\ Leave(c)
    /\ UNCHANGED redisVars

\* wait_timeout is over: stale evidence answers; a cold call goes on.
PollGivesUp(c) ==
    /\ pc[c] = "polling"
    /\ \/ /\ last[c] # NoEnvelope
          /\ Result(c, last[c])
          /\ Leave(c)
       \/ /\ last[c] = NoEnvelope
          /\ Proceed(c, "deciding")
          /\ Silent
          /\ UNCHANGED <<last, avail, token, window>>
    /\ UNCHANGED <<l1Vars, redisVars>>

\* A GET of the poll raised.
PollRaised(c) ==
    /\ pc[c] = "polling"
    /\ "get" \in RedisFails
    /\ Proceed(c, "deciding")
    /\ avail' = [avail EXCEPT ![c] = FALSE]
    /\ Silent
    /\ UNCHANGED <<l1Vars, redisVars, last, token, window>>

-----------------------------------------------------------------------------
\* A denied call is answered from its last envelope, whatever its age.
SuppressedResult(c) ==
    last[c] # NoEnvelope /\ Result(c, last[c]) /\ Conclude(c)

\* before_provider_probe answers.  Without an envelope a denied call goes on.
Decide(c) ==
    /\ pc[c] = "deciding"
    /\ \/ /\ Proceed(c, "admitting")
          /\ Silent
          /\ UNCHANGED <<last, avail, token, window>>
       \/ CircuitDenies /\ SuppressedResult(c)
    /\ UNCHANGED <<l1Vars, redisVars>>

\* admit_provider_probe answers, with the same choice.
Admit(c) ==
    /\ pc[c] = "admitting"
    /\ \/ /\ Proceed(c, "origin")
          /\ Silent
          /\ UNCHANGED <<last, avail, token, window>>
       \/ BudgetDenies /\ SuppressedResult(c)
    /\ UNCHANGED <<l1Vars, redisVars>>

\* _store_refreshed_envelope: the new envelope after an observation.
GoodForgotten(e, ok) ==                             \* bug: previous_good dropped
    [ok |-> ok, age |-> 0, good |-> IF ok THEN 0 ELSE NoGood]
Observed(e, ok) ==
    [ok |-> ok, age |-> 0,
     good |-> IF ok THEN 0
              ELSE IF e # NoEnvelope /\ ValidLastGood(e) THEN e.good
              ELSE NoGood]

\* The loader returned: L1 first, then Redis while it is believed available.
OriginReturns(c) ==
    /\ pc[c] = "origin"
    /\ \E ok \in BOOLEAN :
        LET e == Observed(last[c], ok)
        IN  /\ Put(Home[c], e)
            /\ \/ /\ avail[c]
                  /\ Proceed(c, "writing")
                  /\ last' = [last EXCEPT ![c] = e]
                  /\ Silent
                  /\ UNCHANGED <<avail, token, window>>
               \/ ~avail[c] /\ Result(c, e) /\ Conclude(c)
    /\ UNCHANGED redisVars

\* The loader raised: the error leaves through the finally.
OriginRaises(c) ==
    /\ pc[c] = "origin"
    /\ Conclude(c)
    /\ Silent
    /\ UNCHANGED <<l1Vars, redisVars>>

\* The SET of the envelope is answered, or raised, applied or not.
Write(c) ==
    /\ pc[c] = "writing"
    /\ remote' = last[c] \/ ("set" \in RedisFails /\ UNCHANGED remote)
    /\ Result(c, last[c])
    /\ Conclude(c)
    /\ UNCHANGED <<l1Vars, lease>>

\* The Lua script of release_lock deletes the key only for its own token.
TokenUnchecked(c) == TRUE                           \* bug: a plain DEL
TokenMatches(c)   == lease.owner = c

Unlock(c) ==
    /\ pc[c] = "unlocking"
    /\ Leave(c)
    /\ \/ lease' = IF TokenMatches(c) THEN [owner |-> NoCaller, ttl |-> 0]
                                      ELSE lease
       \/ "lock" \in RedisFails /\ UNCHANGED lease
    /\ Silent
    /\ UNCHANGED <<l1Vars, remote>>

-----------------------------------------------------------------------------
\* Nothing is held before the refresh lock.
CancelWaiting(c) ==
    /\ pc[c] = "waiting"
    /\ pc' = [pc EXCEPT ![c] = "idle"]
    /\ Forget(c)
    /\ Silent
    /\ UNCHANGED <<l1Vars, refreshing, redisVars, last, avail, token, window>>

\* Before the try, a lock taken in Redis is left to its TTL.
CancelLookup(c) ==
    /\ pc[c] \in {"reading", "locking", "polling", "deciding", "unlocking"}
    /\ Leave(c)
    /\ \/ UNCHANGED lease
       \/ pc[c] = "locking" /\ TakeLease(c)
    /\ Silent
    /\ UNCHANGED <<l1Vars, remote>>

\* Inside the try, the finally releases; a SET on its way may be applied.
CancelRefresh(c) ==
    /\ pc[c] \in {"admitting", "origin", "writing"}
    /\ Conclude(c)
    /\ \/ UNCHANGED remote
       \/ pc[c] = "writing" /\ remote' = last[c]
    /\ Silent
    /\ UNCHANGED <<l1Vars, lease>>

Cancel(c) ==
    /\ pc[c] \in Cancellable
    /\ CancelWaiting(c) \/ CancelLookup(c) \/ CancelRefresh(c)

\* Time passes for every copy of an observation and for the lock's EX.
Tick ==
    /\ l1'     = [r \in Replicas |-> Aged(l1[r])]
    /\ held'   = [r \in Replicas |-> Older(held[r])]
    /\ last'   = [c \in Callers |-> Aged(last[c])]
    /\ remote' = Aged(remote)
    /\ lease'  = IF lease.ttl > 1 THEN [lease EXCEPT !.ttl = @ - 1]
                                  ELSE [owner |-> NoCaller, ttl |-> 0]
    /\ window' = [c \in Callers |-> IF window[c] > 0 THEN window[c] - 1 ELSE 0]
    /\ Silent
    /\ UNCHANGED <<lockVars, refreshing, pc, avail, token>>

\* The envelope's EX is over: it was written when its current was observed.
RemoteExpires ==
    /\ remote # NoEnvelope /\ remote.age >= Retention
    /\ remote' = NoEnvelope
    /\ Silent
    /\ UNCHANGED <<l1Vars, lockVars, refreshing, lease, pc, last, avail, token,
                   window>>

\* A replica is replaced: its memory and its tasks are gone, Redis stays.
Restart(r) ==
    LET cleared(f, v) == [c \in Callers |-> IF Home[c] = r THEN v ELSE f[c]]
    IN  /\ l1'         = [l1 EXCEPT ![r] = NoEnvelope]
        /\ held'       = [held EXCEPT ![r] = 0]
        /\ epoch'      = [epoch EXCEPT ![r] = 0]
        /\ refreshing' = [refreshing EXCEPT ![r] = [l \in Locks |-> NoCaller]]
        /\ flight' = cleared(flight, 0)
        /\ pc'     = cleared(pc, "idle")
        /\ last'   = cleared(last, NoEnvelope)
        /\ avail'  = cleared(avail, FALSE)
        /\ token'  = cleared(token, FALSE)
        /\ window' = cleared(window, 0)
        /\ Silent
        /\ UNCHANGED redisVars

\* The operator purges the key: L1 and the refresh lock are forgotten, and
\* whoever holds or awaits that lock goes on with it beside the next one.
PurgeLocal(r) ==
    /\ epoch[r] < MaxPurges
    /\ epoch' = [epoch EXCEPT ![r] = @ + 1]
    /\ Put(r, NoEnvelope)
    /\ Silent
    /\ UNCHANGED <<flight, refreshing, redisVars, pc, last, avail, token,
                   window>>

\* The purge's DEL of the envelope and of the lock, whoever holds it.
PurgeRemote ==
    /\ MaxPurges > 0
    /\ remote' = NoEnvelope
    /\ lease'  = [owner |-> NoCaller, ttl |-> 0]
    /\ window' = [c \in Callers |-> 0]
    /\ Silent
    /\ UNCHANGED <<l1Vars, lockVars, refreshing, pc, last, avail, token>>

Lookup(c)  == Enter(c) \/ ReadAnswered(c) \/ ReadRaised(c)
Contend(c) == \/ LockGranted(c) \/ LockRefused(c) \/ LockRaised(c)
              \/ PollFinds(c) \/ PollGivesUp(c) \/ PollRaised(c)
Refresh(c) == \/ Decide(c) \/ Admit(c) \/ OriginReturns(c) \/ OriginRaises(c)
              \/ Write(c) \/ Unlock(c)
Progress(c) == Lookup(c) \/ Contend(c) \/ Refresh(c)

Next ==
    \/ \E c \in Callers : Call(c) \/ Progress(c) \/ Cancel(c)
    \/ \E r \in Replicas : Restart(r) \/ PurgeLocal(r)
    \/ Tick \/ RemoteExpires \/ PurgeRemote

Spec == Init /\ [][Next]_vars

\* Every await returns, and asyncio.Lock wakes its waiters in order.
Fairness == \A c \in Callers : WF_vars(Progress(c)) /\ SF_vars(Enter(c))

FairSpec == Spec /\ Fairness

-----------------------------------------------------------------------------
TypeOK ==
    /\ l1 \in [Replicas -> Envelope \cup {NoEnvelope}]
    /\ held \in [Replicas -> Ages]
    /\ epoch \in [Replicas -> Locks]
    /\ flight \in [Callers -> Locks]
    /\ refreshing \in [Replicas -> [Locks -> Callers \cup {NoCaller}]]
    /\ remote \in Envelope \cup {NoEnvelope}
    /\ lease \in [owner : Callers \cup {NoCaller}, ttl : 0 .. LockTTL]
    /\ pc \in [Callers -> Awaits \cup {"idle"}]
    /\ last \in [Callers -> Envelope \cup {NoEnvelope}]
    /\ avail \in [Callers -> BOOLEAN]
    /\ token \in [Callers -> BOOLEAN]
    /\ window \in [Callers -> 0 .. LockTTL]
    /\ results \subseteq Results

\* No caller loads from the origin while its own replica holds a hot fresh
\* copy: whoever waited for the lock looks again once it has it, and nobody
\* else of the replica can put a newer copy during the load.  A purged replica
\* may have two locks at work and promises nothing.
HotEvidenceSparesOrigin ==
    \A c \in Callers :
        epoch[Home[c]] = 0 /\ pc[c] = "origin" => ~Hot(Home[c])

\* During the TTL a caller was granted with its token no other caller of any
\* replica is granted the refresh lock, even when a holder whose lock expired
\* during a slow origin call releases late.
RefreshLockExclusive ==
    \A c, d \in Callers : window[c] > 0 /\ window[d] > 0 => c = d

\* An unpurged replica gives up valid last good evidence only for evidence at least
\* as new, through however many failed refreshes, or, once its copy is no longer
\* hot, for what Redis holds, which may be older where a write was lost; and no
\* result leaves it with older good evidence, or none, than it retains.  A
\* refresher works on the copy it took before its awaits: that copy must still be
\* the replica's when it is stored over or served.
HoldsGood(r) == Retained(r) # NoEnvelope /\ ValidLastGood(Retained(r))

LastGoodKept ==
    [][\A r \in Replicas : epoch'[r] = 0 =>
          /\ HoldsGood(r) /\ ~Restart(r) =>
                \/ l1'[r] # NoEnvelope /\ l1'[r].good <= Older(l1[r].good)
                \/ ~Hot(r) /\ remote # NoEnvelope /\ l1'[r] = remote
          /\ \A result \in results' :
                result.of = r /\ HoldsGood(r)' => result.good <= l1'[r].good]_vars

\* Per lock the cache is a single flight: a caller that was handed a lock leads
\* the refresh alone under it, with Redis failing and calls cancelled.
Flight ==
    INSTANCE SingleFlight WITH
        Groups <- Replicas \X Locks,
        group <- [c \in Callers |-> <<Home[c], flight[c]>>],
        phase <- [c \in Callers |->
                    IF pc[c] = "idle" THEN "idle"
                    ELSE IF pc[c] = "waiting" THEN "asking" ELSE "leading"]

\* The cache implements the single flight of SingleFlight.
ImplementsSingleFlight == Flight!Spec

\* Every call comes back: no lock, here or in Redis, keeps it for ever.
CallsAnswered == Flight!Answered

=============================================================================
