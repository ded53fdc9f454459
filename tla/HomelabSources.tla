--------------------------- MODULE HomelabSources ---------------------------
(***************************************************************************)
(* The in-process caches of what the homelab is declared and observed to   *)
(* be.  One of them per execution, by its policy:                          *)
(*   fallback    homelab_catalog.py: the last good copy, or a packaged one *)
(*   verified    site_architecture_catalog.py, and the signing keys of     *)
(*               cloudflare_ops_access.py: an error, never an old copy     *)
(*   outcome     topology_telemetry.py, external_connection_probes.py: the *)
(*               failure itself is kept                                    *)
(*   lastGood    homelab_runtime.py, in threads: the last snapshot, marked *)
(*   background  homelab_declared.py, homelab_topology.py: an old copy at  *)
(*               once while a task refreshes it                            *)
(*                                                                         *)
(* What an origin serves is a version that only grows.  A value of state   *)
(* "other" is what there is without the origin: the packaged copy, an      *)
(* empty inventory, or the report that it cannot be reached.               *)
(***************************************************************************)
EXTENDS Integers

CONSTANTS
    Callers,      \* concurrent calls; threads, where the policy is lastGood
    Ttl,          \* how long a fetched value is served
    Retry,        \* _REMOTE_FAILURE_RETRY_SECONDS
    MaxTime,      \* bound: the clock
    MaxVersion,   \* bound: versions of the origin
    MaxResets,    \* bound: resets of the cache
    None

Policies == {"fallback", "verified", "outcome", "lastGood", "background"}
Times    == 0 .. MaxTime
Versions == 0 .. MaxVersion
Value    == [version : Versions, state : {"good", "stale", "other"}, at : Times]
Attempt  == [at : Times, failed : BOOLEAN]
Refresh  == [since : Times, seen : Versions]

ASSUME SourcesAssumption ==
    /\ Ttl \in Nat \ {0} /\ Retry \in 1 .. Ttl
    /\ MaxTime \in Nat /\ MaxVersion \in Nat /\ MaxResets \in Nat
    /\ None \notin Value \cup Callers \cup Attempt \cup Refresh

VARIABLES
    policy,
    clock,    \* time.monotonic
    origin,   \* the version the origin serves
    cache,    \* the cached value, or None
    expires,  \* until when it is fresh
    lock,     \* who holds the refresh lock
    task,     \* the refresh task: when it started and the version then, or None
    pc,       \* where each call is suspended
    asked,    \* now, as each call last read it; in a thread, when it fetches
    seen,     \* the version the origin served when the fetch of a call started
    last,     \* history: the last answer, when asked, and what was tried then
    tried,    \* history: the last fetch that set expires, and whether it failed
    resets

vars == <<policy, clock, origin, cache, expires, lock, task, pc, asked, seen,
          last, tried, resets>>

Good(v, t) == [version |-> v, state |-> "good", at |-> t]
Other      == [version |-> 0, state |-> "other", at |-> 0]

Init ==
    /\ policy \in Policies
    /\ clock   = 0
    /\ origin  = 0
    /\ cache   = None
    /\ expires = 0
    /\ lock    = None
    /\ task    = None
    /\ pc      = [c \in Callers |-> "idle"]
    /\ asked   = [c \in Callers |-> 0]
    /\ seen    = [c \in Callers |-> 0]
    /\ last    = None
    /\ tried   = None
    /\ resets  = 0

NeverExpires(t) == cache # None                     \* bug: no deadline
Fresh(t)        == cache # None /\ t < expires

Goto(c, to) == pc' = [pc EXCEPT ![c] = to]

\* A value is answered to the callers in C; all their questions are the last one.
Answers(C, value, t) ==
    /\ pc'    = [c \in Callers |-> IF c \in C THEN "idle" ELSE pc[c]]
    /\ asked' = [c \in Callers |-> IF c \in C THEN 0 ELSE asked[c]]
    /\ seen'  = [c \in Callers |-> IF c \in C THEN 0 ELSE seen[c]]
    /\ last'  = [value |-> value, asked |-> t, tried |-> tried',
                 refreshing |-> task' # None]

-----------------------------------------------------------------------------
\* The look before the lock, which the thread's policy has not; it reads its
\* clock here all the same.
Ask(c) ==
    /\ policy # "background" /\ pc[c] = "idle"
    /\ UNCHANGED <<policy, clock, origin, cache, expires, lock, task, tried, resets>>
    /\ IF policy # "lastGood" /\ Fresh(clock)
       THEN Answers({c}, cache, clock)
       ELSE /\ Goto(c, "locking")
            /\ asked' = [asked EXCEPT ![c] = clock]
            /\ UNCHANGED <<seen, last>>

\* With the lock, the look is repeated: by the clock of that moment, or, in a
\* thread, by the one read before it waited.
Now(c) == IF policy = "lastGood" THEN asked[c] ELSE clock

NotRepeated(c) == FALSE                             \* bug: no second look
Rechecked(c)   == Fresh(Now(c))

Acquire(c) ==
    /\ pc[c] = "locking" /\ lock = None
    /\ UNCHANGED <<policy, clock, origin, cache, expires, task, tried, resets>>
    /\ IF Rechecked(c)
       THEN Answers({c}, cache, Now(c)) /\ UNCHANGED lock
       ELSE /\ Goto(c, "fetching")
            /\ lock'  = c
            /\ asked' = [asked EXCEPT ![c] = clock]
            /\ seen'  = [seen EXCEPT ![c] = origin]
            /\ UNCHANGED last

\* A fetch is over: what it leaves is cached and answered, the lock let go.
Settles(c, value, until, failed) ==
    /\ cache'   = value
    /\ expires' = until
    /\ lock'    = None
    /\ tried'   = [at |-> asked[c], failed |-> failed]
    /\ UNCHANGED <<policy, clock, origin, task, resets>>
    /\ Answers({c}, value, asked[c])

\* fallback counts the time from before the fetch, the others from after it.
FetchSucceeds(c) ==
    /\ pc[c] = "fetching"
    /\ \E v \in seen[c] .. origin :
          IF policy = "fallback"
          THEN Settles(c, Good(v, asked[c]), asked[c] + Ttl, FALSE)
          ELSE Settles(c, Good(v, clock), clock + Ttl, FALSE)

\* What a failure of the origin leaves in the cache, by policy.
Unmarked      == cache                              \* bug: not marked stale
Marked        == [cache EXCEPT !.state = "stale"]
Packaged      == Other                              \* bug: always the bootstrap
LastGoodOrOne == IF cache = None THEN Other ELSE cache

FetchFails(c) ==
    /\ pc[c] = "fetching"
    /\ \/ policy = "fallback" /\ Settles(c, LastGoodOrOne, asked[c] + Retry, TRUE)
       \/ policy = "outcome" /\ Settles(c, Other, clock + Ttl, TRUE)
       \/ /\ policy = "lastGood"
          /\ IF cache # None /\ cache.state # "other"
             THEN Settles(c, Marked, clock + Ttl, TRUE)
             ELSE Settles(c, Other, clock + Ttl, TRUE)

\* The call ends without a value, an error or a cancellation having passed the
\* lock's context.
LockKept(c) == UNCHANGED lock                       \* bug: no context manager
LetGo(c)    == lock' = IF lock = c THEN None ELSE lock

Ends(c) ==
    /\ LetGo(c)
    /\ Goto(c, "idle")
    /\ asked' = [asked EXCEPT ![c] = 0]
    /\ seen'  = [seen EXCEPT ![c] = 0]
    /\ UNCHANGED <<policy, clock, origin, cache, expires, task, last, tried, resets>>

\* The verified policy reports every failure; the others what they do not expect.
FetchRaises(c) == pc[c] = "fetching" /\ Ends(c)

\* A thread goes on when its caller is cancelled, and so does the refresh task.
Cancel(c) == pc[c] # "idle" /\ policy # "lastGood" /\ Ends(c)

-----------------------------------------------------------------------------
\* Fresh or not, what is cached is served at once; a refresh is started unless
\* one is running, and only a cold call waits for it, shielded.
RefreshTask == IF task = None THEN [since |-> clock, seen |-> origin] ELSE task

AskBackground(c) ==
    /\ policy = "background" /\ pc[c] = "idle"
    /\ task' = IF Fresh(clock) THEN task ELSE RefreshTask
    /\ UNCHANGED <<policy, clock, origin, cache, expires, lock, tried, resets>>
    /\ IF cache # None
       THEN Answers({c}, cache, clock)
       ELSE /\ Goto(c, "waiting")
            /\ asked' = [asked EXCEPT ![c] = clock]
            /\ UNCHANGED <<seen, last>>

Waiting == {c \in Callers : pc[c] = "waiting"}

TaskAnswers(value) ==
    /\ task' = None
    /\ UNCHANGED <<policy, clock, origin, lock, resets>>
    /\ IF Waiting = {} THEN UNCHANGED <<pc, asked, seen, last>>
                       ELSE Answers(Waiting, value, task.since)

TaskSucceeds ==
    /\ task # None
    /\ \E v \in task.seen .. origin : cache' = Good(v, clock)
    /\ expires' = clock + Ttl
    /\ tried'   = [at |-> task.since, failed |-> FALSE]
    /\ TaskAnswers(cache')

\* The copy stays as old as it was; a cold call is answered with what there is.
TaskFails ==
    /\ task # None
    /\ UNCHANGED <<cache, expires, tried>>
    /\ TaskAnswers(LastGoodOrOne)

-----------------------------------------------------------------------------
\* The reset functions; the thread's takes its lock.  A background cache has none.
Reset ==
    /\ resets < MaxResets /\ policy # "background" /\ cache # None
    /\ policy = "lastGood" => lock = None
    /\ cache'   = None
    /\ expires' = 0
    /\ tried'   = None
    /\ resets'  = resets + 1
    /\ UNCHANGED <<policy, clock, origin, lock, task, pc, asked, seen, last>>

Tick ==
    /\ clock < MaxTime
    /\ clock' = clock + 1
    /\ UNCHANGED <<policy, origin, cache, expires, lock, task, pc, asked, seen,
                   last, tried, resets>>

Publish ==
    /\ origin < MaxVersion
    /\ origin' = origin + 1
    /\ UNCHANGED <<policy, clock, cache, expires, lock, task, pc, asked, seen,
                   last, tried, resets>>

Fetched(c) == FetchSucceeds(c) \/ FetchFails(c) \/ FetchRaises(c)
TaskEnds   == TaskSucceeds \/ TaskFails

Next ==
    \/ \E c \in Callers :
          Ask(c) \/ Acquire(c) \/ Fetched(c) \/ Cancel(c) \/ AskBackground(c)
    \/ TaskEnds
    \/ Reset \/ Tick \/ Publish

Spec == Init /\ [][Next]_vars

\* Every fetch has a timeout.  asyncio.Lock serves its waiters in turn; of the
\* thread lock the same is assumed.
Fairness ==
    /\ \A c \in Callers : WF_vars(Fetched(c)) /\ SF_vars(Acquire(c))
    /\ WF_vars(TaskEnds)

FairSpec == Spec /\ Fairness

-----------------------------------------------------------------------------
TypeOK ==
    /\ policy \in Policies
    /\ clock \in Times /\ origin \in Versions
    /\ cache \in Value \cup {None}
    /\ expires \in 0 .. MaxTime + Ttl
    /\ lock \in Callers \cup {None}
    /\ task \in Refresh \cup {None}
    /\ pc \in [Callers -> {"idle", "locking", "fetching", "waiting"}]
    /\ asked \in [Callers -> Times]
    /\ seen \in [Callers -> Versions]
    /\ tried \in Attempt \cup {None}
    /\ last \in [value : Value, asked : Times, tried : Attempt \cup {None},
                 refreshing : BOOLEAN] \cup {None}
    /\ resets \in 0 .. MaxResets

\* What the origin once served is never replaced by an older version, nor, where
\* the policy keeps a last good copy, by anything else.
NeverBackwards ==
    [][cache # None /\ cache' # None /\ cache.state # "other" =>
          IF cache'.state = "other" THEN policy = "outcome"
          ELSE cache'.version >= cache.version]_vars

\* An answer that is not marked is no older than Ttl by the clock its call read,
\* but for a fallback within Retry of a failed fetch, and for a copy that a
\* background task is refreshing.
Timely ==
    last # None /\ last.value.state = "good" =>
        \/ last.asked < last.value.at + Ttl
        \/ /\ policy = "fallback" /\ last.tried # None
           /\ last.tried.failed /\ last.asked < last.tried.at + Retry
        \/ policy = "background" /\ last.refreshing

\* Two fetches that succeed, or fail where the failure is kept, are apart by the
\* time their result is to be served for, however many calls come at once.
AttemptsSpaced ==
    [][ /\ \/ \E c \in Callers : pc[c] # "fetching" /\ pc'[c] = "fetching"
           \/ task = None /\ task' # None
        /\ tried # None
        => clock >= tried.at + (IF policy = "fallback" /\ tried.failed
                                THEN Retry ELSE Ttl)]_vars

\* Whatever becomes of the call that fetches, the others come back.
CallersAnswered == \A c \in Callers : pc[c] # "idle" ~> pc[c] = "idle"

=============================================================================
