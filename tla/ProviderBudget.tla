--------------------------- MODULE ProviderBudget ---------------------------
(***************************************************************************)
(* admit_provider_probe of nabla/api/provider_probe_budget.py for one      *)
(* provider: a fixed-window counter in each replica and one in Redis.      *)
(*                                                                         *)
(* Counts stop one above MaxRequests: nothing tells larger ones apart.     *)
(* Replicas read clocks of their own, which agree to within the window     *)
(* they are in or the next.                                                *)
(***************************************************************************)
EXTENDS Naturals, FiniteSets

CONSTANTS
    Replicas,
    Calls,         \* concurrent calls of admit_provider_probe
    Home,          \* the replica each call runs in
    MaxRequests,   \* ProviderProbeRatePolicy.max_requests
    MaxWindow,     \* bound: the windows that are looked at
    MaxForgets     \* bound: resets and restarts, all of one replica

ASSUME BudgetAssumption ==
    /\ IsFiniteSet(Calls) /\ Home \in [Calls -> Replicas]
    /\ MaxRequests \in Nat \ {0}
    /\ MaxWindow \in Nat /\ MaxForgets \in Nat

VARIABLES
    clock,      \* int(_now() // window_seconds) as each replica reads it
    local,      \* _local_counts: the window counted, and the count
    remote,     \* the Redis keys health:v1:rate:<provider>:<bucket>
    pc,         \* where each call is suspended
    ticket,     \* bucket and local_count of a call
    shared,     \* history: admissions decided with Redis, by window
    alone,      \* history: admissions by each replica, by window
    forgets     \* history: resets and restarts of each replica

vars == <<clock, local, remote, pc, ticket, shared, alone, forgets>>

Windows == 0 .. MaxWindow
Counts  == 0 .. MaxRequests + 1
Count   == [bucket : Windows, count : Counts]

NoTicket == [bucket |-> 0, count |-> 0]

Init ==
    /\ clock   = [r \in Replicas |-> 0]
    /\ local   = [r \in Replicas |-> NoTicket]
    /\ remote  = [b \in Windows |-> 0]
    /\ pc      = [c \in Calls |-> "idle"]
    /\ ticket  = [c \in Calls |-> NoTicket]
    /\ shared  = [b \in Windows |-> 0]
    /\ alone   = [r \in Replicas |-> [b \in Windows |-> 0]]
    /\ forgets = [r \in Replicas |-> 0]

Another(n) == IF n > MaxRequests THEN n ELSE n + 1

OffByOne(n) == n <= MaxRequests + 1                 \* bug: <= for <
Within(n)   == n <= MaxRequests

\* _local_count: the counts of other windows are dropped.
LocalCount(r) ==
    [bucket |-> clock[r],
     count  |-> IF local[r].bucket = clock[r] THEN Another(local[r].count) ELSE 1]

\* The decision of a replica is an origin attempt of the window it is counted in.
Admitted(r, b, allowed) ==
    alone' = IF allowed THEN [alone EXCEPT ![r][b] = @ + 1] ELSE alone

-----------------------------------------------------------------------------
\* The bucket is read and the call counted in its replica, in one step: nobody
\* holds _local_lock over an await.  Without a client, or while the caller
\* believes Redis unavailable, that count decides.
Ask(c) ==
    LET r == Home[c]  mine == LocalCount(r)
    IN  /\ pc[c] = "idle"
        /\ local' = [local EXCEPT ![r] = mine]
        /\ \/ /\ pc' = [pc EXCEPT ![c] = "counting"]
              /\ ticket' = [ticket EXCEPT ![c] = mine]
              /\ UNCHANGED alone
           \/ /\ Admitted(r, mine.bucket, Within(mine.count))
              /\ UNCHANGED <<pc, ticket>>
        /\ UNCHANGED <<clock, remote, shared, forgets>>

Answered(c) ==
    /\ pc'     = [pc EXCEPT ![c] = "idle"]
    /\ ticket' = [ticket EXCEPT ![c] = NoTicket]

\* INCR and EXPIRE ran: both counts decide.
LocalOnly(c, n)   == Within(ticket[c].count)        \* bug: Redis not asked
BothAllow(c, n)   == Within(ticket[c].count) /\ Within(n)

RemoteCount(c) ==
    LET b == ticket[c].bucket  n == Another(remote[b])  allowed == BothAllow(c, n)
    IN  /\ pc[c] = "counting"
        /\ remote' = [remote EXCEPT ![b] = n]
        /\ shared' = IF allowed THEN [shared EXCEPT ![b] = @ + 1] ELSE shared
        /\ Admitted(Home[c], b, allowed)
        /\ Answered(c)
        /\ UNCHANGED <<clock, local, forgets>>

\* The pipeline raised, run or not: the local count decides.
RemoteRaised(c) ==
    LET b == ticket[c].bucket
    IN  /\ pc[c] = "counting"
        /\ \/ UNCHANGED remote
           \/ remote' = [remote EXCEPT ![b] = Another(@)]
        /\ Admitted(Home[c], b, Within(ticket[c].count))
        /\ Answered(c)
        /\ UNCHANGED <<clock, local, shared, forgets>>

\* The caller's deadline: counted, perhaps in Redis too, and never admitted.
Cancel(c) ==
    /\ pc[c] = "counting"
    /\ \/ UNCHANGED remote
       \/ remote' = [remote EXCEPT ![ticket[c].bucket] = Another(@)]
    /\ Answered(c)
    /\ UNCHANGED <<clock, local, shared, alone, forgets>>

-----------------------------------------------------------------------------
\* A window ends.  A pipeline takes less than a window.
Tick(r) ==
    /\ clock[r] < MaxWindow
    /\ \A s \in Replicas : clock[r] <= clock[s]
    /\ \A c \in Calls : pc[c] = "counting" => ticket[c].bucket >= clock[r]
    /\ clock' = [clock EXCEPT ![r] = @ + 1]
    /\ UNCHANGED <<local, remote, pc, ticket, shared, alone, forgets>>

\* A key outlives its window by the five seconds that EXPIRE adds: nobody reads
\* that window from a clock any more, and no pipeline for it is on its way.
KeyTooShort(b) == remote[b] > 0                     \* bug: EX below the window
KeyOver(b) ==
    /\ remote[b] > 0
    /\ \A r \in Replicas : clock[r] > b
    /\ \A c \in Calls : pc[c] = "counting" => ticket[c].bucket # b

Expire(b) ==
    /\ KeyOver(b)
    /\ remote' = [remote EXCEPT ![b] = 0]
    /\ UNCHANGED <<clock, local, pc, ticket, shared, alone, forgets>>

\* reset_provider_probe_budgets: the local counts only.
Forget(r) ==
    /\ forgets[r] < MaxForgets /\ \A s \in Replicas \ {r} : forgets[s] = 0
    /\ forgets' = [forgets EXCEPT ![r] = @ + 1]
    /\ local'   = [local EXCEPT ![r] = NoTicket]

Reset(r) ==
    /\ Forget(r)
    /\ UNCHANGED <<clock, remote, pc, ticket, shared, alone>>

Restart(r) ==
    /\ Forget(r)
    /\ pc'     = [c \in Calls |-> IF Home[c] = r THEN "idle" ELSE pc[c]]
    /\ ticket' = [c \in Calls |-> IF Home[c] = r THEN NoTicket ELSE ticket[c]]
    /\ UNCHANGED <<clock, remote, shared, alone>>

Next ==
    \/ \E c \in Calls : Ask(c) \/ RemoteCount(c) \/ RemoteRaised(c) \/ Cancel(c)
    \/ \E r \in Replicas : Tick(r) \/ Reset(r) \/ Restart(r)
    \/ \E b \in Windows : Expire(b)

Spec == Init /\ [][Next]_vars

-----------------------------------------------------------------------------
TypeOK ==
    /\ clock \in [Replicas -> Windows]
    /\ local \in [Replicas -> Count]
    /\ remote \in [Windows -> Counts]
    /\ pc \in [Calls -> {"idle", "counting"}]
    /\ ticket \in [Calls -> Count]
    /\ shared \in [Windows -> Nat]
    /\ alone \in [Replicas -> [Windows -> Nat]]
    /\ forgets \in [Replicas -> 0 .. MaxForgets]

\* While Redis decides, all replicas together start MaxRequests origin attempts
\* per window, however their pipelines interleave, fail or come late.
SharedBudgetKept == \A b \in Windows : shared[b] <= MaxRequests

\* Whoever decides, Redis or each replica for itself, one replica starts
\* MaxRequests per window, and as many again for each time it was made to forget.
ReplicaBudgetKept ==
    \A r \in Replicas, b \in Windows :
        alone[r][b] <= MaxRequests * (1 + forgets[r])

\* The provider sees no more than both bounds allow.
BudgetKept == SharedBudgetKept /\ ReplicaBudgetKept

=============================================================================
