--------------------------- MODULE RuntimeTopology ---------------------------
(***************************************************************************)
(* The registry of running replicas in nabla/api/runtime_topology.py: a    *)
(* sorted set of replica ids scored by their last heartbeat and a hash of  *)
(* their details, in one Redis, written by a pipeline that is no           *)
(* transaction.                                                            *)
(*                                                                         *)
(* A score is kept as its age, capped where it is older than the active    *)
(* window, so that the clock itself needs no bound.                        *)
(***************************************************************************)
EXTENDS Naturals

CONSTANTS
    Replicas,   \* instance ids, stable per container
    Beats,      \* calls of record_runtime_heartbeat
    Home,       \* the replica each call runs in
    Loops,      \* the calls of the heartbeat task; the rest serve requests
    Interval,   \* _HEARTBEAT_INTERVAL_SEC
    Window,     \* _ACTIVE_WINDOW_SEC
    MaxLag      \* bound: what a call may take while it reaches Redis

ASSUME TopologyAssumption ==
    /\ Home \in [Beats -> Replicas]
    /\ Loops \subseteq Beats
    /\ \A r \in Replicas : \E c \in Loops : Home[c] = r
    /\ Interval \in Nat \ {0} /\ Window \in Nat /\ MaxLag \in Nat

VARIABLES
    alive,      \* replicas that run
    reach,      \* replicas that reach Redis
    pc,         \* the command of its pipeline each call sends next
    lag,        \* time since a call read its clock
    stale,      \* stale_ids of a call
    wait,       \* time left of a heartbeat task's sleep
    age,        \* the sorted set: the age of each id's score, or Gone
    details     \* the ids in the hash

vars == <<alive, reach, pc, lag, stale, wait, age, details>>

Old  == Window + 1          \* any age beyond the window
Gone == Window + 2          \* no member of the sorted set

Older(a) == IF a < Old THEN a + 1 ELSE a

Commands == {"zadd", "hset", "zrem", "hdel"}

\* What _shared_runtime_snapshot finds, besides the replica that asks.
Listed(r) == age[r] <= Window /\ r \in details

Init ==
    /\ alive   = Replicas
    /\ reach   = Replicas
    /\ pc      = [c \in Beats |-> "idle"]
    /\ lag     = [c \in Beats |-> 0]
    /\ stale   = [c \in Beats |-> {}]
    /\ wait    = [c \in Loops |-> 0]
    /\ age     = [r \in Replicas |-> Gone]
    /\ details = {}

-----------------------------------------------------------------------------
\* The call returns its details, whatever Redis did; the task sleeps.
Sleep(c) == wait' = [d \in Loops |-> IF d = c THEN Interval ELSE wait[d]]

Return(c) ==
    /\ pc'    = [pc EXCEPT ![c] = "idle"]
    /\ lag'   = [lag EXCEPT ![c] = 0]
    /\ stale' = [stale EXCEPT ![c] = {}]
    /\ Sleep(c)

Due(c) == Home[c] \in alive /\ pc[c] = "idle" /\ (c \in Loops => wait[c] = 0)

\* The clock is read and the ids older than the window are asked for.
NoneStale == {}                                     \* bug: min and max swapped
AnyAge    == {r \in Replicas : age[r] # Gone}       \* bug: max="+inf"
StaleIds  == {r \in Replicas : age[r] = Old}

Begin(c) ==
    /\ Due(c) /\ Home[c] \in reach
    /\ stale' = [stale EXCEPT ![c] = StaleIds]
    /\ pc'    = [pc EXCEPT ![c] = "zadd"]
    /\ UNCHANGED <<alive, reach, lag, wait, age, details>>

\* Redis is out of reach before or between two commands: what it has run
\* stays, the rest is dropped.
Fail(c) ==
    /\ Due(c) \/ pc[c] # "idle"
    /\ Home[c] \notin reach
    /\ Return(c)
    /\ UNCHANGED <<alive, reach, age, details>>

\* Redis runs the next command of the pipeline.
Runs(c, command) == pc[c] = command /\ Home[c] \in reach

Then(c, command) ==
    /\ pc' = [pc EXCEPT ![c] = command]
    /\ UNCHANGED <<alive, reach, lag, stale, wait>>

ZAdd(c) ==
    /\ Runs(c, "zadd")
    /\ age' = [age EXCEPT ![Home[c]] = lag[c]]
    /\ Then(c, "hset")
    /\ UNCHANGED details

HSet(c) ==
    /\ Runs(c, "hset")
    /\ details' = details \cup {Home[c]}
    /\ Then(c, "zrem")
    /\ UNCHANGED age

ZRem(c) ==
    /\ Runs(c, "zrem")
    /\ age' = [r \in Replicas |-> IF r \in stale[c] THEN Gone ELSE age[r]]
    /\ Then(c, "hdel")
    /\ UNCHANGED details

HDel(c) ==
    /\ Runs(c, "hdel")
    /\ details' = details \ stale[c]
    /\ Return(c)
    /\ UNCHANGED <<alive, reach, age>>

-----------------------------------------------------------------------------
\* Time passes, but not over a heartbeat that is due, nor over a call that
\* reaches Redis and has taken MaxLag.
Tick ==
    /\ \A c \in Loops : ~Due(c)
    /\ \A c \in Beats : pc[c] # "idle" /\ Home[c] \in reach => lag[c] < MaxLag
    /\ age'  = [r \in Replicas |-> Older(age[r])]
    /\ lag'  = [c \in Beats |-> IF pc[c] = "idle" THEN 0 ELSE Older(lag[c])]
    /\ wait' = [c \in Loops |-> IF wait[c] > 0 THEN wait[c] - 1 ELSE 0]
    /\ UNCHANGED <<alive, reach, pc, stale, details>>

\* _INSTANCE_REGISTRY_TTL_SEC without a heartbeat end the two keys.
RegistryExpires ==
    /\ \A r \in Replicas : age[r] >= Old
    /\ \/ age' = [r \in Replicas |-> Gone] /\ UNCHANGED details
       \/ details' = {} /\ UNCHANGED age
    /\ UNCHANGED <<alive, reach, pc, lag, stale, wait>>

\* A container stops, and its calls with it, or starts again under its id.
Cancelled(r) ==
    /\ pc'    = [c \in Beats |-> IF Home[c] = r THEN "idle" ELSE pc[c]]
    /\ lag'   = [c \in Beats |-> IF Home[c] = r THEN 0 ELSE lag[c]]
    /\ stale' = [c \in Beats |-> IF Home[c] = r THEN {} ELSE stale[c]]
    /\ wait'  = [c \in Loops |-> IF Home[c] = r THEN 0 ELSE wait[c]]

Stop(r) ==
    /\ r \in alive
    /\ alive' = alive \ {r}
    /\ Cancelled(r)
    /\ UNCHANGED <<reach, age, details>>

Start(r) ==
    /\ r \notin alive
    /\ alive' = alive \cup {r}
    /\ UNCHANGED <<reach, pc, lag, stale, wait, age, details>>

\* The network to Redis fails or comes back.
LinkFlips(r) ==
    /\ reach' = IF r \in reach THEN reach \ {r} ELSE reach \cup {r}
    /\ UNCHANGED <<alive, pc, lag, stale, wait, age, details>>

Command(c) == ZAdd(c) \/ HSet(c) \/ ZRem(c) \/ HDel(c)

Next ==
    \/ \E c \in Beats : Begin(c) \/ Command(c) \/ Fail(c)
    \/ \E r \in Replicas : Stop(r) \/ Start(r) \/ LinkFlips(r)
    \/ Tick \/ RegistryExpires

Spec == Init /\ [][Next]_vars

\* Time does not stand still however often replicas come and go, heartbeat
\* tasks run, and calls in flight end.
Fairness ==
    /\ SF_vars(Tick)
    /\ \A c \in Beats : WF_vars(Command(c) \/ Fail(c))
    /\ \A c \in Loops : WF_vars(Begin(c) \/ Fail(c))

FairSpec == Spec /\ Fairness

-----------------------------------------------------------------------------
TypeOK ==
    /\ alive \subseteq Replicas /\ reach \subseteq Replicas
    /\ pc \in [Beats -> Commands \cup {"idle"}]
    /\ lag \in [Beats -> 0 .. Old]
    /\ stale \in [Beats -> SUBSET Replicas]
    /\ wait \in [Loops -> 0 .. Interval]
    /\ age \in [Replicas -> 0 .. Gone]
    /\ details \subseteq Replicas
    /\ \A c \in Beats : pc[c] # "idle" => Home[c] \in alive

\* A replica that stays up and reaches Redis is listed for good from some time
\* on, whatever outages and removals by itself or by peers came before.
LiveStaysListed ==
    \A r \in Replicas :
        <>[](r \in alive /\ r \in reach) => <>[]Listed(r)

\* A replica that is gone for good leaves the registry, while another one is
\* there to remove it.
DeadDisappears ==
    \A r, s \in Replicas :
        <>[](r \notin alive /\ s \in alive /\ s \in reach) => <>[](age[r] = Gone)

=============================================================================
