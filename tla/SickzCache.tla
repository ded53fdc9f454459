----------------------------- MODULE SickzCache -----------------------------
(***************************************************************************)
(* cached_sickz_snapshot and reset_sickz_cache of nabla/api/sickz_cache.py *)
(* in one worker, with the builder they call: build_sickz_payload of       *)
(* nabla/api/sickz_checks.py runs the catalogue and then one probe per     *)
(* target group under a ProbeBudget, and build_sickz_snapshot enriches.    *)
(*                                                                         *)
(* A request whose builder failed leaves probes behind; its name is used   *)
(* again only once they are over, so more requests stand for more of them. *)
(***************************************************************************)
EXTENDS ProbeBudget

CONSTANTS
    Hosts,        \* hostnames, the keys of the cache
    Groups,       \* target groups, one probe each
    Catalogue,    \* the probe that loads the homelab catalogue
    Cancellable,  \* requests that may be cancelled
    NoRequest,    \* the lock is free
    None          \* no hostname, no snapshot, nothing served

ASSUME SickzAssumption ==
    /\ Probes = Groups \cup {Catalogue}
    /\ Catalogue \notin Groups
    /\ Malformed \subseteq Groups
    /\ Cancellable \subseteq Requests
    /\ NoRequest \notin Requests
    /\ None \notin Hosts

VARIABLES
    lock,       \* _lock: the request that holds it
    pc,         \* where each request is suspended
    host,       \* key
    snapshot,   \* _snapshot and its key while its age is below the TTL
    purging,    \* reset_sickz_cache waits for the lock
    outdated,   \* history: builds that a purge has overtaken
    served      \* history: what the step served from the cache, and to which key

vars == <<budgetVars, lock, pc, host, snapshot, purging, outdated, served>>

Building == {"catalogue", "probing", "enriching", "unwinding"}

\* A stored snapshot; "outdated" is history: its build began before a purge.
Snapshot == [host : Hosts, outdated : BOOLEAN]
NotServed == [to |-> None, of |-> None]

Nothing == served' = NotServed

Init ==
    /\ BudgetInit
    /\ lock     = NoRequest
    /\ pc       = [c \in Requests |-> "idle"]
    /\ host     = [c \in Requests |-> None]
    /\ snapshot = None
    /\ purging  = FALSE
    /\ outdated = {}
    /\ served   = NotServed

\* async with _lock ends, with a snapshot, an error or a cancellation, and the
\* locals of the call are gone.
LockReturned(c) == lock' = IF lock = c THEN NoRequest ELSE lock

Leave(c) ==
    /\ pc' = [pc EXCEPT ![c] = "idle"]
    /\ LockReturned(c)
    /\ host' = [host EXCEPT ![c] = None]
    /\ outdated' = outdated \ {c}
    /\ Close(c)

Goto(c, to) ==
    /\ pc' = [pc EXCEPT ![c] = to]
    /\ UNCHANGED <<lock, host, outdated>>

-----------------------------------------------------------------------------
\* A request for /sickz under some hostname.
Call(c) ==
    /\ pc[c] = "idle" /\ Alive(c) = {}
    /\ \E h \in Hosts : host' = [host EXCEPT ![c] = h]
    /\ pc' = [pc EXCEPT ![c] = "waiting"]
    /\ Nothing
    /\ UNCHANGED <<budgetVars, lock, snapshot, purging, outdated>>

AnyHost(c) == snapshot # None                       \* bug: key not compared
Hit(c)     == snapshot # None /\ snapshot.host = host[c]

LockIgnored(c) == TRUE                              \* bug: no single flight
LockFree(c)    == lock = NoRequest

\* Under the lock the cache answers, or a build begins.
Serve(c) ==
    /\ pc[c] = "waiting" /\ LockFree(c) /\ Hit(c)
    /\ served' = [to |-> host[c], of |-> snapshot]
    /\ Leave(c)
    /\ UNCHANGED <<snapshot, purging>>

Build(c) ==
    /\ pc[c] = "waiting" /\ LockFree(c) /\ ~Hit(c)
    /\ lock' = c
    /\ pc' = [pc EXCEPT ![c] = "catalogue"]
    /\ Open(c)
    /\ Nothing
    /\ UNCHANGED <<host, snapshot, purging, outdated>>

\* The catalogue is loaded, has timed out or is not in use; then there are
\* groups to probe, or none, or probing is skipped from the home network.
CatalogueLoaded(c) ==
    /\ pc[c] = "catalogue"
    /\ stage[c][Catalogue] \in {"none", "done"}
    /\ Goto(c, "probing") \/ Goto(c, "enriching")
    /\ Nothing
    /\ UNCHANGED <<budgetVars, snapshot, purging>>

\* gather returns when every group has.
Gathered(c) ==
    /\ pc[c] = "probing"
    /\ \A g \in Groups : stage[c][g] = "done"
    /\ Goto(c, "enriching")
    /\ Nothing
    /\ UNCHANGED <<budgetVars, snapshot, purging>>

\* gather raises with the first group that raised; every task has begun by
\* then, and the others go on.
GatherRaised(c) ==
    /\ pc[c] = "probing"
    /\ \A g \in Groups : stage[c][g] # "none"
    /\ \E g \in Groups : stage[c][g] = "raised"
    /\ Leave(c)
    /\ Nothing
    /\ UNCHANGED <<snapshot, purging>>

\* The enrichment is done, failed or late: all three make a snapshot.
Store(c) ==
    /\ pc[c] = "enriching"
    /\ snapshot' = [host |-> host[c], outdated |-> c \in outdated]
    /\ Leave(c)
    /\ Nothing
    /\ UNCHANGED purging

-----------------------------------------------------------------------------
\* The probes a request awaits.
Awaited(c) == IF pc[c] = "catalogue" THEN {Catalogue}
             ELSE IF pc[c] = "probing" THEN Groups ELSE {}

\* The request is cancelled.  One that awaits probes passes it on to them and
\* waits for the catalogue to let go, or gather for the first group.
CancelAlone(c) ==
    /\ pc[c] \in {"waiting", "enriching"}
    /\ Leave(c)

CancelProbes(c) ==
    /\ pc[c] \in {"catalogue", "probing"}
    /\ Goto(c, "unwinding")
    /\ CancelAll(c, Awaited(c))

Cancel(c) ==
    /\ c \in Cancellable
    /\ CancelAlone(c) \/ CancelProbes(c)
    /\ Nothing
    /\ UNCHANGED <<snapshot, purging>>

Unwound(c) ==
    /\ pc[c] = "unwinding"
    /\ \/ Alive(c) = {}
       \/ \E g \in Groups : stage[c][g] \in {"cancelled", "raised"}
    /\ Leave(c)
    /\ Nothing
    /\ UNCHANGED <<snapshot, purging>>

\* Its probes and their deadline take the next step.
Supervise(c) ==
    /\ \/ \E p \in Probes :
            \/ p \in Awaited(c) /\ Run(c, p)
            \/ Admit(c, p) \/ QueueTimeout(c, p)
            \/ OriginTimeout(c, p) \/ Stop(c, p)
       \/ (pc[c] \in Building \/ Alive(c) # {}) /\ Deadline(c)
    /\ Nothing
    /\ UNCHANGED <<lock, pc, host, snapshot, purging, outdated>>

OriginAnswers(c) ==
    /\ \E p \in Probes : Finish(c, p)
    /\ Nothing
    /\ UNCHANGED <<lock, pc, host, snapshot, purging, outdated>>

\* An operator purges the health caches.
AskPurge ==
    /\ ~purging
    /\ purging' = TRUE
    /\ Nothing
    /\ UNCHANGED <<budgetVars, lock, pc, host, snapshot, outdated>>

PurgeAtOnce == purging                              \* bug: lock not taken
MayPurge    == purging /\ lock = NoRequest

\* reset_sickz_cache has the lock.
Purge ==
    /\ MayPurge
    /\ purging'  = FALSE
    /\ snapshot' = None
    /\ outdated' = {c \in Requests : pc[c] \in Building}
    /\ Nothing
    /\ UNCHANGED <<budgetVars, lock, pc, host>>

\* The snapshot's age reaches SICKZ_CACHE_TTL_SECONDS: it is kept, but no
\* request is answered from it any more.
Expire ==
    /\ snapshot # None
    /\ snapshot' = None
    /\ Nothing
    /\ UNCHANGED <<budgetVars, lock, pc, host, purging, outdated>>

Enter(c)    == Serve(c) \/ Build(c)
Progress(c) == \/ CatalogueLoaded(c) \/ Gathered(c) \/ GatherRaised(c)
               \/ Store(c) \/ Unwound(c)

Next ==
    \/ \E c \in Requests : \/ Call(c) \/ Enter(c) \/ Progress(c) \/ Cancel(c)
                           \/ Supervise(c) \/ OriginAnswers(c)
    \/ AskPurge \/ Purge \/ Expire

Spec == Init /\ [][Next]_vars

\* Awaits that are over are resumed, timeouts fire, and asyncio.Lock wakes its
\* waiters in order; an origin may hang for ever.
Fairness ==
    /\ \A c \in Requests : /\ WF_vars(Progress(c)) /\ WF_vars(Supervise(c))
                           /\ SF_vars(Enter(c))
    /\ SF_vars(Purge)

FairSpec == Spec /\ Fairness

-----------------------------------------------------------------------------
TypeOK ==
    /\ BudgetTypeOK
    /\ lock \in Requests \cup {NoRequest}
    /\ pc \in [Requests -> Building \cup {"idle", "waiting"}]
    /\ host \in [Requests -> Hosts \cup {None}]
    /\ snapshot \in Snapshot \cup {None}
    /\ purging \in BOOLEAN
    /\ outdated \subseteq Requests
    /\ served \in [to : Hosts, of : Snapshot] \cup {NotServed}

\* A request is served the snapshot of its own hostname, on which the policy
\* annotations depend, whichever requests built in between; and what a purge has
\* dropped is not served again: a build under way then is not stored after it.
ServedIsCurrent ==
    served # NotServed => served.to = served.of.host /\ ~served.of.outdated

\* The lock makes the cache a single flight for all hostnames together, with
\* builds that fail and requests that are cancelled.
Flight ==
    INSTANCE SingleFlight WITH
        Callers <- Requests,
        Groups <- {NoRequest},
        group <- [c \in Requests |-> NoRequest],
        phase <- [c \in Requests |->
                    IF pc[c] = "idle" THEN "idle"
                    ELSE IF pc[c] = "waiting" THEN "asking" ELSE "leading"]

\* The cache implements the single flight of SingleFlight.
ImplementsSingleFlight == Flight!Spec

\* Every request comes back and its probes end, those of a failed build that
\* nobody waits for included, and a purge gets the lock: a build holds it for
\* a bounded time even if no origin ever answers.
Busy(c) == pc[c] # "idle" \/ Alive(c) # {}

EverythingEnds ==
    /\ \A c \in Requests : Busy(c) ~> ~Busy(c)
    /\ purging ~> ~purging

=============================================================================
