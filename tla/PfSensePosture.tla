---------------------------- MODULE PfSensePosture ----------------------------
(***************************************************************************)
(* What the health page knows of pfSense and its resolver Unbound          *)
(* (nabla/api/pfsense_dns_observer.py, pfsense_posture_skips.py): one      *)
(* authenticated preflight, three deep reads two at a time, the result     *)
(* kept by the probe cache, and the verdict that component_health.py makes *)
(* of it.  One process; the probe cache lets one refresh run at a time.    *)
(*                                                                         *)
(* A request ends by itself: each of its phases has a timeout of httpx.    *)
(* The cache is what its callers see of it: an answer of the origin, a     *)
(* fresh value, or a value served in place of an answer.                   *)
(***************************************************************************)
EXTENDS Integers, FiniteSets

CONSTANTS
    MaxConcurrency,  \* _PFSENSE_MAX_CONCURRENCY
    MaxRefreshes,    \* bound: refreshes
    MaxChanges       \* bound: changes of the appliance

PostureAssumption == MaxConcurrency \in Nat \ {0}

Deep      == {"services", "resolver", "system_dns"}
Endpoints == {"system"} \cup Deep

\* What pfSense would say of Unbound.  A state of the service without a meaning,
\* or no such service, is to the verdict as a read that failed.
Up         == [enabled |-> "yes", running |-> "yes"]
Appliances == {Up, [Up EXCEPT !.running = "no"], [Up EXCEPT !.enabled = "no"]}
Shows(e, a) == CASE e = "services" -> a.running
                 [] e = "resolver" -> a.enabled
                 [] OTHER          -> "read"

\* data: 2xx; 401, which only the preflight tells from another status, an error;
\* lost: no answer in time, or none at all.
Answers == {"data", "401", "error", "lost"}
None    == [kind |-> "none"]

VARIABLES
    appliance,
    phase,      \* "idle", "preflight" or "deep"
    cut,        \* who has interrupted the refresh and was not heard
    reads,      \* the requests of the refresh
    got,        \* what each request has shown, "unknown" before or without
    during,     \* history: the appliance since the refresh began
    current,    \* of the cache: the last result
    lastGood,   \* of the cache: the last successful one
    refreshes, changes

vars == <<appliance, phase, cut, reads, got, during, current, lastGood,
          refreshes, changes>>
refresh == <<phase, cut, reads, got, during>>
cache   == <<current, lastGood>>

Asked   == {e \in Endpoints : reads[e] = "asked"}
Waiting == {e \in Deep : reads[e] = "waiting"}

NoReads == [e \in Endpoints |-> "none"]
Unread  == [e \in Endpoints |-> "unknown"]

Idle ==
    /\ phase = "idle" /\ cut = {}
    /\ reads = NoReads
    /\ got = Unread /\ during = {}

Init ==
    /\ appliance \in Appliances
    /\ Idle
    /\ current = None /\ lastGood = None
    /\ refreshes = 0 /\ changes = 0

-----------------------------------------------------------------------------
\* What a result says: reachable, transport_reachable, whether it is complete,
\* and error_stage.  "rejected" and "slow" are the skips, "late" the deadline.
Reachable(r)  == r.kind = "slow" \/ (r.kind = "read" /\ r.got # Unread)
Transport(r)  == r.kind \in {"slow", "rejected"} \/ (r.kind = "read" /\ r.answered)
Complete(r)   == r.kind = "read" /\ \A e \in Endpoints : r.got[e] # "unknown"
ErrorStage(r) == r.kind # "slow" /\ ~Complete(r)

\* _posture_success
Success(r) == Reachable(r) /\ ~ErrorStage(r)

\* The resolver as a result shows it.  A slow preflight shows nothing of it.
Shown(r, e) == IF r.kind = "read" THEN r.got[e] ELSE "unknown"
AbsentIsStopped(r) ==                               \* bug: no inventory, no service
    IF Shown(r, "services") # "unknown" THEN Shown(r, "services") ELSE "no"
Running(r) == Shown(r, "services")
Enabled(r) == Shown(r, "resolver")

\* _policy_state; "ok" is the source's "ok" or "warn"
UnknownPasses(r) ==                                 \* bug: unknown is no objection
    IF "no" \in {Enabled(r), Running(r)} THEN "fail" ELSE "ok"
PolicyState(r) ==
    CASE "no" \in {Enabled(r), Running(r)}         -> "fail"
      [] {Enabled(r), Running(r)} = {"yes"}        -> "ok"
      [] OTHER                                     -> "unknown"

-----------------------------------------------------------------------------
\* _cached_posture, of a value and the last good one
Answer(value, good) ==
    LET failed == ~Reachable(value) /\ ~Transport(value) /\ good # None
    IN  [result |-> IF failed THEN good ELSE value, stale |-> failed]

\* pfsense_unbound_component
Unbound(a) ==
    CASE a.stale \/ ~Reachable(a.result)  -> "unknown"
      [] OTHER -> CASE PolicyState(a.result) = "fail"    -> "down"
                    [] PolicyState(a.result) = "ok"      -> "up"
                    [] PolicyState(a.result) = "unknown" -> "unknown"

\* What a caller may be told: of the last result, just read or fresh, or of the
\* last good one in its place, while a peer refreshes, the circuit is open or the
\* budget is spent.  Only the first kind is ever called stale.
Served ==
    {Answer(value, lastGood) : value \in {current, lastGood} \ {None}}

\* The refresh is over, with a result that the cache stores, or without.
Over    == phase' = "idle" /\ cut' = {} /\ reads' = NoReads /\ got' = Unread /\ during' = {}
Store(kind, answers) ==
    LET r == [kind |-> kind, got |-> got, during |-> during,
              answered |-> \E e \in Endpoints : answers[e] \in Answers \ {"lost"}]
    IN  /\ current' = r
        /\ lastGood' = IF Success(r) THEN r ELSE lastGood

-----------------------------------------------------------------------------
Begin ==
    /\ phase = "idle" /\ refreshes < MaxRefreshes
    /\ refreshes' = refreshes + 1
    /\ phase' = "preflight"
    /\ reads' = [e \in Endpoints |-> IF e = "system" THEN "asked" ELSE "none"]
    /\ got' = Unread /\ during' = {appliance}
    /\ UNCHANGED <<cache, appliance, cut, changes>>

\* What an answer adds to what is known.
Learned(e, answer) ==
    IF answer = "data" THEN [got EXCEPT ![e] = Shows(e, appliance)] ELSE got

\* The preflight is over: deep reads begin, unless it was refused or slow.
GoDeep(answer) ==
    /\ phase' = "deep"
    /\ reads' = [e \in Endpoints |-> IF e = "system" THEN answer ELSE "waiting"]
    /\ got' = Learned("system", answer)
    /\ UNCHANGED <<cache, cut, during>>
Skip(kind, answer) ==
    Store(kind, [reads EXCEPT !["system"] = answer]) /\ Over

Preflight(answer, slow) ==
    /\ phase = "preflight"
    /\ CASE answer = "401"             -> Skip("rejected", answer)
         [] answer = "data" /\ slow    -> Skip("slow", answer)
         [] OTHER                      -> GoDeep(answer)
    /\ UNCHANGED <<appliance, refreshes, changes>>

\* _bounded_observations: the semaphore, then the request.
Ask(e) ==
    /\ phase = "deep" /\ e \in Waiting /\ Cardinality(Asked) < MaxConcurrency
    /\ reads' = [reads EXCEPT ![e] = "asked"]
    /\ UNCHANGED <<cache, appliance, phase, cut, got, during, refreshes, changes>>

DeepRead(e, answer) ==
    /\ phase = "deep" /\ reads[e] = "asked" /\ e \in Deep
    /\ reads' = [reads EXCEPT ![e] = answer]
    /\ got' = Learned(e, answer)
    /\ UNCHANGED <<cache, appliance, phase, cut, during, refreshes, changes>>

\* _posture_result
Finish ==
    /\ phase = "deep" /\ Waiting \cup Asked = {}
    /\ Store("read", reads) /\ Over
    /\ UNCHANGED <<appliance, refreshes, changes>>

\* The deadline, or a caller that is cancelled.  The handler of the preflight
\* catches CancelledError as any failure and goes on; later it ends the refresh,
\* and asyncio.timeout makes a result of it if it was the only one.
Interrupt(who) ==
    /\ phase # "idle" /\ who \notin cut
    /\ \/ /\ phase = "preflight"
          /\ cut' = {who}
          /\ phase' = "deep"
          /\ reads' = [e \in Endpoints |-> IF e = "system" THEN "lost" ELSE "waiting"]
          /\ UNCHANGED <<cache, got, during>>
       \/ /\ phase = "deep"
          /\ IF who = "deadline" /\ cut = {} THEN Store("late", NoReads)
             ELSE UNCHANGED cache
          /\ Over
    /\ UNCHANGED <<appliance, refreshes, changes>>

\* stale_ttl is over.
Forget ==
    /\ lastGood' = None
    /\ UNCHANGED <<appliance, refresh, current, refreshes, changes>>

Change ==
    /\ changes < MaxChanges
    /\ \E a \in Appliances \ {appliance} :
          /\ appliance' = a
          /\ during' = IF phase = "idle" THEN {} ELSE during \cup {a}
    /\ changes' = changes + 1
    /\ UNCHANGED <<phase, cut, reads, got, current, lastGood, refreshes>>

Next ==
    \/ Begin
    \/ \E answer \in Answers, slow \in BOOLEAN : Preflight(answer, slow)
    \/ \E e \in Deep : Ask(e) \/ \E answer \in Answers \ {"401"} : DeepRead(e, answer)
    \/ Finish
    \/ \E who \in {"deadline", "caller"} : Interrupt(who)
    \/ Forget \/ Change

Spec == Init /\ [][Next]_vars

-----------------------------------------------------------------------------
\* A verdict about Unbound that is not "unknown" was true of the appliance while
\* the result it comes from was read: evidence that is missing proves nothing.
VerdictWasTrue ==
    \A s \in Served :
        LET seen == s.result.during
        IN  /\ Unbound(s) = "down" => \E a \in seen : a.enabled = "no" \/ a.running = "no"
            /\ Unbound(s) = "up"   => /\ \E a \in seen : a.enabled = "yes"
                                      /\ \E a \in seen : a.running = "yes"

=============================================================================
