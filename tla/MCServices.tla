----------------------------- MODULE MCServices -----------------------------
(***************************************************************************)
(* Four small services of the application that share no state: the rate    *)
(* budget of a provider, a note and its workers, the sensor events of the  *)
(* web sockets, and the lifespan.  Each execution is one of one of them;   *)
(* the other three stay as they started.                                   *)
(***************************************************************************)
EXTENDS ProviderBudget, Sequences

CONSTANTS r1, r2, c1, c2, c3,
          Requests, Workers, Texts, NoRow, NoJob, MaxJobs, MaxTroubles,
          Sockets, NoSocket, MaxEvents, Servers, s1, s2, q1, q2, w1, w2, ta, tb, e1, e2, e3

VARIABLES
    service,
    row, request, copy, overtaken, jobs, queue, retry, stage, job, done, faults,
    conns, peer, listener, published, pending, at, target, inbox, owed, shifted,
    features, required, phase, resources, attempt, open, available, next,
    contexts, sessions, task, left, troubles

MCHome     == [c \in {c1, c2, c3} |-> IF c = c3 THEN r2 ELSE r1]
TwoServers == <<s1, s2>>

Note   == INSTANCE Notes WITH pc <- request, troubles <- faults
Events == INSTANCE EventBroadcast
App    == INSTANCE AppLifespan WITH pc <- phase

ASSUME ServicesAssumption ==
    Note!NotesAssumption /\ Events!EventsAssumption /\ App!LifespanAssumption

note   == <<row, request, copy, overtaken, jobs, queue, retry, stage, job, done,
            faults>>
events == <<conns, peer, listener, published, pending, at, target, inbox, owed,
            shifted>>
app    == <<features, required, phase, resources, attempt, open, available, next,
            contexts, sessions, task, left, troubles>>
all    == <<service, vars, note, events, app>>

MCInit ==
    /\ service \in {"budget", "note", "events", "app"}
    /\ Init /\ Events!Init
    /\ IF service = "note" THEN Note!Init
       ELSE Note!Init /\ row = [text |-> CHOOSE t \in Texts : TRUE,
                                completed |-> FALSE, created |-> "original"]
    /\ App!Init
    /\ service # "app" => features = {} /\ required = FALSE

MCNext ==
    /\ UNCHANGED service
    /\ \/ /\ service = "budget" /\ Next /\ UNCHANGED <<note, events, app>>
       \/ /\ service = "note" /\ Note!Next /\ UNCHANGED <<vars, events, app>>
       \/ /\ service = "events" /\ Events!Next /\ UNCHANGED <<vars, note, app>>
       \/ /\ service = "app" /\ App!Next /\ UNCHANGED <<vars, note, events>>

\* The fairness of Notes: the others are checked for safety.
Fairness ==
    \A w \in Workers :
        WF_all(service = "note" /\ Note!Work(w) /\ UNCHANGED <<vars, events, app, service>>)

MCSpec == MCInit /\ [][MCNext]_all /\ Fairness

-----------------------------------------------------------------------------
\* Every update handed to the workers is in one place, and lost by failures only.
JobsAccounted == Note!JobsAccounted

\* Each socket is sent an event once at most, in the order of publication.
EventsInOrder == Events!EventsInOrder

\* The lifespan closes what it opened, after its users, and knows its database.
LifespanOrdered == App!LifespanOrdered

\* A change of a note keeps what it does not name and resurrects nothing.
RestKept == Note!RestKept

\* A broadcast that comes to its end reaches who was and is connected.
NobodySkipped == Events!NobodySkipped

\* While nothing fails, the workers finish every update handed to them.
JobsFinish == Note!JobsFinish

=============================================================================
