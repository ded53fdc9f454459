----------------------------- MODULE AppLifespan -----------------------------
(***************************************************************************)
(* build_lifespan of nabla/lifespan.py: the resources one application      *)
(* acquires on startup, each with its release pushed on an exit stack, the *)
(* outbound MCP sessions with a stack of their own (nabla/mcp/client.py),  *)
(* the background tasks, and the unwinding that ends every startup, whole  *)
(* or cut short.                                                           *)
(***************************************************************************)
EXTENDS Naturals, Sequences, FiniteSets

CONSTANTS
    Servers,       \* the enabled MCP servers, in the order of the settings
    MaxTroubles    \* bound: what raises or is cancelled

Subsystems == {"database", "redis", "mcp", "metrics"}
Links      == {Servers[i] : i \in DOMAIN Servers}
BackgroundTasks == {"system-metrics", "redis-event-listener",
                    "runtime-topology-heartbeat"}

LifespanAssumption == Servers \in Seq(Links) /\ MaxTroubles \in Nat

VARIABLES
    features,    \* AppFeatures
    required,    \* postgres_required()
    pc,          \* the stage of the startup, or the release in progress
    resources,   \* the AsyncExitStack, its top first
    attempt,     \* the nested stack of _start_database
    open,        \* what is open: the pool, Redis, the database
    available,   \* app.state.database_available
    next,        \* the MCP server start() connects next
    contexts,    \* the stack of McpClientManager, its top first
    sessions,    \* _sessions: the servers that have one
    task,        \* the background tasks
    left,        \* history: what a release that raised may have left open
    troubles

vars  == <<features, required, pc, resources, attempt, open, available, next,
           contexts, sessions, task, left, troubles>>
mcp   == <<next, contexts, sessions>>
fixed == <<features, required>>
state == <<resources, attempt, open>>

Init ==
    /\ features \in SUBSET Subsystems
    /\ required \in BOOLEAN
    /\ pc        = "begin"
    /\ resources = <<>>
    /\ attempt   = <<>>
    /\ open      = {"pool"} \cup ({"redis"} \cap features)
    /\ available = FALSE
    /\ next      = 0
    /\ contexts  = <<>>
    /\ sessions  = {}
    /\ task      = [w \in BackgroundTasks |-> "none"]
    /\ left      = {}
    /\ troubles  = 0

Trouble == troubles < MaxTroubles /\ troubles' = troubles + 1

Goto(to) == pc' = to
Push(release, stack) == <<release>> \o stack

-----------------------------------------------------------------------------
\* The pool and the Redis client exist since the import; their release comes
\* first on the stack.
Begin ==
    /\ pc = "begin"
    /\ resources' = (IF "redis" \in features THEN <<"redis">> ELSE <<>>)
                    \o (IF "database" \in features THEN <<"pool">> ELSE <<>>)
    /\ Goto(IF "database" \in features THEN "database" ELSE "flags")
    /\ UNCHANGED <<fixed, attempt, open, available, mcp, task, left, troubles>>

\* database.connect, on the stack of the application where it is required and
\* on one of the attempt where it is not.
PushedTo == IF required THEN resources' = Push("database", resources) /\ UNCHANGED attempt
                        ELSE attempt' = <<"database">> /\ UNCHANGED resources

Connect ==
    /\ pc = "database"
    /\ open' = open \cup {"database"}
    /\ PushedTo
    /\ Goto("schema")
    /\ UNCHANGED <<fixed, available, mcp, task, left, troubles>>

\* The tables are created: what the attempt has acquired is handed over.
NotHandedOver == resources' = resources /\ open' = open \ {"database"}
                                                    \* bug: no pop_all
HandedOver    == resources' = attempt \o resources /\ UNCHANGED open

Schema ==
    /\ pc = "schema"
    /\ HandedOver
    /\ attempt'   = <<>>
    /\ available' = TRUE
    /\ Goto("flags")
    /\ UNCHANGED <<fixed, mcp, task, left, troubles>>

\* A failed attempt closes what it opened, as far as that does not raise; the
\* application goes on without it, unless the database is required.
AttemptClosed ==
    /\ attempt' = <<>>
    /\ \/ attempt = <<>> /\ UNCHANGED <<open, left>>
       \/ attempt # <<>> /\ open' = open \ {"database"} /\ UNCHANGED left
       \/ attempt # <<>> /\ left' = left \cup {"database"} /\ UNCHANGED open

DatabaseRaised ==
    /\ pc \in {"database", "schema"}
    /\ Trouble
    /\ AttemptClosed
    /\ Goto(IF required THEN "unwinding" ELSE "flags")
    /\ UNCHANGED <<fixed, resources, available, mcp, task>>

\* The server gives up on the startup: a cancellation passes every handler of
\* errors, and closes the attempt it may be in.
Cancelled ==
    /\ pc \in {"database", "schema", "mcp", "entered", "opened"}
    /\ Trouble
    /\ AttemptClosed
    /\ Goto("unwinding")
    /\ UNCHANGED <<fixed, resources, available, mcp, task>>

-----------------------------------------------------------------------------
\* The demo flags may raise; then close_mcp_clients is pushed and start() runs.
Flags ==
    /\ pc = "flags"
    /\ \/ /\ IF "mcp" \in features
             THEN resources' = Push("mcp", resources) /\ Goto("mcp")
             ELSE UNCHANGED resources /\ Goto("workers")
          /\ UNCHANGED troubles
       \/ Trouble /\ Goto("unwinding") /\ UNCHANGED resources
    /\ UNCHANGED <<fixed, attempt, open, available, mcp, task, left>>

Server == Servers[next + 1]

\* The transport of a server, then its session, are entered on the manager's
\* stack; initialize ends the connection of a server.
Enter ==
    /\ pc = "mcp" /\ next < Len(Servers)
    /\ contexts' = Push(Server, contexts)
    /\ Goto("entered")
    /\ UNCHANGED <<fixed, state, available, next, sessions, task, left, troubles>>

OpenSession ==
    /\ pc = "entered"
    /\ contexts' = Push(Server, contexts)
    /\ Goto("opened")
    /\ UNCHANGED <<fixed, state, available, next, sessions, task, left, troubles>>

Initialized ==
    /\ pc = "opened"
    /\ sessions' = sessions \cup {Server}
    /\ next' = next + 1
    /\ Goto("mcp")
    /\ UNCHANGED <<fixed, state, available, contexts, task, left, troubles>>

\* An error is logged and the next server tried: what is entered stays entered.
ServerRaised ==
    /\ pc \in {"mcp", "entered", "opened"} /\ next < Len(Servers)
    /\ Trouble
    /\ next' = next + 1
    /\ Goto("mcp")
    /\ UNCHANGED <<fixed, state, available, contexts, sessions, task, left>>

Connected ==
    /\ pc = "mcp" /\ next = Len(Servers)
    /\ Goto("workers")
    /\ UNCHANGED <<fixed, state, available, mcp, task, left, troubles>>

\* _cancel_background_tasks is pushed before the tasks are started.
PushedFirst == Append(resources, "workers")         \* bug: under the resources
PushedLast  == Push("workers", resources)

Start ==
    /\ pc = "workers"
    /\ resources' = PushedLast
    /\ task' = [w \in BackgroundTasks |->
                  IF w = "system-metrics"
                  THEN IF "metrics" \in features THEN "running" ELSE "none"
                  ELSE IF "redis" \in features THEN "running" ELSE "none"]
    /\ Goto("serving")
    /\ UNCHANGED <<fixed, attempt, open, available, mcp, left, troubles>>

-----------------------------------------------------------------------------
\* A task may end by itself, with an error or without: that is reported only.
TaskEnds(w) ==
    /\ task[w] \in {"running", "stopping"}
    /\ task' = [task EXCEPT ![w] = "ended"]
    /\ UNCHANGED <<fixed, pc, state, available, mcp, left, troubles>>

Shutdown ==
    /\ pc = "serving"
    /\ Goto("unwinding")
    /\ UNCHANGED <<fixed, state, available, mcp, task, left, troubles>>

\* The release on top of the stack runs; the stack goes on, whatever it raises.
Top(release) == pc = "unwinding" /\ resources # <<>> /\ Head(resources) = release

Release(r) ==
    /\ Top(r) /\ r \in {"pool", "redis", "database"}
    /\ \/ open' = open \ {r} /\ UNCHANGED <<left, troubles>>
       \/ Trouble /\ UNCHANGED open /\ left' = left \cup {r}
    /\ resources' = Tail(resources)
    /\ UNCHANGED <<fixed, pc, attempt, available, mcp, task>>

\* Every task is cancelled, and all have ended when the gather returns.
CancelWorkers ==
    /\ Top("workers")
    /\ Goto("gathering")
    /\ task' = [w \in BackgroundTasks |-> IF task[w] = "running" THEN "stopping" ELSE task[w]]
    /\ UNCHANGED <<fixed, state, available, mcp, left, troubles>>

GatherEarly == TRUE                                 \* bug: not awaited
AllEnded    == \A w \in BackgroundTasks : task[w] # "stopping"

Gathered ==
    /\ pc = "gathering" /\ AllEnded
    /\ resources' = Tail(resources)
    /\ Goto("unwinding")
    /\ UNCHANGED <<fixed, attempt, open, available, mcp, task, left, troubles>>

\* McpClientManager.close: the sessions are forgotten, then every context is
\* left, the last one first.
CloseMcp ==
    /\ Top("mcp")
    /\ sessions' = {}
    /\ Goto("closing")
    /\ UNCHANGED <<fixed, state, available, next, contexts, task, left, troubles>>

LeaveContext ==
    /\ pc = "closing" /\ contexts # <<>>
    /\ \/ UNCHANGED <<left, troubles>>
       \/ Trouble /\ left' = left \cup {Head(contexts)}
    /\ contexts' = Tail(contexts)
    /\ UNCHANGED <<fixed, pc, state, available, next, sessions, task>>

Closed ==
    /\ pc = "closing" /\ contexts = <<>>
    /\ resources' = Tail(resources)
    /\ Goto("unwinding")
    /\ UNCHANGED <<fixed, attempt, open, available, mcp, task, left, troubles>>

End ==
    /\ pc = "unwinding" /\ resources = <<>>
    /\ Goto("ended")
    /\ UNCHANGED <<fixed, state, available, mcp, task, left, troubles>>

Progress ==
    \/ Begin \/ Connect \/ Schema \/ DatabaseRaised \/ Cancelled \/ Flags
    \/ Enter \/ OpenSession \/ Initialized \/ ServerRaised \/ Connected \/ Start
    \/ \E r \in open : Release(r)
    \/ CancelWorkers \/ Gathered \/ CloseMcp \/ LeaveContext \/ Closed \/ End

Next == Progress \/ Shutdown \/ \E w \in BackgroundTasks : TaskEnds(w)

Spec == Init /\ [][Next]_vars

-----------------------------------------------------------------------------
TypeOK ==
    /\ features \subseteq Subsystems /\ required \in BOOLEAN
    /\ pc \in {"begin", "database", "schema", "flags", "mcp", "entered", "opened",
               "workers", "serving", "unwinding", "gathering", "closing", "ended"}
    /\ resources \in Seq({"pool", "redis", "database", "mcp", "workers"})
    /\ attempt \in {<<>>, <<"database">>}
    /\ open \subseteq {"pool", "redis", "database"}
    /\ available \in BOOLEAN
    /\ next \in 0 .. Len(Servers)
    /\ contexts \in Seq(Links)
    /\ sessions \subseteq Links
    /\ task \in [BackgroundTasks -> {"none", "running", "stopping", "ended"}]
    /\ left \subseteq {"pool", "redis", "database"} \cup Links
    /\ troubles \in 0 .. MaxTroubles

\* However far the startup came and whatever raised, when the lifespan is over
\* no task runs and all that its subsystems opened is closed, but for what a
\* release of its own kept open.
NothingLeftOpen ==
    pc = "ended" =>
        /\ \A w \in BackgroundTasks : task[w] \notin {"running", "stopping"}
        /\ contexts = <<>> /\ sessions = {}
        /\ open \subseteq IF "database" \in features THEN left ELSE left \cup {"pool"}

\* Nothing is closed under its users: tasks that use Redis have ended before it
\* is, and a session handed out has its contexts open.
UsersEndFirst ==
    /\ \A w \in BackgroundTasks \ {"system-metrics"} :
          task[w] \in {"running", "stopping"} => "redis" \in open
    /\ \A s \in sessions : \E i \in DOMAIN contexts : contexts[i] = s

\* What require_database goes by is true: while requests are served, the
\* database is connected where app.state says so, and closed where it does not,
\* unless that raised; and it says so wherever the database is required.
AvailabilityTrue ==
    pc = "serving" =>
        /\ available => "database" \in open
        /\ "database" \in open => available \/ "database" \in left
        /\ "database" \in features /\ required => available

\* The lifespan of the application keeps its resources in order.
LifespanOrdered == NothingLeftOpen /\ UsersEndFirst /\ AvailabilityTrue

=============================================================================
