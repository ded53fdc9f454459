----------------------------- MODULE ProbeBudget -----------------------------
(***************************************************************************)
(* ProbeBudget of nabla/api/probe_budget.py: the probes of one diagnostic  *)
(* request share a semaphore and a deadline.  Each request has a budget of *)
(* its own; a probe is one call of run.                                    *)
(*                                                                         *)
(* A value returned and a timeout value are both "done": what the value    *)
(* says is left out.  Opening a budget forgets the probes of the last one, *)
(* so a budget is opened again only once they are all over.                *)
(***************************************************************************)
EXTENDS Naturals, FiniteSets

CONSTANTS
    Requests,        \* each with a budget of its own
    Probes,          \* the probes a request may run
    Malformed,       \* probes that raise instead of returning
    MaxConcurrency   \* max_concurrency

ASSUME BudgetAssumption ==
    /\ IsFiniteSet(Probes)
    /\ Malformed \subseteq Probes
    /\ MaxConcurrency \in Nat \ {0}

VARIABLES
    over,      \* the deadline has passed
    permits,   \* the value of the semaphore
    stage      \* where each probe of a request is

budgetVars == <<over, permits, stage>>

\* A probe "stopping" was cancelled and has not let go yet.
Holding == {"running", "stopping"}
Ended   == {"done", "raised", "cancelled"}
Stages  == {"none", "queued"} \cup Holding \cup Ended

Alive(b)   == {p \in Probes : stage[b][p] \notin Ended \cup {"none"}}
Holders(b) == {p \in Probes : stage[b][p] \in Holding}

To(b, p, s) == stage' = [stage EXCEPT ![b][p] = s]
Acquire(b)  == permits' = [permits EXCEPT ![b] = @ - 1]
Release(b)  == permits' = [permits EXCEPT ![b] = @ + 1]

BudgetInit ==
    /\ over    = [b \in Requests |-> FALSE]
    /\ permits = [b \in Requests |-> MaxConcurrency]
    /\ stage   = [b \in Requests |-> [p \in Probes |-> "none"]]

\* __post_init__: a new semaphore and a new deadline
Open(b) ==
    /\ Alive(b) = {}
    /\ over'    = [over EXCEPT ![b] = FALSE]
    /\ permits' = [permits EXCEPT ![b] = MaxConcurrency]
    /\ stage'   = [stage EXCEPT ![b] = [p \in Probes |-> "none"]]

\* The request is over: its budget is gone unless probes still use it.
Close(b) == IF Alive(b) = {} THEN Open(b) ELSE UNCHANGED budgetVars

\* run begins: after the deadline it does not even queue.
Run(b, p) ==
    /\ stage[b][p] = "none"
    /\ To(b, p, IF over[b] THEN "done" ELSE "queued")
    /\ UNCHANGED <<over, permits>>

\* The semaphore is acquired; the deadline is looked at again.
Admit(b, p) ==
    /\ stage[b][p] = "queued" /\ permits[b] > 0
    /\ \/ over[b] /\ To(b, p, "done") /\ UNCHANGED permits
       \/ ~over[b] /\ To(b, p, "running") /\ Acquire(b)
    /\ UNCHANGED over

\* The deadline ends the wait for the semaphore, which was not acquired.
ReleasedAnyway(b, p) ==                             \* bug: acquired ignored
    /\ stage[b][p] = "queued" /\ over[b]
    /\ To(b, p, "done") /\ Release(b)
    /\ UNCHANGED over
QueueTimeout(b, p) ==
    /\ stage[b][p] = "queued" /\ over[b]
    /\ To(b, p, "done")
    /\ UNCHANGED <<over, permits>>

\* The factory returns or raises; the finally releases.
Finish(b, p) ==
    /\ stage[b][p] = "running"
    /\ To(b, p, IF p \in Malformed THEN "raised" ELSE "done")
    /\ Release(b)
    /\ UNCHANGED over

\* The deadline ends the factory.
NoTimeout(b, p) ==                                  \* bug: origin waited for
    /\ FALSE
    /\ UNCHANGED budgetVars
OriginTimeout(b, p) ==
    /\ stage[b][p] = "running" /\ over[b]
    /\ To(b, p, "done")
    /\ Release(b)
    /\ UNCHANGED over

\* The tasks of P are cancelled: one that waits for the semaphore or has not
\* begun is over, one that runs has to leave its factory first.
CancelAll(b, P) ==
    /\ stage' = [stage EXCEPT ![b] =
                    [p \in Probes |->
                        IF p \notin P THEN @[p]
                        ELSE IF @[p] = "running" THEN "stopping"
                        ELSE IF @[p] \in {"none", "queued"} THEN "cancelled"
                        ELSE @[p]]]
    /\ UNCHANGED <<over, permits>>

\* A cancelled probe has left its factory.
PermitLost(b, p) ==                                 \* bug: not in a finally
    /\ stage[b][p] = "stopping"
    /\ To(b, p, "cancelled")
    /\ UNCHANGED <<over, permits>>
Stop(b, p) ==
    /\ stage[b][p] = "stopping"
    /\ To(b, p, "cancelled")
    /\ Release(b)
    /\ UNCHANGED over

\* deadline_seconds have passed.
Deadline(b) ==
    /\ ~over[b]
    /\ over' = [over EXCEPT ![b] = TRUE]
    /\ UNCHANGED <<permits, stage>>

\* The steps of a probe that its budget or the event loop sees to.
Bounded(b, p) == \/ Run(b, p) \/ Admit(b, p) \/ QueueTimeout(b, p)
                 \/ OriginTimeout(b, p) \/ Stop(b, p)

BudgetNext ==
    \E b \in Requests :
        \/ Open(b) \/ Deadline(b)
        \/ \E p \in Probes : Bounded(b, p) \/ Finish(b, p)
        \/ \E P \in SUBSET Probes : CancelAll(b, P)

BudgetSpec == BudgetInit /\ [][BudgetNext]_budgetVars

-----------------------------------------------------------------------------
BudgetTypeOK ==
    /\ over \in [Requests -> BOOLEAN]
    /\ permits \in [Requests -> 0 .. MaxConcurrency]
    /\ stage \in [Requests -> [Probes -> Stages]]

\* However probes end - by themselves, in the queue, at the deadline, by a
\* cancellation - no more than max_concurrency of a request hold origins, and
\* the permits they do not hold are there for the others.
FanOutBounded ==
    \A b \in Requests : permits[b] + Cardinality(Holders(b)) = MaxConcurrency

\* A probe that expires while it is queued never starts.
NoLateStart ==
    [][\A b \in Requests, p \in Probes :
          stage[b][p] # "running" /\ stage'[b][p] = "running" => ~over[b]]_budgetVars

=============================================================================
