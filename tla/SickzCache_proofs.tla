-------------------------- MODULE SickzCache_proofs --------------------------
(***************************************************************************)
(* The sickz cache and its probe budgets for any requests, hostnames and   *)
(* target groups: how many probes of a request hold origins, when they     *)
(* start, what is served to whom, and the single flight of the builds.     *)
(***************************************************************************)
EXTENDS SickzCache, FiniteSetTheorems, TLAPS

\* What a budget keeps through every step.
BudgetInv == BudgetTypeOK /\ FanOutBounded

\* A request holds the lock exactly while it builds.
LockHeld == \A c \in Requests : lock = c <=> pc[c] \in Building

\* A request under way has a hostname.
HostKnown == \A c \in Requests : pc[c] # "idle" => host[c] \in Hosts

\* No purge overtakes a build, so what is stored is never outdated.
NothingOutdated ==
    /\ outdated = {}
    /\ snapshot # None => ~snapshot.outdated

IInv == BudgetInv /\ TypeOK /\ LockHeld /\ HostKnown /\ NothingOutdated

-----------------------------------------------------------------------------
\* The probes that hold an origin are finitely many.
LEMMA HoldersFinite ==
    ASSUME NEW b \in Requests
    PROVE  /\ IsFiniteSet(Holders(b))
           /\ Cardinality(Holders(b)) \in Nat
<1>1. Holders(b) \in SUBSET Probes
  BY DEF Holders
<1>2. IsFiniteSet(Holders(b))
  BY <1>1, FS_Subset, BudgetAssumption
<1> QED BY <1>2, FS_CardinalityType

\* A probe that moves on keeps the stages well typed and touches no other
\* request.
LEMMA ToType ==
    ASSUME BudgetTypeOK, NEW b \in Requests, NEW p \in Probes, NEW s \in Stages,
           To(b, p, s)
    PROVE  /\ stage' \in [Requests -> [Probes -> Stages]]
           /\ \A d \in Requests, q \in Probes :
                 stage'[d][q] = IF d = b /\ q = p THEN s ELSE stage[d][q]
           /\ \A d \in Requests \ {b} : Holders(d)' = Holders(d)
<1>1. /\ stage' \in [Requests -> [Probes -> Stages]]
      /\ \A d \in Requests, q \in Probes :
            stage'[d][q] = IF d = b /\ q = p THEN s ELSE stage[d][q]
  BY DEF BudgetTypeOK, To
<1> QED BY <1>1 DEF Holders

\* A probe that moves without taking or giving back a permit.
LEMMA MoveKeeps ==
    ASSUME BudgetInv, NEW b \in Requests, NEW p \in Probes, NEW s \in Stages,
           To(b, p, s), s \in Holding <=> stage[b][p] \in Holding,
           over' \in [Requests -> BOOLEAN], permits' = permits
    PROVE  BudgetInv'
<1>1. BudgetTypeOK
  BY DEF BudgetInv
<1>2. \A d \in Requests : Holders(d)' = Holders(d)
  BY <1>1, ToType DEF Holders
<1> QED BY <1>1, <1>2, ToType DEF BudgetInv, BudgetTypeOK, FanOutBounded

\* A probe that takes a permit there is.
LEMMA AcquireKeeps ==
    ASSUME BudgetInv, NEW b \in Requests, NEW p \in Probes,
           stage[b][p] \notin Holding, permits[b] > 0,
           To(b, p, "running"), Acquire(b), over' = over
    PROVE  BudgetInv'
<1>1. BudgetTypeOK /\ "running" \in Stages
  BY DEF BudgetInv, Stages, Holding
<1>2. Holders(b)' = Holders(b) \cup {p} /\ p \notin Holders(b)
  BY <1>1, ToType DEF Holders, Holding
<1>3. Cardinality(Holders(b)') = Cardinality(Holders(b)) + 1
  BY <1>2, HoldersFinite, FS_AddElement
<1>4. \A d \in Requests : permits'[d] = IF d = b THEN permits[d] - 1
                                                ELSE permits[d]
  BY <1>1 DEF Acquire, BudgetTypeOK
<1>5. permits' \in [Requests -> 0 .. MaxConcurrency]
  BY <1>1, <1>4, BudgetAssumption DEF Acquire, BudgetTypeOK
<1>6. \A d \in Requests : permits[d] \in Int /\ Cardinality(Holders(d)) \in Nat
  BY <1>1, HoldersFinite, BudgetAssumption DEF BudgetTypeOK
<1>7. FanOutBounded'
  <2> SUFFICES ASSUME NEW d \in Requests
               PROVE  permits'[d] + Cardinality(Holders(d)') = MaxConcurrency
    BY DEF FanOutBounded
  <2>1. CASE d = b
    BY <1>3, <1>4, <1>6, <2>1, BudgetAssumption DEF BudgetInv, FanOutBounded
  <2>2. CASE d # b
    BY <1>1, <1>4, <2>2, ToType DEF BudgetInv, FanOutBounded
  <2> QED BY <2>1, <2>2
<1> QED BY <1>1, <1>5, <1>7, ToType DEF BudgetInv, BudgetTypeOK

\* A probe that gives its permit back.
LEMMA ReleaseKeeps ==
    ASSUME BudgetInv, NEW b \in Requests, NEW p \in Probes, NEW s \in Ended,
           stage[b][p] \in Holding, To(b, p, s), Release(b), over' = over
    PROVE  BudgetInv'
<1>1. BudgetTypeOK /\ s \in Stages /\ s \notin Holding
  BY DEF BudgetInv, Stages, Holding, Ended
<1>2. Holders(b)' = Holders(b) \ {p} /\ p \in Holders(b)
  BY <1>1, ToType DEF Holders
<1>3. /\ Cardinality(Holders(b)') = Cardinality(Holders(b)) - 1
      /\ Cardinality(Holders(b)) # 0
  BY <1>2, HoldersFinite, FS_RemoveElement, FS_EmptySet
<1>4. \A d \in Requests : permits'[d] = IF d = b THEN permits[d] + 1
                                                ELSE permits[d]
  BY <1>1 DEF Release, BudgetTypeOK
<1>5. \A d \in Requests : permits[d] \in Int /\ Cardinality(Holders(d)) \in Nat
  BY <1>1, HoldersFinite, BudgetAssumption DEF BudgetTypeOK
<1>6. permits[b] + Cardinality(Holders(b)) = MaxConcurrency
  BY DEF BudgetInv, FanOutBounded
<1>7. permits' \in [Requests -> 0 .. MaxConcurrency]
  BY <1>1, <1>3, <1>4, <1>5, <1>6, BudgetAssumption DEF Release, BudgetTypeOK
<1>8. FanOutBounded'
  <2> SUFFICES ASSUME NEW d \in Requests
               PROVE  permits'[d] + Cardinality(Holders(d)') = MaxConcurrency
    BY DEF FanOutBounded
  <2>1. CASE d = b
    BY <1>3, <1>4, <1>5, <1>6, <2>1, BudgetAssumption
  <2>2. CASE d # b
    BY <1>1, <1>4, <2>2, ToType DEF BudgetInv, FanOutBounded
  <2> QED BY <2>1, <2>2
<1> QED BY <1>1, <1>7, <1>8, ToType DEF BudgetInv, BudgetTypeOK

\* A new budget has all its permits and no probe.
LEMMA OpenKeeps ==
    ASSUME BudgetInv, NEW b \in Requests, Open(b)
    PROVE  BudgetInv'
<1>1. BudgetTypeOK'
  BY BudgetAssumption DEF BudgetInv, BudgetTypeOK, Open, Stages
<1>2. Holders(b)' = {} /\ permits'[b] = MaxConcurrency
  BY DEF BudgetInv, BudgetTypeOK, Open, Holders, Holding
<1>3. \A d \in Requests \ {b} : Holders(d)' = Holders(d) /\ permits'[d] = permits[d]
  BY DEF BudgetInv, BudgetTypeOK, Open, Holders
<1>4. FanOutBounded'
  BY <1>2, <1>3, FS_EmptySet, BudgetAssumption DEF BudgetInv, FanOutBounded
<1> QED BY <1>1, <1>4 DEF BudgetInv

\* Closing a budget is opening a new one, or nothing while probes use it.
LEMMA CloseKeeps ==
    ASSUME BudgetInv, NEW b \in Requests, Close(b)
    PROVE  BudgetInv'
<1>1. CASE UNCHANGED budgetVars
  BY <1>1 DEF BudgetInv, BudgetTypeOK, FanOutBounded, Holders, budgetVars
<1>2. CASE Open(b)
  BY <1>2, OpenKeeps
<1> QED BY <1>1, <1>2 DEF Close

\* Cancelling probes moves no permit.
LEMMA CancelAllKeeps ==
    ASSUME BudgetInv, NEW b \in Requests, NEW P, CancelAll(b, P)
    PROVE  BudgetInv'
<1>1. BudgetTypeOK /\ over' = over /\ permits' = permits
  BY DEF BudgetInv, CancelAll
<1>2. \A d \in Requests, q \in Probes :
         stage'[d][q] = IF d # b \/ q \notin P THEN stage[d][q]
                        ELSE IF stage[d][q] = "running" THEN "stopping"
                        ELSE IF stage[d][q] \in {"none", "queued"}
                             THEN "cancelled"
                        ELSE stage[d][q]
  BY <1>1 DEF CancelAll, BudgetTypeOK
<1>3. stage' \in [Requests -> [Probes -> Stages]]
  BY <1>1 DEF CancelAll, BudgetTypeOK, Stages, Holding, Ended
<1>4. \A d \in Requests : Holders(d)' = Holders(d)
  BY <1>2 DEF Holders, Holding
<1> QED BY <1>1, <1>3, <1>4 DEF BudgetInv, BudgetTypeOK, FanOutBounded

\* What a probe does under its budget keeps the permits balanced.
LEMMA ProbeKeeps ==
    ASSUME BudgetInv, NEW b \in Requests, NEW p \in Probes,
           Bounded(b, p) \/ Finish(b, p)
    PROVE  BudgetInv'
<1>0. over \in [Requests -> BOOLEAN]
  BY DEF BudgetInv, BudgetTypeOK
<1>1. CASE Run(b, p)
  <2>1. PICK s \in {"done", "queued"} : To(b, p, s)
    BY <1>1 DEF Run
  <2> QED BY <1>0, <1>1, <2>1, MoveKeeps DEF Run, Stages, Holding, Ended
<1>2. CASE Admit(b, p)
  <2>1. CASE To(b, p, "done") /\ UNCHANGED permits
    BY <1>0, <1>2, <2>1, MoveKeeps DEF Admit, Stages, Holding, Ended
  <2>2. CASE To(b, p, "running") /\ Acquire(b)
    BY <1>2, <2>2, AcquireKeeps DEF Admit, Holding
  <2> QED BY <1>2, <2>1, <2>2 DEF Admit
<1>3. CASE QueueTimeout(b, p)
  BY <1>0, <1>3, MoveKeeps DEF QueueTimeout, Stages, Holding, Ended
<1>4. CASE OriginTimeout(b, p)
  BY <1>4, ReleaseKeeps DEF OriginTimeout, Holding, Ended
<1>5. CASE Stop(b, p)
  BY <1>5, ReleaseKeeps DEF Stop, Holding, Ended
<1>6. CASE Finish(b, p)
  <2>1. PICK s \in Ended : To(b, p, s)
    BY <1>6 DEF Finish, Ended
  <2> QED BY <1>6, <2>1, ReleaseKeeps DEF Finish, Holding
<1> QED BY <1>1, <1>2, <1>3, <1>4, <1>5, <1>6 DEF Bounded

\* Every step of a budget keeps what it keeps.
LEMMA BudgetNextKeeps == BudgetInv /\ [BudgetNext]_budgetVars => BudgetInv'
<1> SUFFICES ASSUME BudgetInv, [BudgetNext]_budgetVars PROVE BudgetInv'
  OBVIOUS
<1>1. CASE UNCHANGED budgetVars
  BY <1>1 DEF BudgetInv, BudgetTypeOK, FanOutBounded, Holders, budgetVars
<1>2. ASSUME NEW b \in Requests, Deadline(b) PROVE BudgetInv'
  BY <1>2 DEF BudgetInv, BudgetTypeOK, FanOutBounded, Holders, Deadline
<1> QED BY <1>1, <1>2, OpenKeeps, ProbeKeeps, CancelAllKeeps DEF BudgetNext

\* A budget begins with all its permits.
LEMMA BudgetInitKeeps == BudgetInit => BudgetInv
<1> SUFFICES ASSUME BudgetInit PROVE BudgetInv
  OBVIOUS
<1>1. \A b \in Requests : Holders(b) = {} /\ permits[b] = MaxConcurrency
  BY DEF BudgetInit, Holders, Holding
<1> QED BY <1>1, FS_EmptySet, BudgetAssumption
        DEF BudgetInit, BudgetInv, BudgetTypeOK, FanOutBounded, Stages

-----------------------------------------------------------------------------
\* Every step of the sickz cache is a step of its budgets, or none.
LEMMA StepIsBudgetStep == [Next]_vars => [BudgetNext]_budgetVars
<1> SUFFICES ASSUME [Next]_vars PROVE [BudgetNext]_budgetVars
  OBVIOUS
<1>1. ASSUME NEW c \in Requests, Close(c) PROVE [BudgetNext]_budgetVars
  BY <1>1 DEF Close, BudgetNext
<1>2. ASSUME NEW c \in Requests, Call(c) \/ Enter(c) \/ Progress(c)
      PROVE  [BudgetNext]_budgetVars
  BY <1>1, <1>2 DEF Call, Enter, Serve, Build, Progress, CatalogueLoaded,
     Gathered, GatherRaised, Store, Unwound, Leave, BudgetNext
<1>3. ASSUME NEW c \in Requests, Cancel(c) PROVE [BudgetNext]_budgetVars
  <2>1. CASE CancelAlone(c)
    BY <1>1, <2>1 DEF CancelAlone, Leave
  <2>2. CASE CancelProbes(c)
    <3>1. \E P \in SUBSET Probes : CancelAll(c, P)
      BY <2>2, SickzAssumption DEF CancelProbes, Awaited
    <3> QED BY <3>1 DEF BudgetNext
  <2> QED BY <1>3, <2>1, <2>2 DEF Cancel
<1>4. ASSUME NEW c \in Requests, Supervise(c) \/ OriginAnswers(c)
      PROVE  [BudgetNext]_budgetVars
  BY <1>4 DEF Supervise, OriginAnswers, BudgetNext, Bounded
<1>5. CASE AskPurge \/ Purge \/ Expire \/ UNCHANGED vars
  BY <1>5 DEF AskPurge, Purge, Expire, vars
<1> QED BY <1>2, <1>3, <1>4, <1>5 DEF Next

-----------------------------------------------------------------------------
\* The lock follows the program counter of the one request that moves.
LEMMA LeaveKeeps ==
    ASSUME IInv, NEW c \in Requests, Leave(c)
    PROVE  /\ BudgetInv' /\ LockHeld' /\ HostKnown' /\ outdated' = {}
           /\ pc' \in [Requests -> Building \cup {"idle", "waiting"}]
           /\ host' \in [Requests -> Hosts \cup {None}]
           /\ lock' \in Requests \cup {NoRequest}
<1>0. TypeOK /\ LockHeld /\ outdated = {}
  BY DEF IInv, NothingOutdated
<1>1. \A d \in Requests : pc'[d] = IF d = c THEN "idle" ELSE pc[d]
  BY <1>0 DEF Leave, TypeOK
<1>2. LockHeld'
  BY <1>0, <1>1, SickzAssumption
     DEF LockHeld, Leave, LockReturned, TypeOK, Building
<1>3. HostKnown'
  BY <1>0, <1>1 DEF IInv, HostKnown, Leave, TypeOK
<1> QED BY <1>0, <1>2, <1>3, CloseKeeps
        DEF IInv, Leave, LockReturned, TypeOK, Building

\* A request that moves on between two awaits keeps what it holds.
LEMMA GotoKeeps ==
    ASSUME IInv, NEW c \in Requests, NEW to \in Building, Goto(c, to),
           pc[c] \in Building
    PROVE  /\ LockHeld' /\ HostKnown' /\ outdated' = {}
           /\ pc' \in [Requests -> Building \cup {"idle", "waiting"}]
           /\ host' \in [Requests -> Hosts \cup {None}]
           /\ lock' \in Requests \cup {NoRequest}
BY DEF IInv, TypeOK, LockHeld, HostKnown, NothingOutdated, Goto, Building

\* A step that leaves the lock and the snapshot alone.
LEMMA BudgetStepInv ==
    ASSUME IInv, BudgetInv', Nothing,
           UNCHANGED <<lock, pc, host, snapshot, purging, outdated>>
    PROVE  IInv'
BY DEF IInv, TypeOK, LockHeld, HostKnown, NothingOutdated, Nothing, BudgetInv

LEMMA StartInv ==
    ASSUME IInv, NEW c \in Requests, Call(c) \/ Enter(c)
    PROVE  IInv'
<1>0. TypeOK /\ LockHeld /\ outdated = {} /\ BudgetInv
  BY DEF IInv, NothingOutdated
<1>1. CASE Call(c)
  <2>1. BudgetInv'
    BY <1>0, <1>1 DEF Call, BudgetInv, BudgetTypeOK, FanOutBounded, Holders,
       budgetVars
  <2>2. \A d \in Requests : pc'[d] = IF d = c THEN "waiting" ELSE pc[d]
    BY <1>0, <1>1 DEF Call, TypeOK
  <2>3. LockHeld'
    BY <1>0, <1>1, <2>2 DEF Call, LockHeld, Building
  <2>4. HostKnown'
    BY <1>0, <1>1, <2>2 DEF Call, TypeOK, IInv, HostKnown
  <2> QED BY <1>0, <1>1, <2>1, <2>3, <2>4
          DEF Call, IInv, TypeOK, NothingOutdated, Nothing, BudgetInv
<1>2. CASE Serve(c)
  <2>1. served' \in [to : Hosts, of : Snapshot]
    BY <1>0, <1>2, SickzAssumption DEF Serve, Hit, TypeOK, Snapshot
  <2> QED BY <1>0, <1>2, <2>1, LeaveKeeps
          DEF Serve, IInv, TypeOK, NothingOutdated, BudgetInv
<1>3. CASE Build(c)
  <2>1. BudgetInv'
    BY <1>0, <1>3, OpenKeeps DEF Build
  <2>2. \A d \in Requests : pc'[d] = IF d = c THEN "catalogue" ELSE pc[d]
    BY <1>0, <1>3 DEF Build, TypeOK
  <2>3. LockHeld'
    BY <1>0, <1>3, <2>2, SickzAssumption DEF Build, LockFree, LockHeld, Building
  <2>4. pc' \in [Requests -> Building \cup {"idle", "waiting"}]
    BY <1>0, <1>3 DEF Build, TypeOK, Building
  <2>5. HostKnown'
    BY <1>0, <1>3, <2>2 DEF Build, IInv, HostKnown
  <2> QED BY <1>0, <1>3, <2>1, <2>3, <2>4, <2>5
          DEF Build, IInv, TypeOK, NothingOutdated, Nothing, BudgetInv
<1> QED BY <1>1, <1>2, <1>3 DEF Enter

LEMMA ProgressInv ==
    ASSUME IInv, NEW c \in Requests, Progress(c)
    PROVE  IInv'
<1>0. TypeOK /\ LockHeld /\ outdated = {} /\ BudgetInv
  BY DEF IInv, NothingOutdated
<1>1. CASE CatalogueLoaded(c) \/ Gathered(c)
  <2>1. PICK to \in Building : Goto(c, to)
    BY <1>1 DEF CatalogueLoaded, Gathered, Building
  <2>2. BudgetInv' /\ pc[c] \in Building
    BY <1>0, <1>1 DEF CatalogueLoaded, Gathered, Building, BudgetInv,
       BudgetTypeOK, FanOutBounded, Holders, budgetVars
  <2> QED BY <1>0, <1>1, <2>1, <2>2, GotoKeeps DEF CatalogueLoaded, Gathered,
          IInv, TypeOK, NothingOutdated, Nothing, BudgetInv
<1>2. CASE GatherRaised(c) \/ Unwound(c)
  BY <1>0, <1>2, LeaveKeeps DEF GatherRaised, Unwound,
     IInv, TypeOK, NothingOutdated, Nothing, BudgetInv
<1>3. CASE Store(c)
  <2>1. host[c] \in Hosts
    BY <1>3 DEF Store, IInv, HostKnown
  <2>2. snapshot' \in Snapshot /\ ~snapshot'.outdated
    <3>1. snapshot' = [host |-> host[c], outdated |-> c \in outdated]
      BY <1>3 DEF Store
    <3>2. (c \in outdated) = FALSE
      BY <1>0
    <3>3. snapshot' = [host |-> host[c], outdated |-> FALSE]
      BY <3>1, <3>2
    <3> QED BY <2>1, <3>3 DEF Snapshot
  <2>3. snapshot' \in Snapshot \cup {None} /\ NothingOutdated'
    <3>1. outdated' = {}
      BY <1>3, LeaveKeeps DEF Store
    <3> QED BY <2>2, <3>1 DEF NothingOutdated
  <2> QED BY <1>0, <1>3, <2>3, LeaveKeeps
          DEF Store, IInv, TypeOK, Nothing, BudgetInv
<1> QED BY <1>1, <1>2, <1>3 DEF Progress

LEMMA CancelInv ==
    ASSUME IInv, NEW c \in Requests, Cancel(c)
    PROVE  IInv'
<1>1. CASE CancelAlone(c)
  BY <1>1, LeaveKeeps DEF Cancel, CancelAlone,
     IInv, TypeOK, NothingOutdated, Nothing, BudgetInv
<1>2. CASE CancelProbes(c)
  <2>1. BudgetInv'
    BY <1>2, CancelAllKeeps DEF CancelProbes, IInv
  <2>2. Goto(c, "unwinding") /\ pc[c] \in Building /\ "unwinding" \in Building
    BY <1>2 DEF CancelProbes, Building
  <2> QED BY <2>1, <2>2, GotoKeeps DEF Cancel,
          IInv, TypeOK, NothingOutdated, Nothing, BudgetInv
<1> QED BY <1>1, <1>2 DEF Cancel

LEMMA NextInv == IInv /\ [Next]_vars => IInv'
<1> SUFFICES ASSUME IInv, [Next]_vars PROVE IInv'
  OBVIOUS
<1>0. BudgetInv'
  BY StepIsBudgetStep, BudgetNextKeeps DEF IInv
<1>1. ASSUME NEW c \in Requests, Supervise(c) \/ OriginAnswers(c) PROVE IInv'
  BY <1>0, <1>1, BudgetStepInv DEF Supervise, OriginAnswers
<1>2. CASE AskPurge
  BY <1>0, <1>2 DEF AskPurge, IInv, TypeOK, LockHeld, HostKnown, NothingOutdated,
     Nothing, BudgetInv
<1>3. CASE Purge
  <2>1. \A c \in Requests : pc[c] \notin Building
    BY <1>3, SickzAssumption DEF Purge, MayPurge, IInv, LockHeld
  <2> QED BY <1>0, <1>3, <2>1 DEF Purge, IInv, TypeOK, LockHeld,
          HostKnown, NothingOutdated, Nothing, BudgetInv
<1>4. CASE Expire
  BY <1>0, <1>4 DEF Expire, IInv, TypeOK, LockHeld, HostKnown, NothingOutdated,
     Nothing, BudgetInv
<1>5. CASE UNCHANGED vars
  BY <1>0, <1>5 DEF vars, IInv, TypeOK, LockHeld, HostKnown, NothingOutdated,
     BudgetInv
<1> QED BY <1>1, <1>2, <1>3, <1>4, <1>5, StartInv, ProgressInv, CancelInv
        DEF Next

\* The invariant holds always.
LEMMA Invariance == Spec => []IInv
<1>1. Init => IInv
  <2> SUFFICES ASSUME Init PROVE IInv
    OBVIOUS
  <2>1. BudgetInv
    BY BudgetInitKeeps DEF Init
  <2> QED BY <2>1, SickzAssumption DEF Init, IInv, TypeOK, LockHeld, HostKnown,
          NothingOutdated, BudgetInv, Building
<1> QED BY <1>1, NextInv, PTL DEF Spec

\* Every variable keeps its type, for any requests, hostnames and groups.
THEOREM TypeCorrect == Spec => []TypeOK
BY Invariance, PTL DEF IInv

\* The sickz cache runs its probes as ProbeBudget does.
THEOREM BudgetImplemented == Spec => BudgetSpec
<1>1. Init => BudgetInit
  BY DEF Init
<1> QED BY <1>1, StepIsBudgetStep, PTL DEF Spec, BudgetSpec

\* A budget by itself bounds its fan-out, whoever uses it.
THEOREM BudgetBounds == BudgetSpec => []FanOutBounded
<1>1. BudgetInv => FanOutBounded
  BY DEF BudgetInv
<1> QED BY <1>1, BudgetInitKeeps, BudgetNextKeeps, PTL DEF BudgetSpec

\* At most max_concurrency probes of a request hold origins, however the
\* probes end and whatever happened to the request.
THEOREM FanOutBound == Spec => []FanOutBounded
BY BudgetImplemented, BudgetBounds, PTL

\* No probe starts after the deadline of its request.
THEOREM NeverStartsLate == Spec => NoLateStart
<1>1. ASSUME BudgetInv, [BudgetNext]_budgetVars, NEW b \in Requests,
             NEW p \in Probes, stage[b][p] # "running",
             stage'[b][p] = "running"
      PROVE  ~over[b]
  <2>0. BudgetTypeOK
    BY <1>1 DEF BudgetInv
  <2>1. ASSUME NEW d \in Requests, NEW q \in Probes, NEW s \in Stages,
               To(d, q, s)
        PROVE  d = b /\ q = p /\ s = "running"
    BY <1>1, <2>0, <2>1, ToType
  <2>2. ASSUME NEW d \in Requests, Open(d) \/ Deadline(d) PROVE FALSE
    BY <1>1, <2>0, <2>2 DEF Open, Deadline, BudgetTypeOK
  <2>3. ASSUME NEW d \in Requests, NEW P \in SUBSET Probes, CancelAll(d, P)
        PROVE  FALSE
    BY <1>1, <2>0, <2>3 DEF CancelAll, BudgetTypeOK
  <2>4. ASSUME NEW d \in Requests, NEW q \in Probes, Admit(d, q)
        PROVE  ~over[b]
    <3>1. CASE over[d] /\ To(d, q, "done")
      BY <2>1, <3>1 DEF Stages, Ended
    <3>2. CASE ~over[d] /\ To(d, q, "running")
      BY <2>1, <3>2 DEF Stages, Holding
    <3> QED BY <2>4, <3>1, <3>2 DEF Admit
  <2>5. ASSUME NEW d \in Requests, NEW q \in Probes,
               \/ Run(d, q) \/ QueueTimeout(d, q) \/ OriginTimeout(d, q)
               \/ Stop(d, q) \/ Finish(d, q)
        PROVE  FALSE
    <3>1. PICK s \in Stages \ {"running"} : To(d, q, s)
      BY <2>5 DEF Run, QueueTimeout, OriginTimeout, Stop, Finish, Stages,
         Holding, Ended
    <3> QED BY <2>1, <3>1
  <2>6. stage' # stage
    BY <1>1
  <2> QED BY <1>1, <2>2, <2>3, <2>4, <2>5, <2>6
          DEF BudgetNext, Bounded, budgetVars
<1>2. IInv /\ [Next]_vars =>
         [\A b \in Requests, p \in Probes :
            stage[b][p] # "running" /\ stage'[b][p] = "running"
               => ~over[b]]_budgetVars
  BY <1>1, StepIsBudgetStep DEF IInv
<1> QED BY <1>2, Invariance, PTL DEF Spec, NoLateStart

\* A request is served what was built for its hostname, and nothing that a
\* purge has dropped.
THEOREM ServesCurrent == Spec => []ServedIsCurrent
<1>1. Init => ServedIsCurrent
  BY DEF Init, ServedIsCurrent
<1>2. IInv /\ ServedIsCurrent /\ [Next]_vars => ServedIsCurrent'
  <2> SUFFICES ASSUME IInv, ServedIsCurrent, [Next]_vars PROVE ServedIsCurrent'
    OBVIOUS
  <2>1. ASSUME NEW c \in Requests, Serve(c) PROVE ServedIsCurrent'
    BY <2>1 DEF Serve, Hit, IInv, NothingOutdated, ServedIsCurrent
  <2>2. CASE Nothing \/ served' = served
    BY <2>2 DEF Nothing, ServedIsCurrent
  <2> QED BY <2>1, <2>2 DEF Next, vars, Call, Enter, Build, Progress,
          CatalogueLoaded, Gathered, GatherRaised, Store, Unwound, Cancel,
          Supervise, OriginAnswers, AskPurge, Purge, Expire
<1> QED BY <1>1, <1>2, Invariance, PTL DEF Spec

-----------------------------------------------------------------------------
\* The state of SingleFlight the cache maps to.
Phase == [c \in Requests |->
            IF pc[c] = "idle" THEN "idle"
            ELSE IF pc[c] = "waiting" THEN "asking" ELSE "leading"]
OneGroup == [c \in Requests |-> NoRequest]

\* A request that leaves is a caller that leaves.
LEMMA LeaveMaps ==
    ASSUME IInv, NEW c \in Requests, Leave(c)
    PROVE  [Flight!Next]_<<Phase, OneGroup>>
<1>1. \A d \in Requests : pc'[d] = IF d = c THEN "idle" ELSE pc[d]
  BY DEF Leave, IInv, TypeOK
<1>2. Phase' = [d \in Requests |-> IF d \in {c} THEN "idle" ELSE Phase[d]]
  BY <1>1 DEF Phase
<1>3. Flight!Leave({c})
  BY <1>2 DEF Flight!Leave, Phase, OneGroup
<1> QED BY <1>3 DEF Flight!Next

\* A request that goes on in its build still leads.
LEMMA GotoMaps ==
    ASSUME IInv, NEW c \in Requests, NEW to \in Building, Goto(c, to),
           pc[c] \in Building
    PROVE  Phase' = Phase
<1>1. \A d \in Requests : pc'[d] = IF d = c THEN to ELSE pc[d]
  BY DEF Goto, IInv, TypeOK
<1> QED BY <1>1 DEF Phase, Building

LEMMA StepMaps == IInv /\ [Next]_vars => [Flight!Next]_<<Phase, OneGroup>>
<1> SUFFICES ASSUME IInv, [Next]_vars
             PROVE  [Flight!Next]_<<Phase, OneGroup>>
  OBVIOUS
<1>0. TypeOK /\ OneGroup' = OneGroup
  BY DEF IInv, OneGroup
<1>1. CASE pc' = pc
  BY <1>1 DEF Phase, OneGroup
<1>2. ASSUME NEW c \in Requests, Call(c)
      PROVE  [Flight!Next]_<<Phase, OneGroup>>
  <2>1. \A d \in Requests : pc'[d] = IF d = c THEN "waiting" ELSE pc[d]
    BY <1>0, <1>2 DEF Call, TypeOK
  <2>2. Phase[c] = "idle" /\ Phase' = [Phase EXCEPT ![c] = "asking"]
    <3>1. pc[c] = "idle"
      BY <1>2 DEF Call
    <3> QED BY <2>1, <3>1 DEF Phase
  <2>3. OneGroup' = [OneGroup EXCEPT ![c] = NoRequest]
    BY DEF OneGroup
  <2>4. Flight!Ask(c)
    BY <2>2, <2>3 DEF Flight!Ask, Phase, OneGroup
  <2> QED BY <2>4 DEF Flight!Next
<1>3. ASSUME NEW c \in Requests, Build(c)
      PROVE  [Flight!Next]_<<Phase, OneGroup>>
  <2>1. \A d \in Requests : pc'[d] = IF d = c THEN "catalogue" ELSE pc[d]
    BY <1>0, <1>3 DEF Build, TypeOK
  <2>2. Phase[c] = "asking" /\ Phase' = [Phase EXCEPT ![c] = "leading"]
    <3>1. pc[c] = "waiting"
      BY <1>3 DEF Build
    <3> QED BY <2>1, <3>1 DEF Phase
  <2>3. \A d \in Requests : pc[d] \notin Building
    BY <1>3, SickzAssumption DEF Build, LockFree, IInv, LockHeld
  <2>4. \A d \in Requests : Phase[d] # "leading"
    BY <1>0, <2>3 DEF Phase, TypeOK
  <2>5. Flight!Lead(c)
    BY <1>0, <2>2, <2>4 DEF Flight!Lead, Phase, OneGroup
  <2> QED BY <2>5 DEF Flight!Next
<1>4. ASSUME NEW c \in Requests,
             Serve(c) \/ GatherRaised(c) \/ Unwound(c) \/ Store(c)
      PROVE  [Flight!Next]_<<Phase, OneGroup>>
  BY <1>4, LeaveMaps DEF Serve, GatherRaised, Unwound, Store
<1>5. ASSUME NEW c \in Requests, CatalogueLoaded(c) \/ Gathered(c)
      PROVE  [Flight!Next]_<<Phase, OneGroup>>
  <2>1. pc[c] \in Building /\ \E to \in Building : Goto(c, to)
    BY <1>5 DEF CatalogueLoaded, Gathered, Building
  <2> QED BY <1>0, <2>1, GotoMaps
<1>6. ASSUME NEW c \in Requests, Cancel(c)
      PROVE  [Flight!Next]_<<Phase, OneGroup>>
  <2>1. CASE CancelAlone(c)
    BY <2>1, LeaveMaps DEF CancelAlone
  <2>2. CASE CancelProbes(c)
    <3>1. pc[c] \in Building /\ Goto(c, "unwinding") /\ "unwinding" \in Building
      BY <2>2 DEF CancelProbes, Building
    <3> QED BY <1>0, <3>1, GotoMaps
  <2> QED BY <1>6, <2>1, <2>2 DEF Cancel
<1> QED BY <1>1, <1>2, <1>3, <1>4, <1>5, <1>6 DEF Next, Enter, Progress,
        Supervise, OriginAnswers, AskPurge, Purge, Expire, vars

\* The lock makes the builds a single flight, for all hostnames together and
\* wherever builds fail or are cancelled.
THEOREM SingleFlightImplemented == Spec => ImplementsSingleFlight
<1>1. Init => Flight!Init
  BY DEF Init, Flight!Init
<1> QED BY <1>1, StepMaps, Invariance, PTL
        DEF Spec, ImplementsSingleFlight, Flight!Spec, Phase, OneGroup

=============================================================================
