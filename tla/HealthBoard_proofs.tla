------------------------- MODULE HealthBoard_proofs -------------------------
(***************************************************************************)
(* The health board for any number of refreshes and resets: one refresh at *)
(* a time may store its snapshot, and none that a reset has overtaken; and *)
(* the tasks of two refreshes do not overlap until one is disturbed.       *)
(***************************************************************************)
EXTENDS HealthBoard, TLAPS

\* A reset has cancelled whatever it overtook, and a cancelled refresh only
\* unwinds.
Overtaken == \A s \in outdated : stage[s] = "unwinding" /\ why[s] = "reset"

IInv == TypeOK /\ OneRefresh /\ Overtaken /\ ResetHolds

Stages == {"idle", "services", "joint", "homelab", "rest", "unwinding"}

-----------------------------------------------------------------------------
\* What a refresh takes with it when its task is done.
LEMMA EndKeeps ==
    ASSUME IInv, NEW s \in Refreshes, End(s), task' = task
    PROVE  /\ OneRefresh' /\ Overtaken'
           /\ stage' \in [Refreshes -> Stages]
           /\ why' \in [Refreshes -> {"none", "deadline", "reset"}]
           /\ part' \in [Refreshes -> [Parts -> Active \cup
                            {"none", "done", "raised", "cancelled"}]]
           /\ \A t \in Refreshes : why'[t] # "none" <=> stage'[t] = "unwinding"
           /\ late' \subseteq Refreshes /\ outdated' \subseteq Refreshes
<1>1. /\ \A t \in Refreshes : /\ stage'[t] = IF t = s THEN "idle" ELSE stage[t]
                              /\ why'[t] = IF t = s THEN "none" ELSE why[t]
      /\ stage' \in [Refreshes -> Stages]
      /\ why' \in [Refreshes -> {"none", "deadline", "reset"}]
  BY DEF IInv, TypeOK, End, Goto, Stages
<1>2. part' \in [Refreshes -> [Parts -> Active \cup
                    {"none", "done", "raised", "cancelled"}]]
  BY DEF IInv, TypeOK, End, Active
<1>3. OneRefresh' /\ Overtaken'
  BY <1>1 DEF IInv, TypeOK, End, OneRefresh, Overtaken
<1> QED BY <1>1, <1>2, <1>3 DEF IInv, TypeOK, End

\* What unwinding changes in the refresh that is interrupted.
LEMMA UnwindKeeps ==
    ASSUME TypeOK, NEW s \in Refreshes, NEW reason \in {"deadline", "reset"},
           Unwind(s, reason)
    PROVE  /\ stage' \in [Refreshes -> Stages]
           /\ why' \in [Refreshes -> {"none", "deadline", "reset"}]
           /\ part' \in [Refreshes -> [Parts -> Active \cup
                            {"none", "done", "raised", "cancelled"}]]
           /\ \A t \in Refreshes :
                 /\ stage'[t] = IF t = s THEN "unwinding" ELSE stage[t]
                 /\ why'[t] = IF t = s THEN reason ELSE why[t]
BY DEF TypeOK, Unwind, Goto, Stages, Active

\* A refresh that moves on between two awaits.
LEMMA MoveInv ==
    ASSUME IInv, NEW s \in Refreshes, NEW to \in Stages \ {"idle", "unwinding"},
           Goto(s, to), stage[s] \notin {"idle", "unwinding"},
           part' \in [Refreshes -> [Parts -> Active \cup
                         {"none", "done", "raised", "cancelled"}]],
           UNCHANGED <<late, why, task, snapshot, error, troubles, outdated>>
    PROVE  IInv'
<1>1. /\ \A t \in Refreshes : stage'[t] = IF t = s THEN to ELSE stage[t]
      /\ stage' \in [Refreshes -> Stages]
  BY DEF IInv, TypeOK, Goto, Stages
<1>2. TypeOK'
  BY <1>1 DEF IInv, TypeOK, Stages
<1>3. OneRefresh' /\ Overtaken' /\ ResetHolds'
  BY <1>1 DEF IInv, TypeOK, OneRefresh, Overtaken, ResetHolds
<1> QED BY <1>2, <1>3 DEF IInv

\* A step that changes tasks of refreshes only.
LEMMA PartInv ==
    ASSUME IInv,
           part' \in [Refreshes -> [Parts -> Active \cup
                         {"none", "done", "raised", "cancelled"}]],
           UNCHANGED <<late, stage, why, task, snapshot, error, troubles,
                       outdated>>
    PROVE  IInv'
BY DEF IInv, TypeOK, OneRefresh, Overtaken, ResetHolds

LEMMA InitInv == Init => IInv
<1> SUFFICES ASSUME Init PROVE IInv
  OBVIOUS
<1>1. TypeOK
  <2>1. /\ troubles \in 0 .. MaxTroubles
        /\ late \subseteq Refreshes /\ outdated \subseteq Refreshes
        /\ task \in Refreshes \cup {NoRefresh}
        /\ snapshot \in Snapshot \cup {NoSnapshot} /\ error \in BOOLEAN
    <3>1. troubles \in 0 .. MaxTroubles
      BY BoardAssumption DEF Init
    <3>2. /\ late \subseteq Refreshes /\ outdated \subseteq Refreshes
          /\ task \in Refreshes \cup {NoRefresh} /\ error \in BOOLEAN
      BY DEF Init
    <3>3. snapshot \in Snapshot \cup {NoSnapshot}
      BY DEF Init
    <3> QED BY <3>1, <3>2, <3>3
  <2>2. part \in [Refreshes -> [Parts -> Active \cup
                     {"none", "done", "raised", "cancelled"}]]
    <3>1. [p \in Parts |-> "none"] \in [Parts -> Active \cup
                     {"none", "done", "raised", "cancelled"}]
      OBVIOUS
    <3> QED BY <3>1 DEF Init
  <2>3. /\ stage \in [Refreshes -> Stages]
        /\ why \in [Refreshes -> {"none", "deadline", "reset"}]
        /\ \A s \in Refreshes : why[s] # "none" <=> stage[s] = "unwinding"
    BY DEF Init, Stages
  <2> QED BY <2>1, <2>2, <2>3 DEF TypeOK, Stages
<1>2. OneRefresh /\ Overtaken /\ ResetHolds
  BY DEF Init, OneRefresh, Overtaken, ResetHolds
<1> QED BY <1>1, <1>2 DEF IInv

LEMMA GetInv ==
    ASSUME IInv, NEW force \in BOOLEAN, Get(force)
    PROVE  IInv'
<1>1. PICK s \in Refreshes : /\ Quiet(s) /\ Goto(s, "services") /\ task' = s
                             /\ late' = late \/ late' = late \cup {s}
                             /\ \/ UNCHANGED troubles
                                \/ /\ troubles < MaxTroubles
                                   /\ troubles' = troubles + 1
  BY DEF Get, Trouble
<1>2. /\ \A t \in Refreshes : stage'[t] = IF t = s THEN "services" ELSE stage[t]
      /\ stage' \in [Refreshes -> Stages] /\ stage[s] = "idle"
  BY <1>1 DEF IInv, TypeOK, Goto, Quiet, Stages
<1>3. UNCHANGED <<why, part, snapshot, error, outdated>>
  BY DEF Get
<1>4. TypeOK'
  BY <1>1, <1>2, <1>3, BoardAssumption DEF IInv, TypeOK, Stages
<1>5. OneRefresh'
  <2> SUFFICES ASSUME NEW t \in Refreshes, stage'[t] # "idle", why'[t] # "reset",
                      t # s
               PROVE  FALSE
    BY <1>1 DEF OneRefresh
  <2>1. stage[t] # "idle" /\ task = t
    BY <1>2, <1>3 DEF IInv, OneRefresh
  <2>2. TaskRunning
    BY <2>1, BoardAssumption DEF TaskRunning
  <2> QED BY <2>2 DEF Get
<1>6. Overtaken' /\ ResetHolds'
  BY <1>2, <1>3 DEF IInv, TypeOK, Overtaken, ResetHolds
<1> QED BY <1>4, <1>5, <1>6 DEF IInv

LEMMA ProgressInv ==
    ASSUME IInv, NEW s \in Refreshes, Progress(s)
    PROVE  IInv'
<1>0. TypeOK
  BY DEF IInv
<1>1. CASE ServicesLoaded(s)
  <2>1. part' \in [Refreshes -> [Parts -> Active \cup
                      {"none", "done", "raised", "cancelled"}]]
    BY <1>0, <1>1 DEF ServicesLoaded, TypeOK, Active
  <2> QED BY <1>1, <2>1, MoveInv DEF ServicesLoaded, Stages
<1>2. CASE Joined(s)
  BY <1>0, <1>2, MoveInv DEF Joined, Stages, TypeOK
<1>3. CASE HomelabBuilt(s)
  BY <1>0, <1>3, MoveInv DEF HomelabBuilt, Stages, TypeOK
<1>4. CASE Store(s)
  <2>1. s \notin outdated
    BY <1>4 DEF Store, IInv, Overtaken
  <2>2. snapshot' = [fresh |-> TRUE, outdated |-> FALSE]
    <3>1. (s \in outdated) = FALSE
      BY <2>1
    <3>2. snapshot' = [fresh |-> TRUE, outdated |-> s \in outdated]
      BY <1>4 DEF Store
    <3> QED BY <3>1, <3>2, Zenon
  <2>3. ResetHolds' /\ snapshot' \in Snapshot
    BY <2>2 DEF ResetHolds, Snapshot
  <2> QED BY <1>0, <1>4, <2>3, EndKeeps
          DEF Store, ErrorGone, IInv, TypeOK, Stages
<1>5. CASE Fail(s)
  BY <1>0, <1>5, EndKeeps DEF Fail, IInv, TypeOK, Stages, ResetHolds
<1>6. CASE Unwound(s)
  <2>1. error' \in BOOLEAN
    BY <1>0, <1>6 DEF Unwound, TypeOK
  <2> QED BY <1>0, <1>6, <2>1, EndKeeps
          DEF Unwound, IInv, TypeOK, Stages, ResetHolds
<1> QED BY <1>1, <1>2, <1>3, <1>4, <1>5, <1>6 DEF Progress

LEMMA DeadlineInv ==
    ASSUME IInv, NEW s \in Refreshes, Deadline(s)
    PROVE  IInv'
<1>0. TypeOK
  BY DEF IInv
<1>1. /\ \A t \in Refreshes :
            /\ stage'[t] = IF t = s THEN "unwinding" ELSE stage[t]
            /\ why'[t] = IF t = s THEN "deadline" ELSE why[t]
      /\ stage[s] \notin {"idle", "unwinding"}
  BY <1>0, UnwindKeeps DEF Deadline
<1>2. TypeOK'
  BY <1>0, <1>1, UnwindKeeps DEF Deadline, TypeOK, Stages
<1>3. OneRefresh' /\ Overtaken' /\ ResetHolds'
  BY <1>0, <1>1 DEF Deadline, IInv, TypeOK, OneRefresh, Overtaken, ResetHolds
<1> QED BY <1>2, <1>3 DEF IInv

LEMMA ResetInv == ASSUME IInv, Reset PROVE IInv'
<1>0. TypeOK
  BY DEF IInv
<1>1. /\ stage' \in [Refreshes -> Stages]
      /\ why' \in [Refreshes -> {"none", "deadline", "reset"}]
      /\ part' \in [Refreshes -> [Parts -> Active \cup
                       {"none", "done", "raised", "cancelled"}]]
      /\ \A t \in Refreshes :
            IF TaskRunning /\ t = task
            THEN stage'[t] = "unwinding" /\ why'[t] = "reset"
            ELSE stage'[t] = stage[t] /\ why'[t] = why[t]
  <2>1. CASE TaskRunning
    <3>1. task \in Refreshes /\ Unwind(task, "reset")
      BY <1>0, <2>1 DEF Reset, Cancelled, TaskRunning, TypeOK
    <3> QED BY <1>0, <2>1, <3>1, UnwindKeeps
  <2>2. CASE ~TaskRunning
    BY <1>0, <2>2 DEF Reset, Cancelled, TypeOK, Stages
  <2> QED BY <2>1, <2>2
<1>2. \A t \in Refreshes :
         stage[t] # "idle" => stage'[t] = "unwinding" /\ why'[t] = "reset"
  <2> SUFFICES ASSUME NEW t \in Refreshes, stage[t] # "idle"
               PROVE  stage'[t] = "unwinding" /\ why'[t] = "reset"
    OBVIOUS
  <2>1. CASE why[t] = "reset"
    BY <1>0, <1>1, <2>1 DEF TypeOK
  <2>2. CASE why[t] # "reset"
    <3>1. task = t
      BY <2>2 DEF IInv, OneRefresh
    <3> QED BY <1>1, <3>1, BoardAssumption DEF TaskRunning
  <2> QED BY <2>1, <2>2
<1>3. TypeOK'
  <2>1. \A t \in Refreshes : why'[t] # "none" <=> stage'[t] = "unwinding"
    BY <1>0, <1>1 DEF TypeOK
  <2>2. troubles' \in 0 .. MaxTroubles
    BY <1>0, BoardAssumption DEF Reset, Trouble, TypeOK
  <2> QED BY <1>0, <1>1, <2>1, <2>2 DEF Reset, TypeOK, Stages
<1>4. OneRefresh' /\ Overtaken'
  <2>1. \A t \in Refreshes : stage[t] = "idle" => stage'[t] = "idle"
    BY <1>1 DEF TaskRunning
  <2> QED BY <1>2, <2>1 DEF Reset, OneRefresh, Overtaken
<1>5. ResetHolds'
  BY DEF Reset, ResetHolds
<1> QED BY <1>3, <1>4, <1>5 DEF IInv

LEMMA NextInv == IInv /\ [Next]_vars => IInv'
<1> SUFFICES ASSUME IInv, [Next]_vars PROVE IInv'
  OBVIOUS
<1>0. TypeOK
  BY DEF IInv
<1>1. ASSUME NEW s \in Refreshes, HomelabLate(s) PROVE IInv'
  <2>1. part' \in [Refreshes -> [Parts -> Active \cup
                      {"none", "done", "raised", "cancelled"}]]
    BY <1>0, <1>1 DEF HomelabLate, Awaited, TypeOK, Active, Parts
  <2> QED BY <1>1, <2>1, PartInv DEF HomelabLate
<1>2. ASSUME NEW s \in Refreshes, NEW p \in Parts, PartEnds(s, p) PROVE IInv'
  <2>1. part' \in [Refreshes -> [Parts -> Active \cup
                      {"none", "done", "raised", "cancelled"}]]
    BY <1>0, <1>2 DEF PartEnds, TypeOK
  <2> QED BY <1>2, <2>1, PartInv DEF PartEnds
<1>3. CASE Expire
  <2>1. /\ snapshot' \in Snapshot
        /\ snapshot'.outdated = snapshot.outdated /\ snapshot # NoSnapshot
    BY <1>0, <1>3 DEF Expire, Fresh, TypeOK, Snapshot
  <2> QED BY <1>0, <1>3, <2>1
          DEF Expire, IInv, TypeOK, OneRefresh, Overtaken, ResetHolds
<1>4. CASE UNCHANGED vars
  BY <1>4, PartInv DEF vars, IInv, TypeOK
<1> QED BY <1>1, <1>2, <1>3, <1>4, GetInv, ProgressInv, DeadlineInv, ResetInv
        DEF Next

\* The invariant holds always.
LEMMA Invariance == Spec => []IInv
BY InitInv, NextInv, PTL DEF Spec

\* Every variable keeps its type, and a refresh unwinds only for a reason.
THEOREM TypeCorrect == Spec => []TypeOK
BY Invariance, PTL DEF IInv

\* One refresh at most may store its snapshot, however many are cancelled
\* beside it.
THEOREM OneRefreshAtATime == Spec => []OneRefresh
BY Invariance, PTL DEF IInv

\* No snapshot whose refresh a reset has overtaken is stored.
THEOREM ResetsHold == Spec => []ResetHolds
BY Invariance, PTL DEF IInv

-----------------------------------------------------------------------------
(***************************************************************************)
(* The tasks of a board that nothing has disturbed yet.                    *)
(***************************************************************************)

\* Before the first reset and the first late refresh: nothing is cancelled or
\* raises, and a refresh that has not created its tasks, or has stored, has none.
\* At "rest" it has awaited all four, the two of the gather before the others.
Calm ==
    troubles = 0 =>
        /\ late = {}
        /\ \A s \in Refreshes :
            /\ why[s] = "none"
            /\ \A p \in Parts :
                /\ part[s][p] \in {"none", "running", "done"}
                /\ stage[s] \in {"idle", "services"} => part[s][p] = "none"
                /\ stage[s] = "rest" => part[s][p] = "done"
                /\ stage[s] = "homelab" /\ p \in Joint => part[s][p] = "done"

\* What one refresh does leaves the others alone.
LEMMA CalmMoves ==
    ASSUME TypeOK, Calm, troubles = 0, NEW s \in Refreshes,
           \A t \in Refreshes \ {s} :
              stage'[t] = stage[t] /\ why'[t] = why[t] /\ part'[t] = part[t],
           late' = {}, why'[s] = "none",
           \A p \in Parts :
              /\ part'[s][p] \in {"none", "running", "done"}
              /\ stage'[s] \in {"idle", "services"} => part'[s][p] = "none"
              /\ stage'[s] = "rest" => part'[s][p] = "done"
              /\ stage'[s] = "homelab" /\ p \in Joint => part'[s][p] = "done"
    PROVE  Calm'
BY DEF Calm

\* The steps of a refresh.
LEMMA CalmProgress ==
    ASSUME IInv, Calm, troubles = 0, troubles' = 0, NEW s \in Refreshes, Progress(s)
    PROVE  Calm'
<1> TypeOK
  BY DEF IInv
<1>0. /\ late = {} /\ why[s] = "none" /\ stage[s] # "unwinding"
      /\ \A p \in Parts : part[s][p] \in {"none", "running", "done"}
  BY DEF Calm, TypeOK
<1>1. CASE ServicesLoaded(s)
  <2>1. /\ part'[s] = [p \in Parts |-> "running"] /\ stage'[s] = "joint"
        /\ \A t \in Refreshes \ {s} : part'[t] = part[t] /\ stage'[t] = stage[t]
    BY <1>1 DEF ServicesLoaded, Goto, TypeOK
  <2> QED BY <1>0, <1>1, <2>1, CalmMoves DEF ServicesLoaded
<1>2. CASE Joined(s)
  <2>1. /\ stage'[s] = "homelab"
        /\ \A t \in Refreshes \ {s} : stage'[t] = stage[t]
    BY <1>2 DEF Joined, Goto, TypeOK
  <2> QED BY <1>0, <1>2, <2>1, CalmMoves DEF Joined
<1>3. CASE HomelabBuilt(s)
  <2>1. /\ stage'[s] = "rest"
        /\ \A t \in Refreshes \ {s} : stage'[t] = stage[t]
    BY <1>3 DEF HomelabBuilt, Goto, TypeOK
  <2>2. part[s]["payload"] = "done" /\ part[s]["recon"] = "done"
    BY <1>0, <1>3 DEF HomelabBuilt, Awaited, Parts
  <2>3. part[s]["healthz"] = "done" /\ part[s]["runtime"] = "done"
    BY <1>3 DEF HomelabBuilt, Calm, Joint, Parts
  <2>4. \A p \in Parts : part[s][p] = "done"
    BY <2>2, <2>3 DEF Parts
  <2> QED BY <1>0, <1>3, <2>1, <2>4, CalmMoves DEF HomelabBuilt
<1>4. CASE Store(s)
  <2>1. \A p \in Parts : part[s][p] = "done"
    BY <1>4 DEF Store, Calm
  <2>2. \A p \in Parts : part'[s][p] = "none"
    BY <1>4, <2>1 DEF Store, End, TypeOK, Active
  <2>3. /\ stage'[s] = "idle" /\ why'[s] = "none"
        /\ \A t \in Refreshes \ {s} :
              part'[t] = part[t] /\ stage'[t] = stage[t] /\ why'[t] = why[t]
    BY <1>4 DEF Store, End, Goto, TypeOK
  <2> QED BY <1>0, <1>4, <2>2, <2>3, CalmMoves DEF Store, End
<1>5. ~Fail(s)
  <2>1. Awaited(s) \in Parts /\ Joint \subseteq Parts
    BY DEF Awaited, Parts, Joint
  <2> QED BY <1>0, <2>1 DEF Fail, Raised
<1>6. ~Unwound(s)
  BY <1>0 DEF Unwound
<1> QED BY <1>1, <1>2, <1>3, <1>4, <1>5, <1>6 DEF Progress

\* Every step that leaves the board undisturbed.
LEMMA CalmStep ==
    ASSUME IInv, Calm, [Next]_vars
    PROVE  Calm'
<1> SUFFICES ASSUME troubles' = 0 PROVE Calm'
  BY DEF Calm
<1> TypeOK
  BY DEF IInv
<1>0. troubles = 0
  <2>1. CASE Reset \/ \E force \in BOOLEAN : Get(force)
    BY <2>1, BoardAssumption DEF Reset, Get, Trouble, TypeOK
  <2>2. CASE \E s \in Refreshes : \/ Progress(s) \/ HomelabLate(s) \/ Deadline(s)
                                  \/ \E p \in Parts : PartEnds(s, p)
    BY <2>2 DEF Progress, ServicesLoaded, Joined, HomelabBuilt, Store, Fail,
                Unwound, HomelabLate, Deadline, PartEnds
  <2>3. CASE Expire \/ UNCHANGED vars
    BY <2>3 DEF Expire, vars
  <2> QED BY <2>1, <2>2, <2>3 DEF Next
<1>1. ASSUME NEW force \in BOOLEAN, Get(force) PROVE Calm'
  <2>1. PICK s \in Refreshes :
          /\ Quiet(s) /\ Goto(s, "services")
          /\ UNCHANGED <<late, troubles>> \/ (Trouble /\ late' = late \cup {s})
    BY <1>1 DEF Get
  <2>2. late' = late
    BY <1>0, <2>1 DEF Trouble
  <2>3. /\ stage[s] = "idle" /\ stage'[s] = "services"
        /\ \A t \in Refreshes \ {s} : stage'[t] = stage[t]
    BY <2>1 DEF Quiet, Goto, TypeOK
  <2>4. /\ late' = {} /\ why'[s] = "none"
        /\ \A p \in Parts : part'[s][p] = "none"
        /\ UNCHANGED <<why, part>>
    BY <1>0, <1>1, <2>2, <2>3 DEF Get, Calm
  <2> QED BY <1>0, <2>3, <2>4, CalmMoves
<1>2. ASSUME NEW s \in Refreshes, HomelabLate(s) \/ Deadline(s) PROVE FALSE
  BY <1>0, <1>2 DEF HomelabLate, Deadline, Calm
<1>3. ASSUME NEW s \in Refreshes, NEW p \in Parts, PartEnds(s, p) PROVE Calm'
  <2>1. part[s][p] = "running" /\ stage[s] # "idle"
    BY <1>0, <1>3 DEF PartEnds, Calm
  <2>2. part' = [part EXCEPT ![s][p] = "done"]
    BY <1>0, <1>3, <2>1 DEF PartEnds, Calm
  <2>3. /\ part'[s][p] = "done"
        /\ \A q \in Parts \ {p} : part'[s][q] = part[s][q]
        /\ \A t \in Refreshes \ {s} : part'[t] = part[t]
    BY <2>2 DEF TypeOK
  <2>4. stage[s] \notin {"idle", "services"}
    BY <1>0, <2>1 DEF Calm
  <2>5. \A q \in Parts :
          /\ part'[s][q] \in {"none", "running", "done"}
          /\ stage[s] = "rest" => part'[s][q] = "done"
          /\ stage[s] = "homelab" /\ q \in Joint => part'[s][q] = "done"
    BY <1>0, <2>3 DEF Calm
  <2>6. /\ late' = {} /\ why'[s] = "none"
        /\ UNCHANGED <<stage, why>>
    BY <1>0, <1>3 DEF PartEnds, Calm
  <2> QED BY <1>0, <2>3, <2>4, <2>5, <2>6, CalmMoves
<1>4. ~Reset
  BY <1>0 DEF Reset, Trouble
<1>5. CASE Expire \/ UNCHANGED vars
  BY <1>5 DEF Expire, vars, Calm
<1> QED BY <1>0, <1>1, <1>2, <1>3, <1>4, <1>5, CalmProgress DEF Next

\* Until something disturbs the board, the tasks of two refreshes never run at
\* the same time: a refresh has awaited all that it started when it stores.
THEOREM WorkIsOneRefresh == Spec => []WorkIsSingleFlight
<1>1. Init => Calm
  <2> SUFFICES ASSUME Init PROVE Calm
    OBVIOUS
  <2>1. \A s \in Refreshes : part[s] = [p \in Parts |-> "none"]
    BY DEF Init
  <2> QED BY <2>1 DEF Init, Calm
<1>2. IInv /\ Calm /\ [Next]_vars => Calm'
  BY CalmStep
<1>3. IInv /\ Calm => WorkIsSingleFlight
  BY DEF IInv, OneRefresh, Calm, WorkIsSingleFlight
<1> QED BY <1>1, <1>2, <1>3, Invariance, PTL DEF Spec

=============================================================================
