----------------------- MODULE ProviderCircuit_proofs -----------------------
(***************************************************************************)
(* Type correctness of the provider circuit, its two mutual exclusions and *)
(* the windows that failures leave, for any number of replicas, probes,    *)
(* policies and Redis failures, with calls cancelled at any await; and the *)
(* owner of every mark, where the SET of the half-open lock is not         *)
(* cancelled.                                                              *)
(***************************************************************************)
EXTENDS ProviderCircuit, FiniteSetTheorems, TLAPS

\* Suspension points at which a probe may own the half-open attempt.
\* An acquiring probe always does: it marked its replica before the SET.
AcquiringOwns == \A p \in Probes : pc[p] = "acquiring" => owns[p]

\* An owner's replica is marked, so nobody else of it can become owner, until
\* a purge forgets the mark.
OwnerMarked ==
    \A p \in Probes : owns[p] /\ ~purged[Home[p]] => inProgress[Home[p]]

\* While its granted window runs, a probe still is the lock's owner in Redis.
WindowWithinLease ==
    \A p \in Probes : window[p] > 0 => lease.owner = p /\ window[p] <= lease.ttl

IInv == /\ TypeOK
        /\ AcquiringOwns
        /\ OwnerMarked
        /\ OneLocalHalfOpenOwner
        /\ WindowWithinLease

-----------------------------------------------------------------------------
\* ProviderCircuitState() is a state.
LEMMA ClosedType == Closed \in CircuitState
BY ConstantsAssumption DEF Closed, CircuitState

\* Merging two states gives a state.
LEMMA MergeType ==
    ASSUME NEW a \in CircuitState, NEW b \in CircuitState
    PROVE  MergeStates(a, b) \in CircuitState
BY ConstantsAssumption DEF CircuitState, MergeStates, Larger

\* Time passing keeps a state a state.
LEMMA ElapseType ==
    ASSUME NEW a \in CircuitState
    PROVE  Elapse(a) \in CircuitState
BY ConstantsAssumption DEF CircuitState, Elapse

\* A failure leaves a state: the backoff never exceeds max_backoff.
LEMMA FailureType ==
    ASSUME NEW a \in CircuitState, NEW b \in CircuitState,
           NEW s \in FailureStates(a, b)
    PROVE  s \in CircuitState
<1> DEFINE n == FailureCount(a, b)
<1>1. n \in 0 .. FailureCap
  BY ConstantsAssumption DEF CircuitState, FailureCount, Smaller, Larger
<1>2. PICK d \in (IF Overflows(n) THEN {}
                  ELSE IF n >= FailureThreshold
                       THEN BackoffSeconds(n) ELSE {0}) :
        s = [failures |-> n, openFor |-> d]
  BY DEF FailureStates
<1>3. BackoffSeconds(n) \subseteq 0 .. MaxBackoff
  BY ConstantsAssumption DEF BackoffSeconds
<1>4. d \in 0 .. MaxBackoff
  BY <1>2, <1>3, ConstantsAssumption
<1> QED BY <1>1, <1>2, <1>4 DEF CircuitState

-----------------------------------------------------------------------------
\* The initial state satisfies the inductive invariant.
LEMMA InitInv == Init => IInv
BY ClosedType, ConstantsAssumption
   DEF Init, IInv, TypeOK, AcquiringOwns, OwnerMarked, OneLocalHalfOpenOwner,
       WindowWithinLease, Awaits, Absent

-----------------------------------------------------------------------------
\* Leaving the call keeps the call variables typed.
LEMMA SuppressType ==
    ASSUME TypeOK, NEW p \in Probes, NEW s \in CircuitState, Suppress(p, s)
    PROVE  /\ pc' \in [Probes -> Awaits \cup {"idle"}]
           /\ snap' \in [Probes -> CircuitState]
           /\ seen' \in [Probes -> CircuitState]
           /\ \A q \in Probes \ {p} : pc'[q] = pc[q]
           /\ pc'[p] # "acquiring"
BY ClosedType DEF TypeOK, Suppress, Return, GoToOrigin, Awaits

\* A decision keeps every part of the invariant it can disturb.
LEMMA DecideInv ==
    ASSUME IInv, NEW p \in Probes, NEW s \in CircuitState,
           NEW shared \in BOOLEAN,
           pc[p] = "reading", Decide(p, s, shared), purged' = purged
    PROVE  /\ inProgress' \in [Replicas -> BOOLEAN]
           /\ pc' \in [Probes -> Awaits \cup {"idle"}]
           /\ snap' \in [Probes -> CircuitState]
           /\ seen' \in [Probes -> CircuitState]
           /\ owns' \in [Probes -> BOOLEAN]
           /\ AcquiringOwns' /\ OwnerMarked' /\ OneLocalHalfOpenOwner'
<1> USE ClosedType, ConstantsAssumption
    DEF IInv, TypeOK, AcquiringOwns, OwnerMarked, OneLocalHalfOpenOwner
<1> Home[p] \in Replicas
  OBVIOUS
<1>1. CASE Suppress(p, s) /\ UNCHANGED <<inProgress, owns>>
  BY <1>1, SuppressType
<1>2. CASE GoToOrigin(p, s) /\ UNCHANGED <<inProgress, owns>>
  BY <1>2 DEF GoToOrigin, Awaits
<1>3. CASE /\ ~HalfOpenBusy(Home[p])
           /\ inProgress' = [inProgress EXCEPT ![Home[p]] = TRUE]
           /\ owns' = [owns EXCEPT ![p] = TRUE]
           /\ seen' = [seen EXCEPT ![p] = s]
           /\ snap' = [snap EXCEPT ![p] = Closed]
           /\ pc'   = [pc EXCEPT ![p] = IF shared THEN "acquiring"
                                                  ELSE "origin"]
  <2>1. \A q \in Probes : Home[q] = Home[p] /\ ~purged[Home[p]] => ~owns[q]
    BY <1>3 DEF HalfOpenBusy
  <2>2. \A q \in Probes : owns'[q] <=> (q = p \/ owns[q])
    BY <1>3
  <2>3. OneLocalHalfOpenOwner'
    BY <2>1, <2>2
  <2>4. OwnerMarked'
    BY <1>3, <2>2
  <2>5. AcquiringOwns'
    BY <1>3, <2>2
  <2> QED BY <1>3, <2>3, <2>4, <2>5 DEF Awaits
<1> QED BY <1>1, <1>2, <1>3 DEF Decide

\* Releasing an attempt keeps every part of the invariant it can disturb.
LEMMA ReleaseInv ==
    ASSUME IInv, NEW p \in Probes, Release(p), remote' \in CircuitState,
           local' \in [Replicas -> CircuitState]
    PROVE  IInv'
<1> USE ClosedType, ConstantsAssumption
    DEF IInv, TypeOK, AcquiringOwns, OwnerMarked, OneLocalHalfOpenOwner,
        WindowWithinLease, Release, ClearMark
<1>1. \A q \in Probes : owns'[q] <=> (q # p /\ owns[q])
  OBVIOUS
<1>2. OneLocalHalfOpenOwner'
  BY <1>1
<1>3. OwnerMarked'
  <2>1. CASE owns[p]
    BY <1>1, <2>1
  <2>2. CASE ~owns[p]
    BY <1>1, <2>2
  <2> QED BY <2>1, <2>2
<1>4. AcquiringOwns'
  BY <1>1
<1>5. TypeOK'
  BY DEF Awaits
<1>6. WindowWithinLease'
  OBVIOUS
<1> QED BY <1>2, <1>3, <1>4, <1>5, <1>6

-----------------------------------------------------------------------------
\* Every step of a probe keeps the invariant.
LEMMA StepInv ==
    ASSUME IInv, NEW p \in Probes, Step(p)
    PROVE  IInv'
<1> USE ClosedType, ConstantsAssumption
<1> USE DEF IInv, TypeOK, Awaits
<1> Home[p] \in Replicas
  OBVIOUS
<1>1. CASE Start(p)
  BY <1>1 DEF Start, AcquiringOwns, OwnerMarked, OneLocalHalfOpenOwner,
              WindowWithinLease
<1>2. CASE ReadShared(p)
  <2>1. Merged(p) \in CircuitState
    BY MergeType DEF Merged
  <2>2. WindowWithinLease'
    BY <1>2 DEF ReadShared, WindowWithinLease
  <2> QED BY <1>2, <2>1, <2>2, DecideInv DEF ReadShared
<1>3. CASE ReadLocal(p)
  <2>1. WindowWithinLease'
    BY <1>3 DEF ReadLocal, WindowWithinLease
  <2> QED BY <1>3, <2>1, DecideInv DEF ReadLocal
<1>4. CASE AcquireGranted(p)
  <2>1. lease' = [owner |-> p, ttl |-> LockTTL]
    BY <1>4 DEF AcquireGranted, TakeLease
  <2>2. \A q \in Probes : window[q] = 0
    BY <1>4 DEF AcquireGranted, WindowWithinLease
  <2>3. WindowWithinLease'
    BY <1>4, <2>1, <2>2 DEF AcquireGranted, WindowWithinLease
  <2>4. TypeOK'
    BY <1>4, <2>1 DEF AcquireGranted
  <2> QED BY <1>4, <2>3, <2>4 DEF AcquireGranted, AcquiringOwns,
             OwnerMarked, OneLocalHalfOpenOwner
<1>5. CASE AcquireRefused(p)
  <2>1. \A q \in Probes : owns'[q] <=> (q # p /\ owns[q])
    BY <1>5 DEF AcquireRefused
  <2>2. owns[p]
    BY <1>5 DEF AcquireRefused, AcquiringOwns
  <2>3. OneLocalHalfOpenOwner'
    BY <1>5, <2>1 DEF AcquireRefused, OneLocalHalfOpenOwner
  <2>4. OwnerMarked'
    BY <1>5, <2>1, <2>2 DEF AcquireRefused, OwnerMarked, OneLocalHalfOpenOwner
  <2>5. AcquiringOwns'
    BY <1>5, <2>1, SuppressType DEF AcquireRefused, AcquiringOwns
  <2>6. WindowWithinLease'
    BY <1>5 DEF AcquireRefused, WindowWithinLease
  <2>7. TypeOK'
    BY <1>5, SuppressType DEF AcquireRefused
  <2> QED BY <2>3, <2>4, <2>5, <2>6, <2>7
<1>6. CASE AcquireRaised(p)
  <2>1. lease' \in [owner : Probes \cup {NoProbe}, ttl : 0 .. LockTTL]
    BY <1>6 DEF AcquireRaised, TakeLease
  <2>2. \A q \in Probes : window[q] > 0 => lease' = lease
    BY <1>6 DEF AcquireRaised, TakeLease, WindowWithinLease
  <2>3. WindowWithinLease'
    BY <1>6, <2>2 DEF AcquireRaised, WindowWithinLease
  <2> QED BY <1>6, <2>1, <2>3 DEF AcquireRaised, AcquiringOwns,
             OwnerMarked, OneLocalHalfOpenOwner
<1>7. CASE OriginEnds(p)
  BY <1>7 DEF OriginEnds, AcquiringOwns, OwnerMarked, OneLocalHalfOpenOwner,
              WindowWithinLease
<1>8. ASSUME NEW S \in SUBSET CircuitState, NEW shared \in BOOLEAN,
             Record(p, S, shared)
      PROVE  IInv'
  BY <1>8 DEF Record, AcquiringOwns, OwnerMarked, OneLocalHalfOpenOwner,
              WindowWithinLease
<1>9. CASE RecordSuccess(p)
  BY <1>9, <1>8 DEF RecordSuccess
<1>10. CASE RecordFailure(p)
  <2>1. Merged(p) \in CircuitState
    BY MergeType DEF Merged
  <2>2. /\ FailureStates(Merged(p), seen[p]) \in SUBSET CircuitState
        /\ FailureStates(snap[p], seen[p]) \in SUBSET CircuitState
    BY <2>1, FailureType
  <2> QED BY <1>10, <2>2, <1>8 DEF RecordFailure
<1>11. CASE Mirror(p)
  BY <1>11 DEF Mirror, AcquiringOwns, OwnerMarked, OneLocalHalfOpenOwner,
               WindowWithinLease
<1>12. CASE Finish(p)
  BY <1>12, ReleaseInv DEF Finish
<1>13. CASE BudgetRejects(p)
  BY <1>13, ReleaseInv DEF BudgetRejects
<1>14. CASE Unlock(p)
  <2>1. \A q \in Probes \ {p} : window[q] > 0 => lease' = lease
    BY <1>14 DEF Unlock, TokenMatches, WindowWithinLease
  <2>2. WindowWithinLease'
    BY <1>14, <2>1 DEF Unlock, DropToken, WindowWithinLease
  <2>3. TypeOK'
    BY <1>14 DEF Unlock, DropToken
  <2> QED BY <1>14, <2>2, <2>3 DEF Unlock, DropToken, AcquiringOwns,
             OwnerMarked, OneLocalHalfOpenOwner
<1>15. CASE RecordOverflows(p)
  <2>1. Merged(p) \in CircuitState
    BY MergeType DEF Merged
  <2>2. local' \in [Replicas -> CircuitState]
    BY <1>15, <2>1 DEF RecordOverflows
  <2> QED BY <1>15, <2>2, ReleaseInv DEF RecordOverflows
<1> QED BY <1>1, <1>2, <1>3, <1>4, <1>5, <1>6, <1>7, <1>9, <1>10, <1>11,
           <1>12, <1>13, <1>14, <1>15 DEF Step, Acquire

\* A cancellation keeps the invariant, at whatever await it strikes.
LEMMA CancelInv ==
    ASSUME IInv, NEW p \in Probes, Cancel(p)
    PROVE  IInv'
<1> USE ClosedType, ConstantsAssumption
<1> USE DEF IInv, TypeOK, Awaits
<1>1. CASE CancelReading(p)
  BY <1>1 DEF CancelReading, Return, AcquiringOwns, OwnerMarked,
              OneLocalHalfOpenOwner, WindowWithinLease
<1>2. CASE CancelAcquiring(p)
  <2>1. lease' \in [owner : Probes \cup {NoProbe}, ttl : 0 .. LockTTL]
    BY <1>2 DEF CancelAcquiring, TakeLease
  <2>2. \A q \in Probes : window[q] > 0 => lease' = lease
    BY <1>2 DEF CancelAcquiring, TakeLease, WindowWithinLease
  <2>3. WindowWithinLease'
    BY <1>2, <2>2 DEF CancelAcquiring, WindowWithinLease
  <2>4. \A q \in Probes : owns'[q] <=> (q # p /\ owns[q])
    BY <1>2 DEF CancelAcquiring
  <2> QED BY <1>2, <2>1, <2>3, <2>4 DEF CancelAcquiring, Return,
             AcquiringOwns, OwnerMarked, OneLocalHalfOpenOwner
<1>3. CASE CancelRefresh(p)
  BY <1>3, ReleaseInv DEF CancelRefresh
<1>4. CASE CancelUnlocking(p)
  BY <1>4 DEF CancelUnlocking, DropToken, AcquiringOwns, OwnerMarked,
              OneLocalHalfOpenOwner, WindowWithinLease
<1> QED BY <1>1, <1>2, <1>3, <1>4 DEF Cancel

\* A restart drops owners and mark of its replica together.
LEMMA RestartInv ==
    ASSUME IInv, NEW r \in Replicas, Restart(r)
    PROVE  IInv'
<1> USE ClosedType, ConstantsAssumption
<1> USE DEF Restart, IInv, TypeOK, Awaits
<1>1. \A q \in Probes : owns'[q] <=> (Home[q] # r /\ owns[q])
  OBVIOUS
<1>2. \A q \in Probes : pc'[q] = IF Home[q] = r THEN "idle" ELSE pc[q]
  OBVIOUS
<1>3. \A q \in Probes : window'[q] = IF Home[q] = r THEN 0 ELSE window[q]
  OBVIOUS
<1>4. /\ local' \in [Replicas -> CircuitState]
      /\ snap' \in [Probes -> CircuitState]
      /\ seen' \in [Probes -> CircuitState]
      /\ pc' \in [Probes -> Awaits \cup {"idle"}]
      /\ window' \in [Probes -> 0 .. LockTTL]
  OBVIOUS
<1>5. /\ owns' \in [Probes -> BOOLEAN]
      /\ token' \in [Probes -> BOOLEAN]
      /\ inProgress' \in [Replicas -> BOOLEAN]
  OBVIOUS
<1>6. OwnerMarked' /\ AcquiringOwns' /\ OneLocalHalfOpenOwner'
  BY <1>1, <1>2 DEF OwnerMarked, AcquiringOwns, OneLocalHalfOpenOwner
<1>7. WindowWithinLease'
  BY <1>3 DEF WindowWithinLease
<1> QED BY <1>4, <1>5, <1>6, <1>7

\* A purge takes the mark from a running owner, and says so.
LEMMA PurgeLocalInv ==
    ASSUME IInv, NEW r \in Replicas, PurgeLocal(r)
    PROVE  IInv'
<1> USE ClosedType DEF PurgeLocal, callVars, IInv, TypeOK
<1>1. /\ purged'[r] /\ purged' \in [Replicas -> BOOLEAN]
      /\ \A s \in Replicas \ {r} : /\ purged'[s] = purged[s]
                                   /\ inProgress'[s] = inProgress[s]
  OBVIOUS
<1>2. OwnerMarked' /\ OneLocalHalfOpenOwner'
  BY <1>1, ConstantsAssumption DEF OwnerMarked, OneLocalHalfOpenOwner
<1>3. AcquiringOwns' /\ WindowWithinLease'
  BY DEF AcquiringOwns, WindowWithinLease
<1> QED BY <1>1, <1>2, <1>3

\* Deleting the keys ends every granted window with the lock.
LEMMA PurgeRemoteInv == ASSUME IInv, PurgeRemote PROVE IInv'
BY ClosedType, ConstantsAssumption
   DEF PurgeRemote, Absent, IInv, TypeOK, AcquiringOwns, OwnerMarked,
       OneLocalHalfOpenOwner, WindowWithinLease

\* Time runs for a lock and for the windows granted from it alike.
LEMMA TickInv == ASSUME IInv, Tick PROVE IInv'
<1> USE ConstantsAssumption DEF IInv, TypeOK
<1>1. /\ local' \in [Replicas -> CircuitState]
      /\ snap' \in [Probes -> CircuitState]
      /\ seen' \in [Probes -> CircuitState]
      /\ remote' \in CircuitState
  BY ElapseType DEF Tick
<1>2. /\ lease' \in [owner : Probes \cup {NoProbe}, ttl : 0 .. LockTTL]
      /\ window' \in [Probes -> 0 .. LockTTL]
  BY DEF Tick
<1>3. WindowWithinLease'
  <2> SUFFICES ASSUME NEW p \in Probes, window'[p] > 0
               PROVE  lease'.owner = p /\ window'[p] <= lease'.ttl
    BY DEF WindowWithinLease
  <2>1. window[p] > 1 /\ window'[p] = window[p] - 1
    BY DEF Tick
  <2>2. lease.owner = p /\ window[p] <= lease.ttl
    BY <2>1 DEF WindowWithinLease
  <2>3. lease' = [lease EXCEPT !.ttl = lease.ttl - 1]
    BY <2>1, <2>2 DEF Tick
  <2> QED BY <2>1, <2>2, <2>3
<1> QED BY <1>1, <1>2, <1>3 DEF Tick, AcquiringOwns, OwnerMarked,
           OneLocalHalfOpenOwner

\* The invariant is inductive.
LEMMA NextInv == IInv /\ [Next]_vars => IInv'
<1> SUFFICES ASSUME IInv, [Next]_vars PROVE IInv'
  OBVIOUS
<1>1. CASE \E p \in Probes : Step(p) \/ Cancel(p)
  BY <1>1, StepInv, CancelInv
<1>7. CASE \E r \in Replicas : PurgeLocal(r)
  BY <1>7, PurgeLocalInv
<1>8. CASE PurgeRemote
  BY <1>8, PurgeRemoteInv
<1>2. CASE \E r \in Replicas : Restart(r)
  BY <1>2, RestartInv
<1>3. CASE Tick
  BY <1>3, TickInv
<1>4. CASE RemoteExpires
  BY <1>4, ClosedType
     DEF RemoteExpires, callVars, Absent, IInv, TypeOK, AcquiringOwns,
         OwnerMarked, OneLocalHalfOpenOwner, WindowWithinLease
<1>6. CASE OriginFlips
  <2>1. originUp' \in BOOLEAN
    BY <1>6, Zenon DEF OriginFlips
  <2> QED BY <1>6, <2>1
     DEF OriginFlips, callVars, IInv, TypeOK, AcquiringOwns,
         OwnerMarked, OneLocalHalfOpenOwner, WindowWithinLease
<1>5. CASE UNCHANGED vars
  BY <1>5 DEF vars, IInv, TypeOK, AcquiringOwns, OwnerMarked,
              OneLocalHalfOpenOwner, WindowWithinLease
<1> QED BY <1>1, <1>2, <1>3, <1>4, <1>5, <1>6, <1>7, <1>8 DEF Next

\* The inductive invariant holds of every behaviour.
LEMMA Invariance == Spec => []IInv
BY InitInv, NextInv, PTL DEF Spec

\* Every state of the breaker is well formed: in particular no replica, call
\* or Redis key ever holds an open window longer than max_backoff.
THEOREM TypeCorrect == Spec => []TypeOK
<1>1. IInv => TypeOK
  BY DEF IInv
<1> QED BY <1>1, Invariance, PTL

\* One probe per replica owns the half-open attempt (_half_open_in_progress),
\* with Redis failing and calls cancelled in any way, until a purge.
THEOREM LocalHalfOpenExclusion == Spec => []OneLocalHalfOpenOwner
<1>1. IInv => OneLocalHalfOpenOwner
  BY DEF IInv
<1> QED BY <1>1, Invariance, PTL

\* The granted windows of the distributed half-open lock never overlap,
\* because release_lock deletes the key only for its own token.
THEOREM TokenExclusion == Spec => []OneTokenPerWindow
<1>1. IInv => OneTokenPerWindow
  BY DEF IInv, WindowWithinLease, OneTokenPerWindow
<1> QED BY <1>1, Invariance, PTL

-----------------------------------------------------------------------------
(***************************************************************************)
(* The mark of a replica and its owner, when no caller's deadline can cut  *)
(* the SET of the half-open lock.                                          *)
(***************************************************************************)

\* A probe that gives up an attempt takes the mark of its replica with it.
LEMMA OwnerLeaves ==
    ASSUME TypeOK, HalfOpenFlagHasOwner, NEW p \in Probes,
           owns' = [owns EXCEPT ![p] = FALSE],
           inProgress' = IF owns[p] THEN [inProgress EXCEPT ![Home[p]] = FALSE]
                                    ELSE inProgress
    PROVE  HalfOpenFlagHasOwner'
<1> SUFFICES ASSUME NEW r \in Replicas, inProgress'[r]
             PROVE  \E q \in Probes : Home[q] = r /\ owns'[q]
  BY DEF HalfOpenFlagHasOwner
<1>1. inProgress[r] /\ ~(owns[p] /\ Home[p] = r)
  BY ConstantsAssumption DEF TypeOK
<1>2. PICK q \in Probes : Home[q] = r /\ owns[q]
  BY <1>1 DEF HalfOpenFlagHasOwner
<1> QED BY <1>1, <1>2 DEF TypeOK

\* Who is decided to be the half-open probe marks its replica and owns it.
LEMMA DecideMarks ==
    ASSUME TypeOK, HalfOpenFlagHasOwner, NEW p \in Probes, NEW s, NEW shared,
           Decide(p, s, shared)
    PROVE  HalfOpenFlagHasOwner'
<1>1. CASE UNCHANGED <<inProgress, owns>>
  BY <1>1 DEF HalfOpenFlagHasOwner
<1>2. CASE /\ inProgress' = [inProgress EXCEPT ![Home[p]] = TRUE]
           /\ owns' = [owns EXCEPT ![p] = TRUE]
  <2> SUFFICES ASSUME NEW r \in Replicas, inProgress'[r]
               PROVE  \E q \in Probes : Home[q] = r /\ owns'[q]
    BY DEF HalfOpenFlagHasOwner
  <2>1. CASE r = Home[p]
    BY <1>2, <2>1 DEF TypeOK
  <2>2. CASE r # Home[p]
    <3>1. PICK q \in Probes : Home[q] = r /\ owns[q]
      BY <1>2, <2>2, ConstantsAssumption DEF TypeOK, HalfOpenFlagHasOwner
    <3> QED BY <1>2, <3>1 DEF TypeOK
  <2> QED BY <2>1, <2>2
<1> QED BY <1>1, <1>2 DEF Decide

\* Every step keeps an owner for every mark.
LEMMA MarkStep ==
    ASSUME IInv, HalfOpenFlagHasOwner, "acquiring" \notin Cancellable, [Next]_vars
    PROVE  HalfOpenFlagHasOwner'
<1> TypeOK
  BY DEF IInv
<1>1. ASSUME NEW p \in Probes, Release(p)
      PROVE  HalfOpenFlagHasOwner'
  BY <1>1, OwnerLeaves DEF Release, ClearMark
<1>2. ASSUME UNCHANGED <<inProgress, owns>>
      PROVE  HalfOpenFlagHasOwner'
  BY <1>2 DEF HalfOpenFlagHasOwner
<1>3. ASSUME NEW p \in Probes, Step(p)
      PROVE  HalfOpenFlagHasOwner'
  <2>1. CASE ReadShared(p) \/ ReadLocal(p)
    BY <2>1, DecideMarks DEF ReadShared, ReadLocal
  <2>2. CASE AcquireRefused(p)
    <3>1. owns[p]
      BY <2>2 DEF AcquireRefused, IInv, AcquiringOwns
    <3> QED BY <2>2, <3>1, OwnerLeaves DEF AcquireRefused
  <2>3. CASE BudgetRejects(p) \/ RecordOverflows(p) \/ Finish(p)
    BY <2>3, <1>1 DEF BudgetRejects, RecordOverflows, Finish
  <2>4. CASE \/ Start(p) \/ AcquireGranted(p) \/ AcquireRaised(p) \/ OriginEnds(p)
             \/ RecordSuccess(p) \/ RecordFailure(p) \/ Mirror(p) \/ Unlock(p)
    BY <2>4, <1>2
       DEF Start, AcquireGranted, AcquireRaised, OriginEnds, RecordSuccess,
           RecordFailure, Record, Mirror, Unlock, DropToken
  <2> QED BY <1>3, <2>1, <2>2, <2>3, <2>4 DEF Step, Acquire
<1>4. ASSUME NEW p \in Probes, Cancel(p)
      PROVE  HalfOpenFlagHasOwner'
  <2>1. ~CancelAcquiring(p)
    BY <1>4 DEF Cancel, CancelAcquiring
  <2>2. CASE CancelRefresh(p)
    BY <2>2, <1>1 DEF CancelRefresh
  <2>3. CASE CancelReading(p) \/ CancelUnlocking(p)
    BY <2>3, <1>2 DEF CancelReading, CancelUnlocking, DropToken
  <2> QED BY <1>4, <2>1, <2>2, <2>3 DEF Cancel
<1>5. ASSUME NEW r \in Replicas, Restart(r)
      PROVE  HalfOpenFlagHasOwner'
  <2>1. \A q \in Probes : owns'[q] <=> (Home[q] # r /\ owns[q])
    BY <1>5 DEF Restart, TypeOK
  <2>2. inProgress' = [inProgress EXCEPT ![r] = FALSE]
    BY <1>5 DEF Restart
  <2> QED BY <2>1, <2>2 DEF TypeOK, HalfOpenFlagHasOwner
<1>6. ASSUME NEW r \in Replicas, PurgeLocal(r)
      PROVE  HalfOpenFlagHasOwner'
  BY <1>6 DEF PurgeLocal, callVars, TypeOK, HalfOpenFlagHasOwner
<1>7. CASE PurgeRemote \/ Tick \/ RemoteExpires \/ OriginFlips \/ UNCHANGED vars
  BY <1>7, <1>2 DEF PurgeRemote, Tick, RemoteExpires, OriginFlips, callVars, vars
<1> QED BY <1>3, <1>4, <1>5, <1>6, <1>7 DEF Next

\* Where the SET of the half-open lock cannot be cancelled, a replica that is
\* marked half-open has a probe that will clear the mark: Redis failures, every
\* other cancellation, restarts and purges included.  With that cancellation the
\* property is false (CancelAcquiring keeps the mark).
THEOREM MarkHasOwner ==
    ASSUME "acquiring" \notin Cancellable
    PROVE  Spec => []HalfOpenFlagHasOwner
<1>1. Init => HalfOpenFlagHasOwner
  BY DEF Init, HalfOpenFlagHasOwner
<1>2. IInv /\ HalfOpenFlagHasOwner /\ [Next]_vars => HalfOpenFlagHasOwner'
  BY MarkStep
<1> QED BY <1>1, <1>2, Invariance, PTL DEF Spec

-----------------------------------------------------------------------------
(***************************************************************************)
(* A recovery attempt that fails, and the backoff it must leave.           *)
(***************************************************************************)

\* An owner is in its attempt, and until the outcome is recorded its decision
\* still shows the failures that opened the circuit.
OwnerSawFailures ==
    \A p \in Probes : owns[p] =>
        /\ pc[p] \in Awaits \ {"reading", "unlocking"}
        /\ pc[p] \in {"acquiring", "origin", "record_fail"} =>
              seen[p].failures >= FailureThreshold

\* Giving up an attempt, the probe owns nothing and the others are untouched.
LEMMA LeavingSaw ==
    ASSUME TypeOK, OwnerSawFailures, NEW p \in Probes,
           owns' = [owns EXCEPT ![p] = FALSE],
           \A q \in Probes \ {p} : pc'[q] = pc[q] /\ seen'[q] = seen[q]
    PROVE  OwnerSawFailures'
BY DEF TypeOK, OwnerSawFailures

\* A decision that makes an owner was taken at the threshold.
LEMMA DecideSaw ==
    ASSUME TypeOK, OwnerSawFailures, NEW p \in Probes, NEW s \in CircuitState,
           NEW shared, pc[p] = "reading", Decide(p, s, shared)
    PROVE  OwnerSawFailures'
<1>1. ~owns[p]
  BY DEF OwnerSawFailures
<1>2. \A q \in Probes \ {p} : /\ pc'[q] = pc[q] /\ seen'[q] = seen[q]
                              /\ owns'[q] = owns[q]
  BY DEF Decide, Suppress, Return, GoToOrigin, TypeOK
<1>3. CASE owns' = owns
  BY <1>1, <1>2, <1>3 DEF OwnerSawFailures
<1>4. CASE owns' # owns
  <2>1. /\ s.failures >= FailureThreshold
        /\ seen'[p] = s /\ pc'[p] \in {"acquiring", "origin"}
    BY <1>4 DEF Decide, TypeOK
  <2> QED BY <1>2, <2>1 DEF OwnerSawFailures, Awaits
<1> QED BY <1>3, <1>4

\* Every step keeps it.
LEMMA SawStep ==
    ASSUME IInv, OwnerSawFailures, [Next]_vars
    PROVE  OwnerSawFailures'
<1> TypeOK
  BY DEF IInv
<1>1. ASSUME NEW p \in Probes, Release(p)
      PROVE  OwnerSawFailures'
  BY <1>1, LeavingSaw DEF Release, TypeOK
<1>2. ASSUME NEW p \in Probes, Step(p)
      PROVE  OwnerSawFailures'
  <2>1. CASE ReadShared(p)
    BY <2>1, DecideSaw, MergeType DEF ReadShared, Merged, TypeOK
  <2>2. CASE ReadLocal(p)
    BY <2>2, DecideSaw DEF ReadLocal, TypeOK
  <2>3. CASE AcquireRefused(p)
    BY <2>3, LeavingSaw DEF AcquireRefused, Suppress, Return, GoToOrigin, TypeOK
  <2>4. CASE BudgetRejects(p) \/ RecordOverflows(p) \/ Finish(p)
    BY <2>4, <1>1 DEF BudgetRejects, RecordOverflows, Finish
  <2>5. CASE Start(p) \/ AcquireGranted(p) \/ AcquireRaised(p) \/ Mirror(p)
    BY <2>5 DEF Start, AcquireGranted, AcquireRaised, Mirror, TypeOK, Awaits,
                OwnerSawFailures
  <2>6. CASE OriginEnds(p)
    BY <2>6 DEF OriginEnds, TypeOK, Awaits, OwnerSawFailures
  <2>7. CASE RecordSuccess(p) \/ RecordFailure(p)
    BY <2>7 DEF RecordSuccess, RecordFailure, Record, TypeOK, Awaits,
                OwnerSawFailures
  <2>8. CASE Unlock(p)
    BY <2>8 DEF Unlock, DropToken, TypeOK, OwnerSawFailures
  <2> QED BY <1>2, <2>1, <2>2, <2>3, <2>4, <2>5, <2>6, <2>7, <2>8 DEF Step, Acquire
<1>3. ASSUME NEW p \in Probes, Cancel(p)
      PROVE  OwnerSawFailures'
  <2>1. CASE CancelAcquiring(p)
    BY <2>1, LeavingSaw DEF CancelAcquiring, Return, TypeOK
  <2>2. CASE CancelRefresh(p)
    BY <2>2, <1>1 DEF CancelRefresh
  <2>3. CASE CancelReading(p) \/ CancelUnlocking(p)
    BY <2>3 DEF CancelReading, Return, CancelUnlocking, DropToken, TypeOK,
                OwnerSawFailures
  <2> QED BY <1>3, <2>1, <2>2, <2>3 DEF Cancel
<1>4. ASSUME NEW r \in Replicas, Restart(r)
      PROVE  OwnerSawFailures'
  <2>1. \A q \in Probes : owns'[q] => Home[q] # r /\ owns[q]
    BY <1>4 DEF Restart, TypeOK
  <2>2. \A q \in Probes : Home[q] # r => pc'[q] = pc[q] /\ seen'[q] = seen[q]
    BY <1>4 DEF Restart
  <2> QED BY <2>1, <2>2 DEF OwnerSawFailures
<1>5. CASE Tick
  <2>1. \A q \in Probes : seen'[q].failures = seen[q].failures
    BY <1>5 DEF Tick, Elapse, TypeOK, CircuitState
  <2> QED BY <1>5, <2>1 DEF Tick, OwnerSawFailures
<1>6. CASE \/ \E r \in Replicas : PurgeLocal(r)
           \/ PurgeRemote \/ RemoteExpires \/ OriginFlips \/ UNCHANGED vars
  BY <1>6 DEF PurgeLocal, PurgeRemote, RemoteExpires, OriginFlips, callVars, vars,
              OwnerSawFailures
<1> QED BY <1>2, <1>3, <1>4, <1>5, <1>6 DEF Next

LEMMA SawAlways == Spec => []OwnerSawFailures
<1>1. Init => OwnerSawFailures
  BY DEF Init, OwnerSawFailures
<1>2. IInv /\ OwnerSawFailures /\ [Next]_vars => OwnerSawFailures'
  BY SawStep
<1> QED BY <1>1, <1>2, Invariance, PTL DEF Spec

\* A failure that an owner counts reaches the threshold, whatever the stored
\* state says by then.
LEMMA OwnerReachesThreshold ==
    ASSUME IInv, OwnerSawFailures, NEW p \in Probes, NEW a \in CircuitState,
           owns[p], pc[p] = "record_fail"
    PROVE  /\ FailureCount(a, seen[p]) \in FailureThreshold .. FailureCap
           /\ \A s \in FailureStates(a, seen[p]) : s.openFor > 0
<1> DEFINE n == FailureCount(a, seen[p])
<1>1. seen[p] \in CircuitState /\ seen[p].failures >= FailureThreshold
  BY DEF OwnerSawFailures, IInv, TypeOK
<1>2. n \in FailureThreshold .. FailureCap
  BY <1>1, ConstantsAssumption
     DEF FailureCount, Smaller, Larger, CircuitState
<1>3. ASSUME NEW s \in FailureStates(a, seen[p])
      PROVE  s.openFor > 0
  <2>1. PICK d \in BackoffSeconds(n) : s = [failures |-> n, openFor |-> d]
    BY <1>2, ConstantsAssumption DEF FailureStates
  <2>2. d > 0
    BY ConstantsAssumption DEF BackoffSeconds
  <2> QED BY <2>1, <2>2
<1> QED BY <1>2, <1>3

\* An owner that counts its failure opens the circuit, from whichever state it
\* counts.
LEMMA CountedFailureOpens ==
    ASSUME IInv, OwnerSawFailures, NEW p \in Probes, owns[p], RecordFailure(p)
    PROVE  local'[Home[p]].openFor > 0
<1>1. /\ Merged(p) \in CircuitState /\ snap[p] \in CircuitState
      /\ Home[p] \in Replicas /\ pc[p] = "record_fail"
  BY MergeType, ConstantsAssumption DEF Merged, IInv, TypeOK, RecordFailure
<1>2. PICK s \in FailureStates(Merged(p), seen[p])
                 \cup FailureStates(snap[p], seen[p]) :
        local' = [local EXCEPT ![Home[p]] = s]
  BY DEF RecordFailure, Record
<1> QED BY <1>1, <1>2, OwnerReachesThreshold DEF IInv, TypeOK

CountedReopens ==
    \A p \in Probes :
        owns[p] /\ RecordFailure(p) => local'[Home[p]].openFor > 0

\* A recovery attempt that fails and is counted leaves its replica's circuit open,
\* whatever happened to the stored state during the attempt: a purge, a restart
\* of the peer, a success recorded by another probe.
THEOREM CountedRecoveryReopens == Spec => [][CountedReopens]_vars
<1>1. IInv /\ OwnerSawFailures /\ [Next]_vars => [CountedReopens]_vars
  BY CountedFailureOpens DEF CountedReopens
<1> QED BY <1>1, Invariance, SawAlways, PTL DEF Spec

-----------------------------------------------------------------------------
(***************************************************************************)
(* Windows only grow with failures: the arithmetic of backoff_seconds, and *)
(* the invariant that no copy of the state holds a window its count of     *)
(* failures has not earned.                                                *)
(***************************************************************************)

\* With one more element a finite set has twice as many subsets.
LEMMA SubsetsDouble ==
    ASSUME NEW S, NEW x, IsFiniteSet(S), x \notin S
    PROVE  Cardinality(SUBSET (S \cup {x})) = 2 * Cardinality(SUBSET S)
<1> DEFINE A == SUBSET S
           B == {T \cup {x} : T \in A}
           f == [T \in A |-> T \cup {x}]
<1>1. IsFiniteSet(A)
  BY FS_SUBSET
<1>2. f \in [A -> B] /\ \A T \in A : f[T] = T \cup {x}
  OBVIOUS
<1>3. ASSUME NEW T \in A, NEW U \in A, T \cup {x} = U \cup {x}
      PROVE  T = U
  BY <1>3
<1>4. f \in Injection(A, B)
  BY <1>2, <1>3 DEF Injection, IsInjective
<1>5. f \in Surjection(A, B)
  <2>1. ASSUME NEW b \in B PROVE \E T \in A : f[T] = b
    <3>1. PICK T \in A : b = T \cup {x}
      OBVIOUS
    <3> QED BY <1>2, <3>1
  <2> QED BY <1>2, <2>1 DEF Surjection
<1>6. IsFiniteSet(B) /\ Cardinality(B) = Cardinality(A)
  BY <1>1, <1>4, <1>5, FS_Bijection DEF Bijection, ExistsBijection
<1>7. A \cap B = {}
  OBVIOUS
<1>8. SUBSET (S \cup {x}) = A \cup B
  <2>1. ASSUME NEW T \in SUBSET (S \cup {x}), T \notin A
        PROVE  T \in B
    <3>1. T \ {x} \in A /\ T = (T \ {x}) \cup {x}
      BY <2>1
    <3> QED BY <3>1
  <2>2. ASSUME NEW T \in A \cup B
        PROVE  T \in SUBSET (S \cup {x})
    OBVIOUS
  <2> QED BY <2>1, <2>2
<1>9. A = SUBSET S
  OBVIOUS
<1> HIDE DEF A, B, f
<1>10. Cardinality(A) \in Nat /\ Cardinality({}) = 0
  BY <1>1, FS_CardinalityType, FS_EmptySet
<1>11. Cardinality(A \cup B)
          = Cardinality(A) + Cardinality(B) - Cardinality(A \cap B)
  BY <1>1, <1>6, FS_Union
<1>12. Cardinality(A \cup B) = 2 * Cardinality(A)
  <2>1. Cardinality(A \cap B) = 0
    BY <1>7, <1>10, Zenon
  <2> QED BY <1>6, <1>10, <1>11, <2>1
<1> QED BY <1>8, <1>9, <1>12, Zenon

\* A power of two counts the subsets of an interval, so it doubles ...
LEMMA PowerDoubles ==
    ASSUME NEW n \in Nat
    PROVE  2 ^ n \in Nat \ {0} /\ 2 ^ (n + 1) = 2 * 2 ^ n
<1>1. /\ IsFiniteSet(1 .. n) /\ Cardinality(1 .. n) = n
      /\ IsFiniteSet(1 .. (n + 1)) /\ Cardinality(1 .. (n + 1)) = n + 1
  BY FS_Interval
<1>2. /\ IsFiniteSet(SUBSET (1 .. n)) /\ Cardinality(SUBSET (1 .. n)) = 2 ^ n
      /\ Cardinality(SUBSET (1 .. (n + 1))) = 2 ^ (n + 1)
  BY <1>1, FS_SUBSET
<1>3. 1 .. (n + 1) = (1 .. n) \cup {n + 1} /\ n + 1 \notin 1 .. n
  OBVIOUS
<1>4. 2 ^ (n + 1) = 2 * 2 ^ n
  BY <1>1, <1>2, <1>3, SubsetsDouble
<1>5. {} \in SUBSET (1 .. n)
  OBVIOUS
<1>6. 2 ^ n \in Nat /\ 2 ^ n # 0
  BY <1>2, <1>5, FS_CardinalityType, FS_EmptySet
<1> QED BY <1>4, <1>6

\* ... and never falls.
LEMMA PowerGrows ==
    ASSUME NEW m \in Nat, NEW n \in Nat, m <= n
    PROVE  2 ^ m <= 2 ^ n
<1>1. /\ IsFiniteSet(1 .. m) /\ Cardinality(1 .. m) = m
      /\ IsFiniteSet(1 .. n) /\ Cardinality(1 .. n) = n
  BY FS_Interval
<1>2. /\ Cardinality(SUBSET (1 .. m)) = 2 ^ m
      /\ IsFiniteSet(SUBSET (1 .. n)) /\ Cardinality(SUBSET (1 .. n)) = 2 ^ n
  BY <1>1, FS_SUBSET
<1>3. SUBSET (1 .. m) \in SUBSET (SUBSET (1 .. n))
  OBVIOUS
<1> QED BY <1>2, <1>3, FS_Subset

\* The backoff of a count before cap and jitter.
Doubled(n) == BaseBackoff * 2 ^ Exponent(n)

\* The longest window that a count can have earned: jitter at most doubles it.
Reach(n) == Smaller(MaxBackoff, 2 * Doubled(n))

\* The backoff is a positive whole number and grows with the count.
LEMMA DoubledGrows ==
    ASSUME NEW m \in Nat, NEW n \in Nat, m <= n
    PROVE  /\ Doubled(m) \in Nat \ {0} /\ Doubled(n) \in Nat
           /\ Doubled(m) <= Doubled(n)
<1>1. Exponent(m) \in Nat /\ Exponent(n) \in Nat /\ Exponent(m) <= Exponent(n)
  BY ConstantsAssumption DEF Exponent
<1>2. /\ 2 ^ Exponent(m) \in Nat \ {0} /\ 2 ^ Exponent(n) \in Nat \ {0}
      /\ 2 ^ Exponent(m) <= 2 ^ Exponent(n)
  BY <1>1, PowerDoubles, PowerGrows
<1>3. ASSUME NEW b \in Nat \ {0}, NEW x \in Nat \ {0}, NEW y \in Nat \ {0}, x <= y
      PROVE  b * x \in Nat \ {0} /\ b * y \in Nat /\ b * x <= b * y
  BY <1>3
<1> QED BY <1>2, <1>3, ConstantsAssumption DEF Doubled

\* From the threshold on, one more failure doubles it.
LEMMA NextDoubles ==
    ASSUME NEW n \in Nat, n >= FailureThreshold
    PROVE  Doubled(n + 1) = 2 * Doubled(n)
<1>1. Exponent(n) \in Nat /\ Exponent(n + 1) = Exponent(n) + 1
  BY ConstantsAssumption DEF Exponent
<1>2. 2 ^ Exponent(n) \in Nat /\ 2 ^ Exponent(n + 1) = 2 * 2 ^ Exponent(n)
  BY <1>1, PowerDoubles
<1>3. ASSUME NEW b \in Nat, NEW x \in Nat
      PROVE  b * (2 * x) = 2 * (b * x)
  OBVIOUS
<1> QED BY <1>2, <1>3, ConstantsAssumption DEF Doubled

\* The longest window grows with the count.
LEMMA ReachGrows ==
    ASSUME NEW m \in Nat, NEW n \in Nat, m <= n
    PROVE  Reach(m) \in Nat /\ Reach(n) \in Nat /\ Reach(m) <= Reach(n)
BY DoubledGrows, ConstantsAssumption DEF Reach, Smaller

\* A copy of the state is open only at the threshold, and for no longer than its
\* failures have earned.
Earned(s) ==
    s.openFor > 0 => s.failures >= FailureThreshold /\ s.openFor <= Reach(s.failures)

\* Of two copies the merge is earned, and time takes nothing from it.
LEMMA MergeEarned ==
    ASSUME NEW a \in CircuitState, NEW b \in CircuitState, Earned(a), Earned(b)
    PROVE  Earned(MergeStates(a, b)) /\ Earned(Elapse(a))
<1> DEFINE m == MergeStates(a, b)
<1>1. /\ a.failures \in Nat /\ b.failures \in Nat /\ m.failures \in Nat
      /\ a.failures <= m.failures /\ b.failures <= m.failures
      /\ m.openFor \in {a.openFor, b.openFor}
      /\ a.openFor \in Nat /\ b.openFor \in Nat
  BY ConstantsAssumption DEF MergeStates, Larger, CircuitState
<1>2. /\ Reach(a.failures) \in Nat /\ Reach(b.failures) \in Nat
      /\ Reach(m.failures) \in Nat
      /\ Reach(a.failures) <= Reach(m.failures)
      /\ Reach(b.failures) <= Reach(m.failures)
  BY <1>1, ReachGrows
<1>3. Earned(m)
  <2> HIDE DEF m
  <2> QED BY <1>1, <1>2, ConstantsAssumption DEF Earned
<1>4. Earned(Elapse(a))
  BY <1>1, <1>2 DEF Earned, Elapse, CircuitState
<1> QED BY <1>3, <1>4

\* The window of a failure is earned, and outlasts both windows it was counted on.
LEMMA FailureEarned ==
    ASSUME NEW a \in CircuitState, NEW b \in CircuitState, Earned(a), Earned(b),
           NEW s \in FailureStates(a, b)
    PROVE  Earned(s) /\ s.openFor >= a.openFor /\ s.openFor >= b.openFor
<1> DEFINE m == Larger(a.failures, b.failures)
           n == FailureCount(a, b)
<1>1. /\ a.failures \in Nat /\ b.failures \in Nat /\ m \in 0 .. FailureCap
      /\ a.failures <= m /\ b.failures <= m
      /\ n \in 0 .. FailureCap /\ n = Smaller(FailureCap, m + 1)
      /\ a.openFor \in 0 .. MaxBackoff /\ b.openFor \in 0 .. MaxBackoff
  BY ConstantsAssumption DEF Larger, FailureCount, Smaller, CircuitState
<1>2. PICK d \in (IF n >= FailureThreshold THEN BackoffSeconds(n) ELSE {0}) :
        s = [failures |-> n, openFor |-> d] /\ ~Overflows(n)
  BY DEF FailureStates
<1> HIDE DEF m, n
<1>3. CASE n < FailureThreshold
  <2>1. d = 0 /\ a.failures < FailureThreshold /\ b.failures < FailureThreshold
    BY <1>1, <1>2, <1>3, ConstantsAssumption DEF Smaller
  <2> QED BY <1>1, <1>2, <2>1, ConstantsAssumption DEF Earned
<1>4. CASE n >= FailureThreshold
  <2>1. /\ Doubled(n) \in Nat \ {0} /\ Doubled(m) \in Nat \ {0}
        /\ Doubled(a.failures) \in Nat /\ Doubled(a.failures) <= Doubled(m)
        /\ Doubled(b.failures) \in Nat /\ Doubled(b.failures) <= Doubled(m)
    BY <1>1, DoubledGrows, ConstantsAssumption
  <2>2. /\ d \in 1 .. MaxBackoff /\ Smaller(MaxBackoff, Doubled(n)) <= d
        /\ 100 * d <= Smaller(MaxBackoff, Doubled(n)) * (100 + JitterPercent)
    BY <1>2, <1>4, ConstantsAssumption DEF BackoffSeconds, Doubled
  <2>3. ASSUME NEW x \in Nat, 100 * d <= x * (100 + JitterPercent)
        PROVE  d <= 2 * x
    <3>1. x * (100 + JitterPercent) <= x * 200
      BY ConstantsAssumption
    <3>2. x * (100 + JitterPercent) \in Int /\ 100 * d <= x * 200
      BY <2>2, <2>3, <3>1, ConstantsAssumption
    <3> QED BY <2>2, <3>2
  <2>4. d <= Reach(n)
    BY <2>1, <2>2, <2>3, ConstantsAssumption DEF Reach, Smaller
  <2>5. m >= FailureThreshold /\ m < FailureCap => Doubled(n) = 2 * Doubled(m)
    BY <1>1, NextDoubles, ConstantsAssumption DEF Smaller
  <2>6. m = FailureCap => Doubled(n) >= MaxBackoff
    BY <1>1, <1>2, CapAssumption, ConstantsAssumption DEF Smaller, Doubled
  <2>7. ASSUME NEW c \in CircuitState, Earned(c), c.failures <= m,
               Doubled(c.failures) \in Nat, Doubled(c.failures) <= Doubled(m)
        PROVE  c.openFor <= d
    <3>1. CASE c.openFor = 0
      BY <2>2, <3>1, ConstantsAssumption
    <3>2. CASE c.openFor > 0
      <4>1. /\ c.openFor \in Nat /\ c.openFor <= MaxBackoff
            /\ m >= FailureThreshold
            /\ c.openFor <= Reach(c.failures)
        BY <1>1, <2>7, <3>2, ConstantsAssumption DEF Earned, CircuitState
      <4>2. c.openFor <= Doubled(n)
        BY <1>1, <2>1, <2>5, <2>6, <2>7, <4>1, ConstantsAssumption DEF Reach, Smaller
      <4> QED BY <2>1, <2>2, <4>1, <4>2, ConstantsAssumption DEF Smaller
    <3> QED BY <2>7, <3>1, <3>2, ConstantsAssumption DEF CircuitState
  <2> QED BY <1>1, <1>2, <1>4, <2>1, <2>4, <2>7 DEF Earned
<1> QED BY <1>1, <1>3, <1>4, ConstantsAssumption

\* No copy of the state is open for longer than its failures have earned.
WindowsEarned ==
    /\ Earned(remote)
    /\ \A r \in Replicas : Earned(local[r])
    /\ \A p \in Probes : Earned(snap[p]) /\ Earned(seen[p])

\* A closed circuit has earned its lack of a window.
LEMMA ClosedEarned == Earned(Closed) /\ Earned(Absent)
BY ConstantsAssumption DEF Earned, Closed, Absent

\* A decision and a released attempt keep copies that were already earned.
LEMMA CallEarned ==
    ASSUME TypeOK, WindowsEarned, NEW p \in Probes, NEW s, Earned(s), NEW shared,
           Decide(p, s, shared) \/ Release(p)
    PROVE  \A q \in Probes : Earned(snap'[q]) /\ Earned(seen'[q])
BY ClosedEarned
   DEF TypeOK, WindowsEarned, Decide, Suppress, Return, GoToOrigin, Release

\* Every step keeps it.
LEMMA EarnedStep ==
    ASSUME IInv, WindowsEarned, [Next]_vars
    PROVE  WindowsEarned'
<1> TypeOK
  BY DEF IInv
<1> USE ClosedEarned
<1>1. ASSUME NEW p \in Probes
      PROVE  /\ Home[p] \in Replicas
             /\ Merged(p) \in CircuitState /\ Earned(Merged(p))
             /\ snap[p] \in CircuitState /\ Earned(snap[p])
             /\ seen[p] \in CircuitState /\ Earned(seen[p])
  BY MergeType, MergeEarned, ConstantsAssumption DEF Merged, WindowsEarned, TypeOK
<1>2. ASSUME NEW p \in Probes, Step(p)
      PROVE  WindowsEarned'
  <2>1. CASE ReadShared(p)
    BY <1>1, <2>1, CallEarned DEF ReadShared, TypeOK, WindowsEarned
  <2>2. CASE ReadLocal(p)
    BY <1>1, <2>2, CallEarned DEF ReadLocal, WindowsEarned
  <2>3. CASE AcquireRefused(p)
    BY <1>1, <2>3 DEF AcquireRefused, Suppress, Return, GoToOrigin, TypeOK,
                      WindowsEarned
  <2>4. CASE BudgetRejects(p) \/ Finish(p)
    BY <2>4, CallEarned DEF BudgetRejects, Finish, WindowsEarned
  <2>5. CASE RecordOverflows(p)
    <3>1. \A r \in Replicas : Earned(local'[r])
      BY <1>1, <2>5 DEF RecordOverflows, TypeOK, WindowsEarned
    <3> QED BY <2>5, <3>1, CallEarned DEF RecordOverflows, WindowsEarned
  <2>6. CASE Start(p) \/ OriginEnds(p)
    BY <1>1, <2>6 DEF Start, OriginEnds, TypeOK, WindowsEarned
  <2>7. CASE AcquireGranted(p) \/ AcquireRaised(p) \/ Unlock(p)
    BY <2>7 DEF AcquireGranted, AcquireRaised, Unlock, DropToken, WindowsEarned
  <2>8. CASE Mirror(p)
    BY <1>1, <2>8 DEF Mirror, WindowsEarned
  <2>9. ASSUME NEW S, \A s \in S : Earned(s), NEW shared, Record(p, S, shared)
        PROVE  WindowsEarned'
    BY <1>1, <2>9 DEF Record, TypeOK, WindowsEarned
  <2>10. CASE RecordSuccess(p)
    BY <2>9, <2>10 DEF RecordSuccess
  <2>11. CASE RecordFailure(p)
    BY <1>1, <2>9, <2>11, FailureEarned DEF RecordFailure
  <2> QED BY <1>2, <2>1, <2>2, <2>3, <2>4, <2>5, <2>6, <2>7, <2>8, <2>10,
             <2>11 DEF Step, Acquire
<1>3. ASSUME NEW p \in Probes, Cancel(p)
      PROVE  WindowsEarned'
  <2>1. CASE CancelReading(p) \/ CancelAcquiring(p)
    BY <2>1 DEF CancelReading, CancelAcquiring, Return, TypeOK, WindowsEarned
  <2>2. CASE CancelRefresh(p)
    BY <1>1, <2>2, CallEarned DEF CancelRefresh, WindowsEarned
  <2>3. CASE CancelUnlocking(p)
    BY <2>3 DEF CancelUnlocking, DropToken, WindowsEarned
  <2> QED BY <1>3, <2>1, <2>2, <2>3 DEF Cancel
<1>4. ASSUME NEW r \in Replicas, Restart(r)
      PROVE  WindowsEarned'
  BY <1>4 DEF Restart, TypeOK, WindowsEarned
<1>5. ASSUME NEW r \in Replicas, PurgeLocal(r)
      PROVE  WindowsEarned'
  BY <1>5 DEF PurgeLocal, callVars, TypeOK, WindowsEarned
<1>6. CASE PurgeRemote \/ RemoteExpires
  BY <1>6 DEF PurgeRemote, RemoteExpires, callVars, WindowsEarned
<1>7. CASE Tick
  BY <1>1, <1>7, MergeEarned DEF Tick, TypeOK, WindowsEarned
<1>8. CASE OriginFlips \/ UNCHANGED vars
  BY <1>8 DEF OriginFlips, callVars, vars, WindowsEarned
<1> QED BY <1>2, <1>3, <1>4, <1>5, <1>6, <1>7, <1>8 DEF Next

LEMMA EarnedAlways == Spec => []WindowsEarned
<1>1. Init => WindowsEarned
  BY ClosedEarned DEF Init, WindowsEarned
<1>2. IInv /\ WindowsEarned /\ [Next]_vars => WindowsEarned'
  BY EarnedStep
<1> QED BY <1>1, <1>2, Invariance, PTL DEF Spec

\* No failure, however late it is reported and from whatever decision, shortens a
\* window that its recorder knows of, and a failed recovery opens the circuit: for
\* any threshold, backoffs and jitter up to 100 percent.
THEOREM FailuresOnlyExtend == Spec => FailuresExtend
<1>1. ASSUME IInv, OwnerSawFailures, WindowsEarned, NEW p \in Probes,
             RecordFailure(p)
      PROVE  LET opened == local'[Home[p]].openFor
             IN  /\ opened >= snap[p].openFor
                 /\ opened >= seen[p].openFor
                 /\ pc'[p] = "mirroring" => opened >= remote.openFor
                 /\ owns[p] => opened > 0
  <2> TypeOK
    BY <1>1 DEF IInv
  <2>1. /\ Home[p] \in Replicas
        /\ Merged(p) \in CircuitState /\ Earned(Merged(p))
        /\ snap[p] \in CircuitState /\ Earned(snap[p])
        /\ seen[p] \in CircuitState /\ Earned(seen[p])
    BY <1>1, MergeType, MergeEarned, ConstantsAssumption
       DEF Merged, WindowsEarned, TypeOK
  <2>2. Merged(p).openFor >= snap[p].openFor /\ Merged(p).openFor >= remote.openFor
    BY <2>1, ConstantsAssumption
       DEF Merged, MergeStates, Larger, CircuitState, TypeOK
  <2>3. owns[p] => local'[Home[p]].openFor > 0
    BY <1>1, CountedFailureOpens
  <2>4. ASSUME Record(p, FailureStates(Merged(p), seen[p]), TRUE)
        PROVE  /\ local'[Home[p]].openFor >= Merged(p).openFor
               /\ local'[Home[p]].openFor >= seen[p].openFor
               /\ local'[Home[p]].openFor \in Int
    BY <2>1, <2>4, FailureEarned, FailureType, ConstantsAssumption
       DEF Record, TypeOK, CircuitState
  <2>5. ASSUME Record(p, FailureStates(snap[p], seen[p]), FALSE)
        PROVE  /\ local'[Home[p]].openFor >= snap[p].openFor
               /\ local'[Home[p]].openFor >= seen[p].openFor
               /\ pc'[p] # "mirroring"
    BY <2>1, <2>5, FailureEarned DEF Record, TypeOK
  <2>6. CASE Record(p, FailureStates(Merged(p), seen[p]), TRUE)
    <3>1. /\ Merged(p).openFor \in Int /\ snap[p].openFor \in Int
          /\ remote.openFor \in Int
      BY <2>1, ConstantsAssumption DEF CircuitState, TypeOK
    <3> QED BY <2>2, <2>3, <2>4, <2>6, <3>1
  <2>7. CASE Record(p, FailureStates(snap[p], seen[p]), FALSE)
    BY <2>3, <2>5, <2>7
  <2> QED BY <1>1, <2>6, <2>7 DEF RecordFailure
<1>2. IInv /\ OwnerSawFailures /\ WindowsEarned /\ [Next]_vars =>
        [\A p \in Probes : RecordFailure(p) =>
            LET opened == local'[Home[p]].openFor
            IN  /\ opened >= snap[p].openFor
                /\ opened >= seen[p].openFor
                /\ pc'[p] = "mirroring" => opened >= remote.openFor
                /\ owns[p] => opened > 0]_vars
  BY <1>1
<1> QED BY <1>2, Invariance, SawAlways, EarnedAlways, PTL DEF Spec, FailuresExtend

=============================================================================
