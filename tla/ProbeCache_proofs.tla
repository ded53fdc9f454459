-------------------------- MODULE ProbeCache_proofs --------------------------
(***************************************************************************)
(* The external probe cache for any number of replicas, callers and TTLs:  *)
(* its types, the single flight of each lock, the second look at L1, the   *)
(* exclusiveness of the refresh lock in Redis and the last good evidence a *)
(* replica keeps through every refresh.                                    *)
(***************************************************************************)
EXTENDS ProbeCache, TLAPS

\* A caller holds the lock it was handed, and no other, exactly between the
\* lock and its release; and it was handed none that is yet to be made.
LockHeld ==
    \A c \in Callers :
        /\ flight[c] <= epoch[Home[c]]
        /\ \A l \in Locks :
              refreshing[Home[c]][l] = c
                  <=> pc[c] \in LockedAwaits /\ l = flight[c]

\* The awaits of a caller that found nothing fresh, up to its load.
Looking == {"reading", "locking", "polling", "deciding", "admitting", "origin"}

\* Nothing hot and fresh appears in L1 between the second look and the load.
NothingHotWhileLooking ==
    \A c \in Callers :
        epoch[Home[c]] = 0 /\ pc[c] \in Looking => ~Hot(Home[c])

\* While its granted window runs, a caller still owns the lock in Redis.
WindowWithinLease ==
    \A c \in Callers : window[c] > 0 => lease.owner = c /\ window[c] <= lease.ttl

\* What is being written to Redis is an envelope.
WritesEvidence ==
    \A c \in Callers : pc[c] = "writing" => last[c] # NoEnvelope

Core == TypeOK /\ LockHeld /\ NothingHotWhileLooking /\ WindowWithinLease
IInv == Core /\ WritesEvidence

-----------------------------------------------------------------------------
\* The TTLs are numbers, and so are their maxima.
LEMMA TTLType ==
    /\ SuccessTTL \in Nat /\ FailureTTL \in Nat /\ StaleTTL \in Nat
    /\ HotTTL \in Nat
    /\ Retention \in Nat /\ StaleTTL <= Retention
    /\ Old \in Nat /\ Old = Retention + 1
    /\ NoGood \in Nat /\ NoGood = Old + 1
BY ConstantsAssumption DEF Retention, Old, NoGood, Larger

\* Time passing keeps an age an age.
LEMMA OlderType ==
    ASSUME NEW a \in Ages PROVE Older(a) \in Ages /\ Older(a) >= a
BY TTLType DEF Ages, Older

\* Time passing keeps an envelope an envelope.
LEMMA AgedType ==
    ASSUME NEW e \in Envelope \cup {NoEnvelope}
    PROVE  /\ Aged(e) \in Envelope \cup {NoEnvelope}
           /\ e = NoEnvelope => Aged(e) = NoEnvelope
           /\ e # NoEnvelope => /\ Aged(e) \in Envelope
                                /\ Aged(e).ok = e.ok
                                /\ Aged(e).age = Older(e.age)
<1>1. CASE e = NoEnvelope
  BY <1>1 DEF Aged
<1>2. CASE e # NoEnvelope
  <2>1. e \in Envelope /\ e.age \in Ages /\ e.good \in Ages \cup {NoGood}
    BY <1>2 DEF Envelope
  <2>2. Aged(e) = [e EXCEPT !.age = Older(e.age), !.good = Older(e.good)]
    BY <1>2 DEF Aged
  <2>3. Older(e.good) \in Ages \cup {NoGood}
    BY <2>1, TTLType DEF Older, Ages
  <2>4. Older(e.age) \in Ages
    BY <2>1, OlderType
  <2> QED BY <1>2, <2>1, <2>2, <2>3, <2>4 DEF Envelope
<1> QED BY <1>1, <1>2

\* A load leaves an envelope, whatever was known before it.
LEMMA ObservedType ==
    ASSUME NEW e \in Envelope \cup {NoEnvelope}, NEW ok \in BOOLEAN
    PROVE  Observed(e, ok) \in Envelope
<1>1. 0 \in Ages
  BY TTLType DEF Ages
<1>2. CASE ok
  BY <1>1, <1>2 DEF Observed, Envelope
<1>3. CASE ~ok
  BY <1>1, <1>3 DEF Observed, Envelope
<1> QED BY <1>2, <1>3

\* What a replica retains is an envelope or none.
LEMMA RetainedType ==
    ASSUME TypeOK, NEW r \in Replicas
    PROVE  Retained(r) \in Envelope \cup {NoEnvelope}
BY DEF TypeOK, Retained

\* A hot copy is the envelope in L1.
LEMMA HotType ==
    ASSUME TypeOK, NEW r \in Replicas, Hot(r) PROVE l1[r] \in Envelope
BY DEF TypeOK, Hot, UsableFresh, Retained

-----------------------------------------------------------------------------
\* The initial state satisfies the inductive invariant.
LEMMA InitInv == Init => Core
<1> SUFFICES ASSUME Init PROVE Core
  OBVIOUS
<1>1. TypeOK
  BY TTLType, ConstantsAssumption
     DEF Init, TypeOK, Ages, Awaits, Locks
<1>2. LockHeld
  BY ConstantsAssumption DEF Init, LockHeld, LockedAwaits
<1>3. NothingHotWhileLooking /\ WindowWithinLease
  BY DEF Init, NothingHotWhileLooking, WindowWithinLease, Looking
<1> QED BY <1>1, <1>2, <1>3 DEF Core

-----------------------------------------------------------------------------
\* The variables a call keeps of its own, and the locks of the replicas.
CallTypeOK ==
    /\ epoch \in [Replicas -> Locks]
    /\ flight \in [Callers -> Locks]
    /\ refreshing \in [Replicas -> [Locks -> Callers \cup {NoCaller}]]
    /\ pc \in [Callers -> Awaits \cup {"idle"}]
    /\ last \in [Callers -> Envelope \cup {NoEnvelope}]
    /\ avail \in [Callers -> BOOLEAN]
    /\ token \in [Callers -> BOOLEAN]
    /\ window \in [Callers -> 0 .. LockTTL]

\* Only caller c moves, and it does not start to look.
Moves(c) ==
    /\ epoch' = epoch
    /\ \A d \in Callers \ {c} : pc'[d] = pc[d] /\ window'[d] = window[d]
    /\ window'[c] = 0 \/ window'[c] = window[c]

\* Leaving from under the lock gives the lock back.
LEMMA LeaveKeeps ==
    ASSUME TypeOK, LockHeld, NEW c \in Callers, Leave(c),
           pc[c] \in LockedAwaits
    PROVE  CallTypeOK' /\ LockHeld' /\ Moves(c) /\ pc'[c] = "idle"
<1> USE ConstantsAssumption
    DEF TypeOK, CallTypeOK, Leave, LockReturned, Forget, Moves, Locks
<1> Home[c] \in Replicas
  OBVIOUS
<1>1. CallTypeOK' /\ Moves(c) /\ pc'[c] = "idle"
  OBVIOUS
<1>2. LockHeld'
  <2>1. refreshing[Home[c]][flight[c]] = c
    BY DEF LockHeld
  <2>2. ASSUME NEW d \in Callers
        PROVE  /\ flight'[d] <= epoch'[Home[d]]
               /\ \A l \in Locks :
                     refreshing'[Home[d]][l] = d
                         <=> pc'[d] \in LockedAwaits /\ l = flight'[d]
    <3>1. flight'[d] <= epoch'[Home[d]]
      BY DEF LockHeld
    <3>2. CASE d = c
      <4>1. pc'[c] \notin LockedAwaits
        BY DEF LockedAwaits
      <4>2. ASSUME NEW l \in Locks PROVE refreshing'[Home[c]][l] # c
        <5>1. CASE l = flight[c]
          BY <5>1
        <5>2. CASE l # flight[c]
          <6>1. refreshing'[Home[c]][l] = refreshing[Home[c]][l]
            BY <5>2
          <6> QED BY <5>2, <6>1 DEF LockHeld
        <5> QED BY <5>1, <5>2
      <4> QED BY <3>1, <3>2, <4>1, <4>2
    <3>3. CASE d # c
      <4>1. /\ pc'[d] = pc[d] /\ flight'[d] = flight[d]
            /\ \A l \in Locks : refreshing'[Home[d]][l] = d
                                 <=> refreshing[Home[d]][l] = d
        BY <2>1, <3>3
      <4>2. \A l \in Locks : refreshing[Home[d]][l] = d
                             <=> pc[d] \in LockedAwaits /\ l = flight[d]
        BY DEF LockHeld
      <4> QED BY <3>1, <4>1, <4>2
    <3> QED BY <3>2, <3>3
  <2> QED BY <2>2 DEF LockHeld
<1> QED BY <1>1, <1>2

\* No lock changes hands, and who holds one keeps it.
LEMMA LocksStay ==
    ASSUME LockHeld, refreshing' = refreshing,
           \A d \in Callers :
               /\ flight'[d] <= epoch'[Home[d]]
               /\ pc'[d] \in LockedAwaits <=> pc[d] \in LockedAwaits
               /\ pc[d] \in LockedAwaits => flight'[d] = flight[d]
    PROVE  LockHeld'
<1> SUFFICES ASSUME NEW d \in Callers, NEW l \in Locks
             PROVE  refreshing[Home[d]][l] = d
                        <=> pc'[d] \in LockedAwaits /\ l = flight'[d]
  BY DEF LockHeld
<1>1. refreshing[Home[d]][l] = d <=> pc[d] \in LockedAwaits /\ l = flight[d]
  BY DEF LockHeld
<1> QED BY <1>1

\* A decided call leaves, or releases its lock in Redis first.
LEMMA ConcludeKeeps ==
    ASSUME TypeOK, LockHeld, NEW c \in Callers, Conclude(c),
           pc[c] \in LockedAwaits
    PROVE  /\ CallTypeOK' /\ LockHeld' /\ Moves(c)
           /\ pc'[c] \in {"idle", "unlocking"}
<1>1. CASE Leave(c)
  BY <1>1, LeaveKeeps
<1>2. CASE /\ pc' = [pc EXCEPT ![c] = "unlocking"]
           /\ UNCHANGED <<lockVars, refreshing, last, avail, token, window>>
  BY <1>2 DEF TypeOK, CallTypeOK, LockHeld, LockedAwaits, Awaits, Moves, lockVars
<1> QED BY <1>1, <1>2 DEF Conclude

\* Going on under the lock keeps the lock.
LEMMA ProceedKeeps ==
    ASSUME TypeOK, LockHeld, NEW c \in Callers, NEW to \in LockedAwaits,
           Proceed(c, to), pc[c] \in LockedAwaits
    PROVE  /\ pc' \in [Callers -> Awaits \cup {"idle"}]
           /\ LockHeld'
           /\ \A d \in Callers \ {c} : pc'[d] = pc[d]
           /\ pc'[c] = to /\ UNCHANGED lockVars
BY DEF TypeOK, Proceed, LockHeld, LockedAwaits, Awaits, lockVars

\* While L1 is not written, nothing becomes hot for those who look already.
LEMMA StillNothingHot ==
    ASSUME NothingHotWhileLooking, UNCHANGED l1Vars, epoch' = epoch,
           \A d \in Callers : pc'[d] \in Looking => pc[d] \in Looking
    PROVE  NothingHotWhileLooking'
<1>1. \A r \in Replicas : Hot(r)' <=> Hot(r)
  BY DEF l1Vars, Hot, Retained
<1> QED BY <1>1, ConstantsAssumption DEF NothingHotWhileLooking

\* An unpurged replica has one lock, so one caller at most is under it.
LEMMA SoleHolder ==
    ASSUME TypeOK, LockHeld, NEW c \in Callers, NEW d \in Callers \ {c},
           Home[d] = Home[c], epoch[Home[c]] = 0, pc[c] \in LockedAwaits
    PROVE  pc[d] \notin LockedAwaits
<1>1. /\ flight[c] \in Nat /\ flight[c] <= 0
      /\ flight[d] \in Nat /\ flight[d] <= 0
  BY DEF TypeOK, LockHeld, Locks
<1>2. flight[c] = 0 /\ flight[d] = 0
  BY <1>1
<1>3. refreshing[Home[c]][0] = c /\ 0 \in Locks
  BY <1>2, ConstantsAssumption DEF LockHeld, Locks
<1> QED BY <1>2, <1>3 DEF LockHeld

\* The holder of a replica's lock may write its L1 when it does not look on.
LEMMA HolderPuts ==
    ASSUME TypeOK, LockHeld, NothingHotWhileLooking,
           NEW c \in Callers, pc[c] \in LockedAwaits,
           NEW e \in Envelope, Put(Home[c], e),
           \A d \in Callers \ {c} : pc'[d] = pc[d], epoch' = epoch,
           pc'[c] \in Looking => ~CurrentFresh(e)
    PROVE  /\ NothingHotWhileLooking'
           /\ l1' \in [Replicas -> Envelope \cup {NoEnvelope}]
           /\ held' \in [Replicas -> Ages]
<1> USE ConstantsAssumption DEF TypeOK, Put
<1>1. \A r \in Replicas \ {Home[c]} : Hot(r)' <=> Hot(r)
  BY DEF Hot, Retained
<1>2. ~CurrentFresh(e) => ~Hot(Home[c])'
  BY DEF Hot, Retained, UsableFresh
<1>3. ASSUME NEW d \in Callers \ {c}, Home[d] = Home[c], epoch[Home[d]] = 0
      PROVE  pc[d] \notin Looking
  BY <1>3, SoleHolder DEF Looking, LockedAwaits
<1>4. NothingHotWhileLooking'
  BY <1>1, <1>2, <1>3 DEF NothingHotWhileLooking
<1> QED BY <1>4, TTLType DEF Ages

\* Dropping an envelope beyond its retention changes nothing for anybody.
LEMMA PopKeeps ==
    ASSUME TypeOK, NEW r \in Replicas, Pop(r)
    PROVE  /\ l1' \in [Replicas -> Envelope \cup {NoEnvelope}]
           /\ held' \in [Replicas -> Ages]
           /\ \A s \in Replicas : Hot(s)' <=> Hot(s)
<1>1. \A s \in Replicas : Retained(s)' = Retained(s) /\ held'[s] = held[s]
  BY DEF TypeOK, Pop, Retained
<1>2. \A s \in Replicas : Hot(s)' <=> Hot(s)
  BY <1>1 DEF Hot, UsableFresh, CurrentFresh, TTL
<1> QED BY <1>2, RetainedType
        DEF TypeOK, Pop, lockVars

\* The lock's owner and TTL do not move, and windows only close.
LEMMA WindowKept ==
    ASSUME WindowWithinLease, lease' = lease, NEW c \in Callers, Moves(c)
    PROVE  WindowWithinLease'
BY DEF WindowWithinLease, Moves

\* A result carries an age, or no good evidence.
LEMMA ResultType ==
    ASSUME NEW c \in Callers, NEW e \in Envelope, Result(c, e)
    PROVE  results' \subseteq Results
BY ConstantsAssumption DEF Result, Results, Offered, Envelope

-----------------------------------------------------------------------------
\* A step without a result leaves none.
LEMMA SilentType == Silent => results' \subseteq Results
BY DEF Silent

\* The look at L1 without the lock keeps the invariant.
LEMMA CallInv == ASSUME Core, NEW c \in Callers, Call(c) PROVE Core'
<1> USE ConstantsAssumption DEF Core, TypeOK
<1> Home[c] \in Replicas
  OBVIOUS
<1>1. Pop(Home[c]) /\ UNCHANGED <<epoch, refreshing, redisVars, last, avail, token,
                                  window>>
  BY DEF Call
<1>2. /\ l1' \in [Replicas -> Envelope \cup {NoEnvelope}]
      /\ held' \in [Replicas -> Ages]
      /\ \A s \in Replicas : Hot(s)' <=> Hot(s)
  BY <1>1, PopKeeps
<1>3. /\ \/ UNCHANGED <<pc, flight>>
         \/ /\ pc' = [pc EXCEPT ![c] = "waiting"]
            /\ flight' = [flight EXCEPT ![c] = epoch[Home[c]]]
      /\ pc[c] = "idle"
  BY DEF Call
<1>4. results' \subseteq Results
  <2>1. CASE Hot(Home[c]) /\ Result(c, l1[Home[c]])
    BY <2>1, HotType, ResultType
  <2>2. CASE Silent
    BY <2>2, SilentType
  <2> QED BY <2>1, <2>2 DEF Call
<1>5. LockHeld'
  <2>1. ASSUME NEW d \in Callers
        PROVE  /\ pc'[d] \in LockedAwaits <=> pc[d] \in LockedAwaits
               /\ pc[d] \in LockedAwaits => flight'[d] = flight[d]
    BY <1>3 DEF LockedAwaits
  <2>2. ASSUME NEW d \in Callers PROVE flight'[d] <= epoch'[Home[d]]
    <3>1. flight[d] <= epoch[Home[d]] /\ epoch[Home[d]] <= epoch[Home[d]]
      BY DEF LockHeld, Locks
    <3>2. flight'[d] = flight[d] \/ flight'[d] = epoch[Home[d]]
      BY <1>3
    <3> QED BY <1>1, <3>1, <3>2
  <2> QED BY <1>1, <2>1, <2>2, LocksStay
<1>6. NothingHotWhileLooking'
  BY <1>1, <1>2, <1>3 DEF NothingHotWhileLooking, Looking
<1>7. WindowWithinLease'
  BY <1>1 DEF WindowWithinLease, redisVars
<1>8. flight' \in [Callers -> Locks] /\ pc' \in [Callers -> Awaits \cup {"idle"}]
  <2>1. epoch[Home[c]] \in Locks
    OBVIOUS
  <2>2. flight' \in [Callers -> Locks]
    BY <1>3, <2>1
  <2> QED BY <1>3, <2>2 DEF Awaits
<1>9. TypeOK'
  BY <1>1, <1>2, <1>4, <1>8 DEF redisVars
<1> QED BY <1>5, <1>6, <1>7, <1>9

\* The look under the lock: it answers, or finds nothing hot.
LEMMA EnterInv == ASSUME Core, NEW c \in Callers, Enter(c) PROVE Core'
<1> USE ConstantsAssumption DEF Core, TypeOK
<1> Home[c] \in Replicas
  OBVIOUS
<1>1. /\ Pop(Home[c]) /\ UNCHANGED redisVars
      /\ pc[c] = "waiting" /\ refreshing[Home[c]][flight[c]] = NoCaller
  BY DEF Enter, LockFree
<1>2. /\ l1' \in [Replicas -> Envelope \cup {NoEnvelope}]
      /\ held' \in [Replicas -> Ages]
      /\ \A s \in Replicas : Hot(s)' <=> Hot(s)
  BY <1>1, PopKeeps
<1>3. CASE HotUnderLock(Home[c]) /\ Result(c, l1[Home[c]]) /\ Leave(c)
  <2>1. results' \subseteq Results
    BY <1>3, HotType, ResultType DEF HotUnderLock
  <2>2. LockHeld'
    BY <1>1, <1>3
       DEF Leave, LockReturned, Forget, LockHeld, LockedAwaits, Locks
  <2>3. NothingHotWhileLooking'
    BY <1>2, <1>3 DEF Leave, Forget, NothingHotWhileLooking, Looking
  <2>4. WindowWithinLease'
    BY <1>1, <1>3 DEF Leave, WindowWithinLease, redisVars
  <2>5. CallTypeOK'
    BY <1>3, ConstantsAssumption DEF Leave, LockReturned, Forget, CallTypeOK, Locks
  <2> QED BY <1>1, <1>2, <2>1, <2>2, <2>3, <2>4, <2>5, SilentType
          DEF CallTypeOK, redisVars, lockVars
<1>4. CASE /\ ~HotUnderLock(Home[c])
           /\ pc' = [pc EXCEPT ![c] = "reading"]
           /\ refreshing' = [refreshing EXCEPT ![Home[c]][flight[c]] = c]
           /\ last' = [last EXCEPT ![c] = Retained(Home[c])]
           /\ UNCHANGED <<lockVars, avail, token, window>> /\ Silent
  <2>1. LockHeld'
    BY <1>1, <1>4 DEF LockHeld, LockedAwaits, lockVars
  <2>2. NothingHotWhileLooking'
    BY <1>2, <1>4 DEF HotUnderLock, lockVars, NothingHotWhileLooking, Looking
  <2>3. WindowWithinLease'
    BY <1>1, <1>4 DEF WindowWithinLease, redisVars
  <2>4. Retained(Home[c]) \in Envelope \cup {NoEnvelope}
    BY RetainedType
  <2>5. CallTypeOK'
    BY <1>4, <2>4 DEF Awaits, LockedAwaits, CallTypeOK, lockVars
  <2> QED BY <1>1, <1>2, <1>4, <2>1, <2>2, <2>3, <2>5, SilentType
          DEF CallTypeOK, redisVars, lockVars
<1> QED BY <1>3, <1>4 DEF Enter

\* The answer of the GET, and its failure.
LEMMA ReadInv ==
    ASSUME Core, NEW c \in Callers, ReadAnswered(c) \/ ReadRaised(c)
    PROVE  Core'
<1> USE ConstantsAssumption DEF Core
<1> /\ pc[c] = "reading" /\ pc[c] \in LockedAwaits /\ pc[c] \in Looking
    /\ UNCHANGED redisVars
  BY DEF ReadAnswered, ReadRaised, LockedAwaits, Looking
<1> "locking" \in LockedAwaits /\ "deciding" \in LockedAwaits
  BY DEF LockedAwaits
<1>1. CASE /\ remote = NoEnvelope
           /\ Proceed(c, "locking")
           /\ UNCHANGED <<l1Vars, last, token, window>> /\ Silent
           /\ avail' = [avail EXCEPT ![c] = TRUE]
  <2>1. /\ pc' \in [Callers -> Awaits \cup {"idle"}] /\ LockHeld'
        /\ UNCHANGED lockVars
        /\ \A d \in Callers \ {c} : pc'[d] = pc[d]
    BY <1>1, ProceedKeeps
  <2>2. NothingHotWhileLooking'
    BY <1>1, <2>1, StillNothingHot DEF lockVars
  <2>3. WindowWithinLease'
    BY <1>1 DEF WindowWithinLease, redisVars
  <2> QED BY <1>1, <2>1, <2>2, <2>3, SilentType
          DEF TypeOK, l1Vars, redisVars, Proceed, lockVars
<1>2. CASE /\ remote # NoEnvelope /\ Put(Home[c], remote)
           /\ CurrentFresh(remote) /\ Result(c, remote) /\ Leave(c)
  <2>1. CallTypeOK' /\ LockHeld' /\ Moves(c) /\ pc'[c] = "idle"
    BY <1>2, LeaveKeeps
  <2>2. /\ NothingHotWhileLooking'
        /\ l1' \in [Replicas -> Envelope \cup {NoEnvelope}]
        /\ held' \in [Replicas -> Ages]
    BY <1>2, <2>1, HolderPuts DEF lockVars, TypeOK, Moves, Looking
  <2>3. results' \subseteq Results
    BY <1>2, ResultType DEF TypeOK
  <2>4. WindowWithinLease'
    BY <2>1, WindowKept DEF redisVars
  <2> QED BY <2>1, <2>2, <2>3, <2>4, SilentType
          DEF TypeOK, CallTypeOK, redisVars, lockVars
<1>3. CASE /\ remote # NoEnvelope /\ Put(Home[c], remote)
           /\ ~CurrentFresh(remote) /\ Proceed(c, "locking")
           /\ last'  = [last EXCEPT ![c] = remote]
           /\ avail' = [avail EXCEPT ![c] = TRUE]
           /\ UNCHANGED <<token, window>> /\ Silent
  <2>1. /\ pc' \in [Callers -> Awaits \cup {"idle"}] /\ LockHeld'
        /\ UNCHANGED lockVars
        /\ \A d \in Callers \ {c} : pc'[d] = pc[d]
    BY <1>3, ProceedKeeps
  <2>2. /\ NothingHotWhileLooking'
        /\ l1' \in [Replicas -> Envelope \cup {NoEnvelope}]
        /\ held' \in [Replicas -> Ages]
    BY <1>3, <2>1, HolderPuts DEF lockVars, TypeOK
  <2>3. WindowWithinLease'
    BY <1>3 DEF WindowWithinLease, redisVars
  <2> QED BY <1>3, <2>1, <2>2, <2>3, SilentType
          DEF TypeOK, redisVars, Proceed, lockVars
<1>4. CASE /\ UNCHANGED l1Vars /\ UsableFresh(last[c])
           /\ Result(c, last[c]) /\ Leave(c)
  <2>1. CallTypeOK' /\ LockHeld' /\ Moves(c) /\ pc'[c] = "idle"
    BY <1>4, LeaveKeeps
  <2>2. NothingHotWhileLooking'
    BY <1>4, <2>1, StillNothingHot DEF Moves, Looking
  <2>3. results' \subseteq Results
    BY <1>4, ResultType DEF UsableFresh, TypeOK
  <2>4. WindowWithinLease'
    BY <2>1, WindowKept DEF redisVars
  <2> QED BY <1>4, <2>1, <2>2, <2>3, <2>4, SilentType
          DEF TypeOK, CallTypeOK, redisVars, l1Vars, lockVars
<1>5. CASE /\ UNCHANGED l1Vars /\ Proceed(c, "deciding")
           /\ UNCHANGED <<last, avail, token, window>> /\ Silent
  <2>1. /\ pc' \in [Callers -> Awaits \cup {"idle"}] /\ LockHeld'
        /\ UNCHANGED lockVars
        /\ \A d \in Callers \ {c} : pc'[d] = pc[d]
    BY <1>5, ProceedKeeps
  <2>2. NothingHotWhileLooking'
    BY <1>5, <2>1, StillNothingHot DEF lockVars
  <2>3. WindowWithinLease'
    BY <1>5 DEF WindowWithinLease, redisVars
  <2> QED BY <1>5, <2>1, <2>2, <2>3, SilentType
          DEF TypeOK, l1Vars, redisVars, Proceed, lockVars
<1> QED BY <1>1, <1>2, <1>3, <1>4, <1>5 DEF ReadAnswered, ReadRaised

\* The refresh lock in Redis, and the wait for a peer that holds it.
LEMMA ContendInv ==
    ASSUME Core, NEW c \in Callers, Contend(c)
    PROVE  Core'
<1> USE ConstantsAssumption DEF Core
<1> pc[c] \in {"locking", "polling"}
  BY DEF Contend, LockGranted, LockRefused, LockRaised, PollFinds,
         PollGivesUp, PollRaised
<1> pc[c] \in LockedAwaits /\ pc[c] \in Looking
  BY DEF LockedAwaits, Looking
<1> "polling" \in LockedAwaits /\ "deciding" \in LockedAwaits
  BY DEF LockedAwaits
<1>1. ASSUME NEW to \in LockedAwaits, Proceed(c, to), UNCHANGED l1Vars
      PROVE  /\ pc' \in [Callers -> Awaits \cup {"idle"}] /\ LockHeld'
             /\ NothingHotWhileLooking'
  <2>1. /\ pc' \in [Callers -> Awaits \cup {"idle"}] /\ LockHeld'
        /\ UNCHANGED lockVars
        /\ \A d \in Callers \ {c} : pc'[d] = pc[d]
    BY <1>1, ProceedKeeps
  <2> QED BY <1>1, <2>1, StillNothingHot DEF lockVars
<1>2. CASE LockGranted(c)
  <2>1. lease' = [owner |-> c, ttl |-> LockTTL] /\ lease.owner = NoCaller
    BY <1>2 DEF LockGranted, TakeLease
  <2>2. \A d \in Callers : window[d] = 0
    BY <2>1 DEF WindowWithinLease, TypeOK
  <2>3. WindowWithinLease'
    BY <1>2, <2>1, <2>2 DEF LockGranted, WindowWithinLease, TypeOK
  <2>4. /\ lease' \in [owner : Callers \cup {NoCaller}, ttl : 0 .. LockTTL]
        /\ window' \in [Callers -> 0 .. LockTTL]
    BY <1>2, <2>1 DEF LockGranted, TypeOK
  <2>5. token' \in [Callers -> BOOLEAN]
    BY <1>2 DEF LockGranted, TypeOK
  <2>6. UNCHANGED l1Vars /\ Proceed(c, "deciding")
    BY <1>2 DEF LockGranted
  <2>7. TypeOK'
    BY <1>1, <1>2, <2>4, <2>5, <2>6, SilentType
       DEF LockGranted, TypeOK, l1Vars, lockVars, Proceed
  <2> QED BY <1>1, <1>2, <2>3, <2>6, <2>7
<1>3. CASE LockRefused(c)
  <2>1. WindowWithinLease'
    BY <1>3 DEF LockRefused, WindowWithinLease, redisVars
  <2> QED BY <1>1, <1>3, <2>1, SilentType
          DEF LockRefused, TypeOK, l1Vars, redisVars, Proceed, lockVars
<1>4. CASE LockRaised(c)
  <2>1. lease' \in [owner : Callers \cup {NoCaller}, ttl : 0 .. LockTTL]
    BY <1>4 DEF LockRaised, TakeLease, TypeOK
  <2>2. \A d \in Callers : window[d] > 0 => lease' = lease
    BY <1>4 DEF LockRaised, TakeLease, WindowWithinLease
  <2>3. WindowWithinLease'
    BY <1>4, <2>2 DEF LockRaised, WindowWithinLease
  <2> QED BY <1>1, <1>4, <2>1, <2>3, SilentType
          DEF LockRaised, TypeOK, l1Vars, Proceed, lockVars
<1>5. CASE PollFinds(c)
  <2>1. CallTypeOK' /\ LockHeld' /\ Moves(c) /\ pc'[c] = "idle"
    BY <1>5, LeaveKeeps DEF PollFinds
  <2>2. /\ NothingHotWhileLooking'
        /\ l1' \in [Replicas -> Envelope \cup {NoEnvelope}]
        /\ held' \in [Replicas -> Ages]
    BY <1>5, <2>1, HolderPuts DEF lockVars, PollFinds, TypeOK, Moves, Looking, UsableFresh
  <2>3. results' \subseteq Results
    BY <1>5, ResultType DEF PollFinds, UsableFresh, TypeOK
  <2>4. WindowWithinLease'
    BY <1>5, <2>1, WindowKept DEF PollFinds, redisVars
  <2> QED BY <1>5, <2>1, <2>2, <2>3, <2>4, SilentType
          DEF PollFinds, TypeOK, CallTypeOK, redisVars, lockVars
<1>6. CASE PollGivesUp(c)
  <2>1. CASE last[c] # NoEnvelope /\ Result(c, last[c]) /\ Leave(c)
    <3>1. CallTypeOK' /\ LockHeld' /\ Moves(c) /\ pc'[c] = "idle"
      BY <2>1, LeaveKeeps
    <3>2. NothingHotWhileLooking'
      BY <1>6, <3>1, StillNothingHot DEF PollGivesUp, Moves, Looking
    <3>3. results' \subseteq Results
      BY <2>1, ResultType DEF TypeOK
    <3>4. WindowWithinLease'
      BY <1>6, <3>1, WindowKept DEF PollGivesUp, redisVars
    <3> QED BY <1>6, <3>1, <3>2, <3>3, <3>4, SilentType
            DEF PollGivesUp, TypeOK, CallTypeOK, redisVars, l1Vars, lockVars
  <2>2. CASE /\ Proceed(c, "deciding")
             /\ UNCHANGED <<last, avail, token, window>> /\ Silent
    <3>1. WindowWithinLease'
      BY <1>6, <2>2 DEF PollGivesUp, WindowWithinLease, redisVars
    <3> QED BY <1>1, <1>6, <2>2, <3>1, SilentType
            DEF PollGivesUp, TypeOK, l1Vars, redisVars, Proceed, lockVars
  <2> QED BY <1>6, <2>1, <2>2 DEF PollGivesUp
<1>7. CASE PollRaised(c)
  <2>1. WindowWithinLease'
    BY <1>7 DEF PollRaised, WindowWithinLease, redisVars
  <2> QED BY <1>1, <1>7, <2>1, SilentType
          DEF PollRaised, TypeOK, l1Vars, redisVars, Proceed, lockVars
<1> QED BY <1>2, <1>3, <1>4, <1>5, <1>6, <1>7 DEF Contend

-----------------------------------------------------------------------------
\* Concluding with L1 and the lock in Redis as they are keeps the invariant.
LEMMA ConcludeInv ==
    ASSUME Core, NEW c \in Callers, Conclude(c), pc[c] \in LockedAwaits,
           UNCHANGED l1Vars, lease' = lease,
           remote' \in Envelope \cup {NoEnvelope},
           results' \subseteq Results
    PROVE  Core'
<1> USE DEF Core
<1>1. /\ CallTypeOK' /\ LockHeld' /\ Moves(c)
      /\ pc'[c] \in {"idle", "unlocking"}
  BY ConcludeKeeps
<1>2. NothingHotWhileLooking'
  BY <1>1, StillNothingHot DEF Moves, Looking
<1>3. WindowWithinLease'
  BY <1>1, WindowKept
<1> QED BY <1>1, <1>2, <1>3, SilentType
        DEF TypeOK, CallTypeOK, l1Vars, lockVars

\* Going on with L1 and Redis as they are keeps the invariant.
LEMMA ProceedInv ==
    ASSUME Core, NEW c \in Callers, NEW to \in LockedAwaits, Proceed(c, to),
           pc[c] \in Looking, UNCHANGED <<l1Vars, redisVars>>,
           UNCHANGED <<last, avail, token, window>>, Silent
    PROVE  Core'
<1> USE DEF Core
<1>1. pc[c] \in LockedAwaits
  BY DEF Looking, LockedAwaits
<1>2. /\ pc' \in [Callers -> Awaits \cup {"idle"}] /\ LockHeld'
      /\ UNCHANGED lockVars
      /\ \A d \in Callers \ {c} : pc'[d] = pc[d]
  BY <1>1, ProceedKeeps
<1>3. NothingHotWhileLooking'
  BY <1>2, StillNothingHot DEF l1Vars, lockVars
<1>4. WindowWithinLease'
  BY DEF WindowWithinLease, redisVars
<1> QED BY <1>2, <1>3, <1>4, SilentType
        DEF TypeOK, l1Vars, redisVars, Proceed, lockVars

\* Serving the last envelope instead of the origin keeps the invariant.
LEMMA SuppressedInv ==
    ASSUME Core, NEW c \in Callers, SuppressedResult(c),
           pc[c] \in LockedAwaits, UNCHANGED <<l1Vars, redisVars>>
    PROVE  Core'
<1>1. last[c] \in Envelope /\ remote \in Envelope \cup {NoEnvelope}
  BY DEF SuppressedResult, Core, TypeOK
<1>2. results' \subseteq Results
  BY <1>1, ResultType DEF SuppressedResult
<1> QED BY <1>1, <1>2, ConcludeInv DEF SuppressedResult, redisVars

\* The admission, the load, the store and the release keep the invariant.
LEMMA RefreshInv ==
    ASSUME Core, WritesEvidence, NEW c \in Callers, Refresh(c)
    PROVE  Core'
<1> USE ConstantsAssumption
<1>0. /\ TypeOK /\ results \subseteq Results
      /\ remote \in Envelope \cup {NoEnvelope}
      /\ last[c] \in Envelope \cup {NoEnvelope}
  BY DEF Core, TypeOK
<1> "admitting" \in LockedAwaits /\ "origin" \in LockedAwaits
    /\ "writing" \in LockedAwaits /\ "deciding" \in LockedAwaits
    /\ "unlocking" \in LockedAwaits
    /\ "deciding" \in Looking /\ "admitting" \in Looking
  BY DEF LockedAwaits, Looking
<1>1. CASE Decide(c)
  <2>0. pc[c] = "deciding" /\ UNCHANGED <<l1Vars, redisVars>>
    BY <1>1 DEF Decide
  <2>1. CASE /\ Proceed(c, "admitting")
             /\ UNCHANGED <<last, avail, token, window>> /\ Silent
    BY <2>0, <2>1, ProceedInv
  <2>2. CASE SuppressedResult(c)
    BY <1>0, <2>0, <2>2, SuppressedInv
  <2> QED BY <1>1, <2>1, <2>2 DEF Decide
<1>2. CASE Admit(c)
  <2>0. pc[c] = "admitting" /\ UNCHANGED <<l1Vars, redisVars>>
    BY <1>2 DEF Admit
  <2>1. CASE /\ Proceed(c, "origin")
             /\ UNCHANGED <<last, avail, token, window>> /\ Silent
    BY <2>0, <2>1, ProceedInv
  <2>2. CASE SuppressedResult(c)
    BY <1>0, <2>0, <2>2, SuppressedInv
  <2> QED BY <1>2, <2>1, <2>2 DEF Admit
<1>3. CASE OriginReturns(c)
  <2>0. pc[c] = "origin" /\ UNCHANGED redisVars
    BY <1>3 DEF OriginReturns
  <2>1. PICK ok \in BOOLEAN :
          /\ Put(Home[c], Observed(last[c], ok))
          /\ \/ /\ Proceed(c, "writing")
                /\ last' = [last EXCEPT ![c] = Observed(last[c], ok)]
                /\ UNCHANGED <<avail, token, window>> /\ Silent
             \/ Result(c, Observed(last[c], ok)) /\ Conclude(c)
    BY <1>3 DEF OriginReturns
  <2>2. Observed(last[c], ok) \in Envelope
    BY <1>0, ObservedType
  <2>3. CASE /\ Proceed(c, "writing")
             /\ last' = [last EXCEPT ![c] = Observed(last[c], ok)]
             /\ UNCHANGED <<avail, token, window>> /\ Silent
    <3>1. /\ pc' \in [Callers -> Awaits \cup {"idle"}] /\ LockHeld'
          /\ UNCHANGED lockVars
          /\ \A d \in Callers \ {c} : pc'[d] = pc[d]
          /\ pc'[c] = "writing"
      BY <1>0, <2>0, <2>3, ProceedKeeps DEF Core
    <3>2. /\ NothingHotWhileLooking'
          /\ l1' \in [Replicas -> Envelope \cup {NoEnvelope}]
          /\ held' \in [Replicas -> Ages]
      BY <2>0, <2>1, <2>2, <3>1, HolderPuts DEF lockVars, Core, Looking
    <3>3. WindowWithinLease'
      BY <2>0, <2>3 DEF Core, WindowWithinLease, redisVars
    <3>4. last' \in [Callers -> Envelope \cup {NoEnvelope}]
      BY <1>0, <2>2, <2>3 DEF TypeOK
    <3> QED BY <1>0, <2>0, <2>3, <3>1, <3>2, <3>3, <3>4, SilentType
            DEF Core, TypeOK, redisVars, Proceed, lockVars
  <2>4. CASE Result(c, Observed(last[c], ok)) /\ Conclude(c)
    <3>1. /\ CallTypeOK' /\ LockHeld' /\ Moves(c)
          /\ pc'[c] \in {"idle", "unlocking"}
      BY <2>0, <2>4, ConcludeKeeps DEF Core
    <3>2. /\ NothingHotWhileLooking'
          /\ l1' \in [Replicas -> Envelope \cup {NoEnvelope}]
          /\ held' \in [Replicas -> Ages]
      BY <2>0, <2>1, <2>2, <3>1, HolderPuts DEF lockVars, Core, Looking, Moves
    <3>3. results' \subseteq Results
      BY <1>0, <2>2, <2>4, ResultType
    <3>4. WindowWithinLease'
      BY <2>0, <3>1, WindowKept DEF Core, redisVars
    <3> QED BY <1>0, <2>0, <3>1, <3>2, <3>3, <3>4, SilentType
            DEF Core, TypeOK, CallTypeOK, redisVars, lockVars
  <2> QED BY <2>1, <2>3, <2>4
<1>4. CASE OriginRaises(c)
  BY <1>0, <1>4, ConcludeInv, SilentType DEF OriginRaises, redisVars
<1>5. CASE Write(c)
  <2>1. results' \subseteq Results
    <3>1. last[c] \in Envelope
      BY <1>0, <1>5 DEF Write, WritesEvidence
    <3> QED BY <1>5, <3>1, ResultType DEF Write
  <2>2. remote' \in Envelope \cup {NoEnvelope}
    BY <1>0, <1>5 DEF Write
  <2> QED BY <1>0, <1>5, <2>1, <2>2, ConcludeInv DEF Write
<1>6. CASE Unlock(c)
  <2>0. pc[c] = "unlocking" /\ Leave(c) /\ UNCHANGED <<l1Vars, remote>> /\ Silent
    BY <1>6 DEF Unlock
  <2>1. CallTypeOK' /\ LockHeld' /\ Moves(c) /\ pc'[c] = "idle"
    BY <2>0, LeaveKeeps DEF Core
  <2>2. NothingHotWhileLooking'
    BY <2>0, <2>1, StillNothingHot DEF Core, Moves, Looking
  <2>3. lease' \in [owner : Callers \cup {NoCaller}, ttl : 0 .. LockTTL]
    BY <1>0, <1>6 DEF Unlock, TypeOK
  <2>4. \A d \in Callers \ {c} : window[d] > 0 => lease' = lease
    BY <1>6 DEF Unlock, TokenMatches, Core, WindowWithinLease
  <2>5. window'[c] = 0 /\ \A d \in Callers \ {c} : window'[d] = window[d]
    BY <1>0, <2>0 DEF Leave, TypeOK
  <2>6. WindowWithinLease'
    BY <2>4, <2>5 DEF Core, WindowWithinLease
  <2> QED BY <1>0, <2>0, <2>1, <2>2, <2>3, <2>6, SilentType
          DEF Core, TypeOK, CallTypeOK, l1Vars, lockVars
<1> QED BY <1>1, <1>2, <1>3, <1>4, <1>5, <1>6 DEF Refresh

\* A cancellation keeps the invariant, at whatever await it strikes.
LEMMA CancelInv ==
    ASSUME Core, NEW c \in Callers, Cancel(c)
    PROVE  Core'
<1> USE ConstantsAssumption
<1>0. /\ TypeOK /\ results \subseteq Results
      /\ remote \in Envelope \cup {NoEnvelope}
      /\ last[c] \in Envelope \cup {NoEnvelope}
  BY DEF Core, TypeOK
<1>1. CASE CancelWaiting(c)
  <2>1. LockHeld'
    <3>1. ASSUME NEW d \in Callers
          PROVE  /\ pc'[d] \in LockedAwaits <=> pc[d] \in LockedAwaits
                 /\ pc[d] \in LockedAwaits => flight'[d] = flight[d]
      BY <1>0, <1>1 DEF CancelWaiting, Forget, LockedAwaits, TypeOK
    <3>2. ASSUME NEW d \in Callers PROVE flight'[d] <= epoch'[Home[d]]
      <4>1. flight[d] <= epoch[Home[d]] /\ 0 <= epoch[Home[d]]
        BY <1>0 DEF Core, LockHeld, TypeOK, Locks
      <4>2. flight'[d] = flight[d] \/ flight'[d] = 0
        BY <1>0, <1>1 DEF CancelWaiting, Forget, TypeOK
      <4>3. epoch' = epoch
        BY <1>1 DEF CancelWaiting, Forget
      <4> QED BY <4>1, <4>2, <4>3
    <3>3. refreshing' = refreshing /\ LockHeld
      BY <1>1 DEF CancelWaiting, Core
    <3> QED BY <3>1, <3>2, <3>3, LocksStay
  <2>2. NothingHotWhileLooking'
    BY <1>0, <1>1, StillNothingHot
       DEF CancelWaiting, Forget, Core, Looking, TypeOK
  <2>3. WindowWithinLease'
    BY <1>1 DEF CancelWaiting, Core, WindowWithinLease, redisVars
  <2> QED BY <1>0, <1>1, <2>1, <2>2, <2>3, SilentType
          DEF CancelWaiting, Forget, Core, TypeOK, l1Vars, redisVars, Locks
<1>2. CASE CancelLookup(c)
  <2>0. /\ pc[c] \in LockedAwaits /\ Leave(c)
        /\ UNCHANGED <<l1Vars, remote>> /\ Silent
    BY <1>2 DEF CancelLookup, LockedAwaits
  <2>1. CallTypeOK' /\ LockHeld' /\ Moves(c) /\ pc'[c] = "idle"
    BY <2>0, LeaveKeeps DEF Core
  <2>2. NothingHotWhileLooking'
    BY <2>0, <2>1, StillNothingHot DEF Core, Moves, Looking
  <2>3. lease' \in [owner : Callers \cup {NoCaller}, ttl : 0 .. LockTTL]
    BY <1>0, <1>2 DEF CancelLookup, TakeLease, TypeOK
  <2>4. \A d \in Callers : window[d] > 0 => lease' = lease
    BY <1>2 DEF CancelLookup, TakeLease, Core, WindowWithinLease
  <2>5. WindowWithinLease'
    BY <2>1, <2>4 DEF Core, WindowWithinLease, Moves
  <2> QED BY <1>0, <2>0, <2>1, <2>2, <2>3, <2>5, SilentType
          DEF Core, TypeOK, CallTypeOK, l1Vars, lockVars
<1>3. CASE CancelRefresh(c)
  <2>1. pc[c] \in LockedAwaits
    BY <1>3 DEF CancelRefresh, LockedAwaits
  <2>2. remote' \in Envelope \cup {NoEnvelope}
    BY <1>0, <1>3 DEF CancelRefresh
  <2> QED BY <1>0, <1>3, <2>1, <2>2, ConcludeInv, SilentType DEF CancelRefresh
<1> QED BY <1>1, <1>2, <1>3 DEF Cancel

\* Time makes nothing hot.
LEMMA TickCools ==
    ASSUME TypeOK, Tick, NEW r \in Replicas, Hot(r)' PROVE Hot(r)
<1> USE TTLType
<1> DEFINE e == l1[r]
<1>1. e \in Envelope \cup {NoEnvelope} /\ held[r] \in Ages
  BY DEF TypeOK
<1>2. l1'[r] = Aged(e) /\ held'[r] = Older(held[r])
  BY DEF Tick
<1>3. Older(held[r]) \in Ages /\ Older(held[r]) >= held[r]
  BY <1>1, OlderType
<1>4. held'[r] < Retention /\ Retained(r)' = Aged(e)
  BY <1>2, <1>3 DEF Hot, Retained, UsableFresh, Ages
<1>5. /\ Aged(e) # NoEnvelope /\ Aged(e).age < TTL(Aged(e))
      /\ held'[r] < Smaller(HotTTL, TTL(Aged(e)))
  BY <1>4 DEF Hot, UsableFresh, CurrentFresh, TTL
<1>6. /\ e \in Envelope /\ e # NoEnvelope
      /\ Aged(e).ok = e.ok /\ Aged(e).age = Older(e.age)
  BY <1>1, <1>5, AgedType
<1>7. e.age \in Ages /\ Older(e.age) \in Ages /\ Older(e.age) >= e.age
  BY <1>6, OlderType DEF Envelope
<1>8. TTL(Aged(e)) = TTL(e) /\ TTL(e) \in Nat
  BY <1>6 DEF TTL
<1>9. e.age < TTL(e) /\ held[r] < Smaller(HotTTL, TTL(e))
  BY <1>1, <1>2, <1>3, <1>5, <1>6, <1>7, <1>8 DEF Ages, Smaller
<1>10. Retained(r) = e
  BY <1>1, <1>2, <1>3, <1>4 DEF Retained, Ages
<1> QED BY <1>6, <1>9, <1>10 DEF Hot, UsableFresh, CurrentFresh

\* Time runs for envelopes, locks and windows alike.
LEMMA TickInv == ASSUME Core, Tick PROVE Core'
<1> USE ConstantsAssumption DEF Core
<1>1. /\ l1' \in [Replicas -> Envelope \cup {NoEnvelope}]
      /\ last' \in [Callers -> Envelope \cup {NoEnvelope}]
      /\ remote' \in Envelope \cup {NoEnvelope}
  BY AgedType DEF Tick, TypeOK
<1>2. held' \in [Replicas -> Ages]
  BY OlderType DEF Tick, TypeOK
<1>3. /\ lease' \in [owner : Callers \cup {NoCaller}, ttl : 0 .. LockTTL]
      /\ window' \in [Callers -> 0 .. LockTTL]
  <2>1. /\ lease \in [owner : Callers \cup {NoCaller}, ttl : 0 .. LockTTL]
        /\ window \in [Callers -> 0 .. LockTTL] /\ LockTTL \in Nat
    BY DEF TypeOK
  <2>2. lease' \in [owner : Callers \cup {NoCaller}, ttl : 0 .. LockTTL]
    BY <2>1 DEF Tick
  <2>3. window' \in [Callers -> 0 .. LockTTL]
    BY <2>1 DEF Tick
  <2> QED BY <2>2, <2>3
<1>4. TypeOK'
  BY <1>1, <1>2, <1>3, SilentType DEF Tick, TypeOK, lockVars
<1>5. LockHeld'
  BY DEF Tick, LockHeld, lockVars
<1>6. NothingHotWhileLooking'
  BY TickCools DEF Tick, NothingHotWhileLooking, lockVars
<1>7. WindowWithinLease'
  <2> SUFFICES ASSUME NEW c \in Callers, window'[c] > 0
               PROVE  lease'.owner = c /\ window'[c] <= lease'.ttl
    BY DEF WindowWithinLease
  <2>1. window[c] > 1 /\ window'[c] = window[c] - 1
    BY DEF Tick, TypeOK
  <2>2. lease.owner = c /\ window[c] <= lease.ttl /\ lease.ttl \in Nat
    BY <2>1 DEF WindowWithinLease, TypeOK
  <2>3. lease' = [lease EXCEPT !.ttl = lease.ttl - 1]
    BY <2>1, <2>2 DEF Tick, TypeOK
  <2> QED BY <2>1, <2>2, <2>3, SilentType
          DEF TypeOK, lockVars
<1> QED BY <1>4, <1>5, <1>6, <1>7

\* A restart empties the replica's L1, lock and calls together.
LEMMA RestartInv ==
    ASSUME Core, NEW r \in Replicas, Restart(r)
    PROVE  Core'
<1> USE ConstantsAssumption DEF Core
<1>1. \A c \in Callers : pc'[c] = IF Home[c] = r THEN "idle" ELSE pc[c]
  BY DEF Restart
<1>2. \A c \in Callers : window'[c] = IF Home[c] = r THEN 0 ELSE window[c]
  BY DEF Restart
<1>3. \A s \in Replicas \ {r} : /\ refreshing'[s] = refreshing[s]
                                /\ epoch'[s] = epoch[s]
                                /\ l1'[s] = l1[s] /\ held'[s] = held[s]
  BY DEF Restart, TypeOK
<1>4. /\ refreshing'[r] = [l \in Locks |-> NoCaller] /\ epoch'[r] = 0
      /\ \A c \in Callers : flight'[c] = IF Home[c] = r THEN 0 ELSE flight[c]
  BY DEF Restart, TypeOK
<1>5. /\ l1' \in [Replicas -> Envelope \cup {NoEnvelope}]
      /\ held' \in [Replicas -> Ages]
      /\ epoch' \in [Replicas -> Locks] /\ flight' \in [Callers -> Locks]
      /\ refreshing' \in [Replicas -> [Locks -> Callers \cup {NoCaller}]]
      /\ pc' \in [Callers -> Awaits \cup {"idle"}]
      /\ last' \in [Callers -> Envelope \cup {NoEnvelope}]
      /\ window' \in [Callers -> 0 .. LockTTL]
  BY TTLType DEF Restart, TypeOK, Ages, Locks
<1>6. /\ avail' \in [Callers -> BOOLEAN] /\ token' \in [Callers -> BOOLEAN]
  BY DEF Restart, TypeOK
<1>7. results' \subseteq Results
  BY SilentType DEF Restart
<1>8. TypeOK'
  BY <1>5, <1>6, <1>7 DEF Restart, TypeOK, redisVars
<1>9. LockHeld'
  <2> SUFFICES ASSUME NEW c \in Callers
               PROVE  /\ flight'[c] <= epoch'[Home[c]]
                      /\ \A l \in Locks :
                            refreshing'[Home[c]][l] = c
                                <=> pc'[c] \in LockedAwaits /\ l = flight'[c]
    BY DEF LockHeld
  <2>1. CASE Home[c] = r
    BY <1>1, <1>4, <2>1 DEF LockedAwaits
  <2>2. CASE Home[c] # r
    BY <1>1, <1>3, <1>4, <2>2 DEF LockHeld
  <2> QED BY <2>1, <2>2
<1>10. NothingHotWhileLooking'
  <2> SUFFICES ASSUME NEW c \in Callers, pc'[c] \in Looking,
                      epoch'[Home[c]] = 0
               PROVE  ~Hot(Home[c])'
    BY DEF NothingHotWhileLooking
  <2>1. Home[c] # r /\ pc[c] \in Looking
    BY <1>1 DEF Looking
  <2>2. Hot(Home[c])' <=> Hot(Home[c])
    BY <1>3, <2>1 DEF Hot, Retained
  <2> QED BY <1>3, <2>1, <2>2 DEF NothingHotWhileLooking
<1>11. WindowWithinLease'
  BY <1>2 DEF Restart, WindowWithinLease, redisVars
<1> QED BY <1>8, <1>9, <1>10, <1>11

\* A purge of a replica leaves the locks it handed out to their callers.
LEMMA PurgeLocalInv ==
    ASSUME Core, NEW r \in Replicas, PurgeLocal(r)
    PROVE  Core'
<1> USE ConstantsAssumption DEF Core, TypeOK
<1>1. epoch' \in [Replicas -> Locks] /\ epoch'[r] = epoch[r] + 1
  BY DEF PurgeLocal, Locks
<1>2. /\ \A s \in Replicas \ {r} : /\ l1'[s] = l1[s] /\ held'[s] = held[s]
                                   /\ epoch'[s] = epoch[s]
      /\ UNCHANGED <<flight, refreshing, redisVars, pc, last, avail, token, window>>
  BY DEF PurgeLocal, Put
<1>3. /\ l1' \in [Replicas -> Envelope \cup {NoEnvelope}]
      /\ held' \in [Replicas -> Ages]
  BY TTLType DEF PurgeLocal, Put, Ages
<1>4. TypeOK'
  BY <1>1, <1>2, <1>3, SilentType DEF PurgeLocal, redisVars
<1>5. LockHeld'
  <2>1. \A s \in Replicas : epoch[s] \in Nat /\ epoch[s] <= epoch'[s]
    <3> SUFFICES ASSUME NEW s \in Replicas
                 PROVE  epoch[s] \in Nat /\ epoch[s] <= epoch'[s]
      OBVIOUS
    <3>1. epoch[s] \in Nat
      BY DEF Locks
    <3>2. epoch'[s] = IF s = r THEN epoch[s] + 1 ELSE epoch[s]
      BY <1>1, <1>2
    <3> QED BY <3>1, <3>2
  <2>2. \A c \in Callers : flight[c] \in Nat /\ flight[c] <= epoch[Home[c]]
    BY DEF LockHeld, Locks
  <2>3. \A c \in Callers : epoch'[Home[c]] \in Nat
    BY <1>1 DEF Locks
  <2> QED BY <1>2, <2>1, <2>2, <2>3, LocksStay
<1>6. NothingHotWhileLooking'
  <2> SUFFICES ASSUME NEW c \in Callers, pc'[c] \in Looking,
                      epoch'[Home[c]] = 0
               PROVE  ~Hot(Home[c])'
    BY DEF NothingHotWhileLooking
  <2>1. Home[c] # r
    BY <1>1 DEF Locks
  <2>2. Hot(Home[c])' <=> Hot(Home[c])
    BY <1>2, <2>1 DEF Hot, Retained
  <2> QED BY <1>2, <2>1, <2>2 DEF NothingHotWhileLooking
<1>7. WindowWithinLease'
  BY <1>2 DEF WindowWithinLease, redisVars
<1> QED BY <1>4, <1>5, <1>6, <1>7

\* A purge in Redis takes the lock and the window together.
LEMMA PurgeRemoteInv == ASSUME Core, PurgeRemote PROVE Core'
<1> USE ConstantsAssumption DEF Core
<1>1. /\ lease' \in [owner : Callers \cup {NoCaller}, ttl : 0 .. LockTTL]
      /\ window' \in [Callers -> 0 .. LockTTL]
  BY DEF PurgeRemote
<1>2. TypeOK'
  BY <1>1, SilentType DEF PurgeRemote, TypeOK, l1Vars, lockVars
<1>3. LockHeld'
  BY DEF PurgeRemote, LockHeld, lockVars
<1>4. NothingHotWhileLooking'
  BY StillNothingHot DEF PurgeRemote, lockVars
<1>5. WindowWithinLease'
  BY DEF PurgeRemote, WindowWithinLease
<1> QED BY <1>2, <1>3, <1>4, <1>5

\* Every action keeps types, locks and windows.
LEMMA CoreStep == ASSUME IInv, [Next]_vars PROVE Core'
<1> USE DEF IInv
<1>1. ASSUME NEW c \in Callers, Call(c) \/ Progress(c) \/ Cancel(c)
      PROVE  Core'
  BY <1>1, CallInv, EnterInv, ReadInv, ContendInv, RefreshInv, CancelInv
     DEF Progress, Lookup
<1>2. CASE \E r \in Replicas : Restart(r) \/ PurgeLocal(r)
  BY <1>2, RestartInv, PurgeLocalInv
<1>3. CASE Tick \/ PurgeRemote
  BY <1>3, TickInv, PurgeRemoteInv
<1>4. CASE RemoteExpires
  <2>1. NothingHotWhileLooking'
    BY <1>4, StillNothingHot DEF RemoteExpires, Core, lockVars
  <2> QED BY <1>4, <2>1, SilentType DEF RemoteExpires, l1Vars, lockVars, Core,
             TypeOK, LockHeld, WindowWithinLease
<1>5. CASE UNCHANGED vars
  <2>1. NothingHotWhileLooking'
    BY <1>5, StillNothingHot DEF vars, l1Vars, Core
  <2> QED BY <1>5, <2>1, SilentType
          DEF vars, Core, TypeOK, LockHeld, WindowWithinLease, lockVars
<1> QED BY <1>1, <1>2, <1>3, <1>4, <1>5 DEF Next

\* A caller moves alone, and writes what it has just observed.
LEMMA CallerAlone ==
    ASSUME TypeOK, NEW c \in Callers, Call(c) \/ Progress(c) \/ Cancel(c)
    PROVE  /\ epoch' = epoch
           /\ \A d \in Callers \ {c} : pc'[d] = pc[d] /\ last'[d] = last[d]
           /\ pc'[c] = "writing" => last'[c] \in Envelope
<1> USE DEF TypeOK
<1>1. ASSUME Leave(c) \/ Conclude(c)
      PROVE  /\ epoch' = epoch
             /\ \A d \in Callers \ {c} : pc'[d] = pc[d] /\ last'[d] = last[d]
             /\ pc'[c] \in {"idle", "unlocking"}
  BY <1>1 DEF Leave, Conclude, Forget, lockVars
<1>2. ASSUME NEW to, Proceed(c, to), to # "writing",
             \/ UNCHANGED last \/ \E e : last' = [last EXCEPT ![c] = e]
      PROVE  /\ epoch' = epoch
             /\ \A d \in Callers \ {c} : pc'[d] = pc[d] /\ last'[d] = last[d]
             /\ pc'[c] # "writing"
  BY <1>2 DEF Proceed, lockVars
<1>3. CASE Call(c) \/ CancelWaiting(c)
  BY <1>3 DEF Call, CancelWaiting, Forget
<1>4. CASE Enter(c)
  BY <1>1, <1>4 DEF Enter, lockVars
<1>5. CASE ReadAnswered(c) \/ ReadRaised(c)
  BY <1>1, <1>2, <1>5 DEF ReadAnswered, ReadRaised
<1>6. CASE Contend(c)
  BY <1>1, <1>2, <1>6 DEF Contend, LockGranted, LockRefused, LockRaised, PollFinds,
     PollGivesUp, PollRaised
<1>7. CASE Decide(c) \/ Admit(c)
  BY <1>1, <1>2, <1>7 DEF Decide, Admit, SuppressedResult
<1>8. CASE OriginReturns(c)
  <2>1. PICK ok \in BOOLEAN :
          \/ /\ Proceed(c, "writing")
             /\ last' = [last EXCEPT ![c] = Observed(last[c], ok)]
          \/ Conclude(c)
    BY <1>8 DEF OriginReturns
  <2>2. Observed(last[c], ok) \in Envelope
    BY ObservedType
  <2> QED BY <1>1, <2>1, <2>2 DEF Proceed, lockVars
<1>9. CASE \/ OriginRaises(c) \/ Write(c) \/ Unlock(c)
           \/ CancelLookup(c) \/ CancelRefresh(c)
  BY <1>1, <1>9 DEF OriginRaises, Write, Unlock, CancelLookup, CancelRefresh
<1> QED BY <1>3, <1>4, <1>5, <1>6, <1>7, <1>8, <1>9
        DEF Progress, Lookup, Refresh, Cancel

\* What is written stays evidence while it ages.
LEMMA WritesEvidenceStep ==
    ASSUME IInv, [Next]_vars PROVE WritesEvidence'
<1> USE DEF IInv, Core
<1>1. ASSUME NEW c \in Callers, Call(c) \/ Progress(c) \/ Cancel(c)
      PROVE  WritesEvidence'
  <2>1. /\ \A d \in Callers \ {c} : pc'[d] = pc[d] /\ last'[d] = last[d]
        /\ pc'[c] = "writing" => last'[c] \in Envelope
    BY <1>1, CallerAlone
  <2> QED BY <2>1, EnvelopeAssumption DEF WritesEvidence
<1>2. CASE Tick
  BY <1>2, AgedType, EnvelopeAssumption DEF Tick, WritesEvidence, TypeOK
<1>3. ASSUME NEW r \in Replicas, Restart(r) PROVE WritesEvidence'
  BY <1>3 DEF Restart, WritesEvidence
<1>4. CASE \/ RemoteExpires \/ PurgeRemote \/ UNCHANGED vars
           \/ \E r \in Replicas : PurgeLocal(r)
  BY <1>4 DEF RemoteExpires, PurgeRemote, PurgeLocal, vars, WritesEvidence
<1> QED BY <1>1, <1>2, <1>3, <1>4 DEF Next

\* The inductive invariant holds of every behaviour.
LEMMA Invariance == Spec => []IInv
<1>1. Init => IInv
  BY InitInv DEF Init, IInv, WritesEvidence
<1>2. IInv /\ [Next]_vars => IInv'
  BY CoreStep, WritesEvidenceStep DEF IInv
<1> QED BY <1>1, <1>2, PTL DEF Spec

\* Every state of the cache is well formed; in particular a successful current
\* observation is always its own last_good.
THEOREM TypeCorrect == Spec => []TypeOK
<1>1. IInv => TypeOK
  BY DEF IInv, Core
<1> QED BY <1>1, Invariance, PTL

\* No load starts or runs while its own replica holds a hot fresh copy: the
\* second look of _cached_lookup under the refresh lock is enough.
THEOREM HotEvidenceSpares == Spec => []HotEvidenceSparesOrigin
<1>1. IInv => HotEvidenceSparesOrigin
  BY DEF IInv, Core, NothingHotWhileLooking, HotEvidenceSparesOrigin, Looking
<1> QED BY <1>1, Invariance, PTL

\* The granted windows of the refresh lock in Redis never overlap, because
\* release_lock deletes the key only for its own token.
THEOREM RefreshLockExclusion == Spec => []RefreshLockExclusive
<1>1. IInv => RefreshLockExclusive
  BY DEF IInv, Core, WindowWithinLease, RefreshLockExclusive
<1> QED BY <1>1, Invariance, PTL

-----------------------------------------------------------------------------
\* The awaits of a caller that works with a copy of the envelope of its replica.
Holding == Looking \cup {"writing"}

\* Under the one lock of an unpurged replica that copy cannot fall behind: it
\* is L1's envelope, unless L1 retains none.
CopyHeld ==
    \A c \in Callers :
        /\ epoch[Home[c]] = 0
        /\ pc[c] \in Holding
        /\ Retained(Home[c]) # NoEnvelope
        => last[c] = l1[Home[c]]

\* A step of c that leaves L1's envelope: the copy is taken from L1, or kept,
\* and a result is of one or the other.
KeepsCopy(c) ==
    /\ Pop(Home[c]) \/ UNCHANGED l1Vars
    /\ pc'[c] \in Holding => \/ last'[c] = Retained(Home[c])
                             \/ pc[c] \in Holding /\ last'[c] = last[c]
    /\ \A result \in results' :
          /\ result.of = Home[c]
          /\ \/ result.good = Offered(l1[Home[c]])
             \/ pc[c] \in Holding /\ result.good = Offered(last[c])

\* A step of c that stores e in L1: what Redis holds, or an observation.
StoresCopy(c, e) ==
    /\ Put(Home[c], e)
    /\ e = remote \/ \E ok \in BOOLEAN : e = Observed(last[c], ok)
    /\ pc'[c] \in Holding => last'[c] = e
    /\ \A result \in results' : result.of = Home[c] /\ result.good = Offered(e)

\* Nothing of c is held, and nothing is said, after it left without a result.
LEMMA LeavesQuietly ==
    ASSUME TypeOK, NEW c \in Callers, Leave(c) \/ Conclude(c)
    PROVE  pc'[c] \notin Holding
BY DEF TypeOK, Leave, Conclude, Holding, Looking

\* Every step of a caller keeps the copy or stores one.
LEMMA CopyEffect ==
    ASSUME TypeOK, NEW c \in Callers, Call(c) \/ Progress(c) \/ Cancel(c)
    PROVE  \/ KeepsCopy(c)
           \/ pc[c] \in Looking /\ \E e \in Envelope : StoresCopy(c, e)
<1> USE DEF TypeOK
<1>1. ASSUME Silent \/ (Result(c, last[c]) /\ pc[c] \in Holding), UNCHANGED l1Vars,
             \/ Leave(c) \/ Conclude(c)
             \/ \E to : /\ Proceed(c, to) /\ last' = last
                        /\ to \in Holding => pc[c] \in Holding
      PROVE  KeepsCopy(c)
  <2>1. pc'[c] \in Holding => pc[c] \in Holding /\ last'[c] = last[c]
    BY <1>1, LeavesQuietly DEF Proceed
  <2> QED BY <1>1, <2>1 DEF KeepsCopy, Silent, Result
<1>2. CASE Call(c) \/ CancelWaiting(c)
  <2>1. pc'[c] \in Holding => pc[c] \in Holding /\ last'[c] = last[c]
    BY <1>2 DEF Call, CancelWaiting, Holding, Looking
  <2> QED BY <1>2, <2>1 DEF Call, CancelWaiting, KeepsCopy, Silent, Result
<1>3. CASE Enter(c)
  <2>1. pc'[c] \in Holding => last'[c] = Retained(Home[c])
    BY <1>3, LeavesQuietly DEF Enter
  <2> QED BY <1>3, <2>1 DEF Enter, KeepsCopy, Silent, Result
<1>4. CASE ReadAnswered(c)
  <2>1. CASE remote = NoEnvelope
    BY <1>1, <1>4, <2>1 DEF ReadAnswered, Holding, Looking
  <2>2. CASE remote # NoEnvelope
    <3>1. remote \in Envelope /\ pc[c] \in Looking
      BY <1>4, <2>2 DEF ReadAnswered, Looking
    <3>2. pc'[c] \in Holding => last'[c] = remote
      BY <1>4, <2>2, LeavesQuietly DEF ReadAnswered
    <3>3. StoresCopy(c, remote)
      BY <1>4, <2>2, <3>2 DEF ReadAnswered, StoresCopy, Silent, Result
    <3> QED BY <3>1, <3>3
  <2> QED BY <2>1, <2>2
<1>5. CASE \/ ReadRaised(c) \/ LockGranted(c) \/ LockRefused(c) \/ LockRaised(c)
           \/ PollGivesUp(c) \/ PollRaised(c)
  <2>1. pc[c] \in Holding
    BY <1>5 DEF ReadRaised, LockGranted, LockRefused, LockRaised, PollGivesUp,
       PollRaised, Holding, Looking
  <2> QED BY <1>1, <1>5, <2>1 DEF ReadRaised, LockGranted, LockRefused,
          LockRaised, PollGivesUp, PollRaised
<1>6. CASE PollFinds(c)
  <2>1. remote \in Envelope /\ pc[c] \in Looking
    BY <1>6 DEF PollFinds, UsableFresh, Looking
  <2>2. StoresCopy(c, remote)
    BY <1>6, LeavesQuietly DEF PollFinds, StoresCopy, Result
  <2> QED BY <2>1, <2>2
<1>7. CASE Decide(c) \/ Admit(c)
  <2>1. pc[c] \in Holding
    BY <1>7 DEF Decide, Admit, Holding, Looking
  <2> QED BY <1>1, <1>7, <2>1 DEF Decide, Admit, SuppressedResult
<1>8. CASE OriginReturns(c)
  <2>1. PICK ok \in BOOLEAN :
          /\ Put(Home[c], Observed(last[c], ok))
          /\ \/ /\ last' = [last EXCEPT ![c] = Observed(last[c], ok)] /\ Silent
             \/ Result(c, Observed(last[c], ok)) /\ Conclude(c)
    BY <1>8 DEF OriginReturns
  <2>2. Observed(last[c], ok) \in Envelope /\ pc[c] \in Looking
    BY <1>8, ObservedType DEF OriginReturns, Looking
  <2>3. pc'[c] \in Holding => last'[c] = Observed(last[c], ok)
    BY <2>1, LeavesQuietly
  <2>4. StoresCopy(c, Observed(last[c], ok))
    BY <2>1, <2>3 DEF StoresCopy, Silent, Result
  <2> QED BY <2>2, <2>4
<1>9. CASE \/ OriginRaises(c) \/ Write(c) \/ Unlock(c)
           \/ CancelLookup(c) \/ CancelRefresh(c)
  <2>1. Write(c) => pc[c] \in Holding
    BY DEF Write, Holding
  <2> QED BY <1>1, <1>9, <2>1 DEF OriginRaises, Write, Unlock, CancelLookup,
          CancelRefresh
<1> QED BY <1>2, <1>3, <1>4, <1>5, <1>6, <1>7, <1>8, <1>9
        DEF Progress, Lookup, Contend, Refresh, Cancel

\* What a replica retains it has in L1, and a pop leaves that there.
LEMMA RetainedStays ==
    ASSUME TypeOK, NEW r \in Replicas, NEW s \in Replicas,
           Pop(s) \/ UNCHANGED l1Vars
    PROVE  /\ Retained(r)' = Retained(r)
           /\ Retained(r) # NoEnvelope => Retained(r) = l1[r] /\ l1'[r] = l1[r]
BY DEF TypeOK, Pop, Retained, l1Vars

\* A step of a caller keeps every copy level with L1.
LEMMA CallerCopies ==
    ASSUME IInv, CopyHeld, NEW c \in Callers, Call(c) \/ Progress(c) \/ Cancel(c)
    PROVE  CopyHeld'
<1> USE ConstantsAssumption DEF IInv, Core
<1>0. /\ epoch' = epoch
      /\ \A d \in Callers \ {c} : pc'[d] = pc[d] /\ last'[d] = last[d]
  BY CallerAlone
<1>1. CASE KeepsCopy(c)
  <2>1. ASSUME NEW d \in Callers
        PROVE  /\ Retained(Home[d])' = Retained(Home[d])
               /\ Retained(Home[d]) # NoEnvelope =>
                     /\ Retained(Home[d]) = l1[Home[d]]
                     /\ l1'[Home[d]] = l1[Home[d]]
    BY <1>1, RetainedStays DEF KeepsCopy
  <2>2. \A d \in Callers : pc'[d] \in Holding =>
            \/ last'[d] = Retained(Home[d])
            \/ pc[d] \in Holding /\ last'[d] = last[d]
    BY <1>0, <1>1 DEF KeepsCopy
  <2> QED BY <1>0, <2>1, <2>2 DEF CopyHeld
<1>2. ASSUME NEW e \in Envelope, StoresCopy(c, e), pc[c] \in Looking
      PROVE  CopyHeld'
  <2> SUFFICES ASSUME NEW d \in Callers, epoch[Home[d]] = 0, pc'[d] \in Holding,
                      Retained(Home[d])' # NoEnvelope
               PROVE  last'[d] = l1'[Home[d]]
    BY <1>0 DEF CopyHeld
  <2>1. CASE d = c
    BY <1>2, <2>1 DEF StoresCopy, Put, TypeOK
  <2>2. CASE d # c
    <3>1. Home[d] # Home[c]
      BY <1>0, <1>2, <2>2, SoleHolder DEF Holding, Looking, LockedAwaits
    <3>2. l1'[Home[d]] = l1[Home[d]] /\ Retained(Home[d])' = Retained(Home[d])
      BY <1>2, <3>1 DEF StoresCopy, Put, TypeOK, Retained
    <3> QED BY <1>0, <2>2, <3>2 DEF CopyHeld
  <2> QED BY <2>1, <2>2
<1> QED BY <1>1, <1>2, CopyEffect

\* What is retained after time passed was retained before.
LEMMA AgedRetained ==
    ASSUME TypeOK, Tick, NEW r \in Replicas, Retained(r)' # NoEnvelope
    PROVE  held[r] < Retention /\ Aged(l1[r]) # NoEnvelope
<1>1. l1'[r] = Aged(l1[r]) /\ held'[r] = Older(held[r])
  BY DEF Tick
<1>2. held[r] \in Ages /\ Older(held[r]) \in Ages /\ Older(held[r]) >= held[r]
  BY OlderType DEF TypeOK
<1> QED BY <1>1, <1>2, TTLType DEF Retained, Ages

\* So do time, restarts and purges.
LEMMA CopyStep == ASSUME IInv, CopyHeld, [Next]_vars PROVE CopyHeld'
<1> USE ConstantsAssumption DEF IInv, Core
<1>1. ASSUME NEW c \in Callers, Call(c) \/ Progress(c) \/ Cancel(c)
      PROVE  CopyHeld'
  BY <1>1, CallerCopies
<1>2. CASE Tick
  <2> SUFFICES ASSUME NEW c \in Callers, epoch[Home[c]] = 0, pc[c] \in Holding,
                      Retained(Home[c])' # NoEnvelope
               PROVE  last'[c] = l1'[Home[c]]
    BY <1>2 DEF CopyHeld, Tick, lockVars
  <2>1. l1'[Home[c]] = Aged(l1[Home[c]]) /\ last'[c] = Aged(last[c])
    BY <1>2 DEF Tick
  <2>2. held[Home[c]] < Retention /\ Aged(l1[Home[c]]) # NoEnvelope
    BY <1>2, <2>1, AgedRetained
  <2>3. Retained(Home[c]) # NoEnvelope
    BY <2>2, TTLType DEF Retained, TypeOK, Ages, Aged
  <2> QED BY <2>1, <2>3 DEF CopyHeld
<1>3. ASSUME NEW r \in Replicas, Restart(r) PROVE CopyHeld'
  <2> SUFFICES ASSUME NEW c \in Callers, epoch'[Home[c]] = 0, pc'[c] \in Holding,
                      Retained(Home[c])' # NoEnvelope
               PROVE  last'[c] = l1'[Home[c]]
    BY DEF CopyHeld
  <2>1. Home[c] # r
    BY <1>3 DEF Restart, Holding, Looking
  <2>2. /\ pc'[c] = pc[c] /\ last'[c] = last[c]
        /\ epoch'[Home[c]] = epoch[Home[c]]
        /\ l1'[Home[c]] = l1[Home[c]] /\ held'[Home[c]] = held[Home[c]]
    BY <1>3, <2>1 DEF Restart, TypeOK
  <2> QED BY <2>2 DEF CopyHeld, Retained
<1>4. ASSUME NEW r \in Replicas, PurgeLocal(r) PROVE CopyHeld'
  <2> SUFFICES ASSUME NEW c \in Callers, epoch'[Home[c]] = 0, pc'[c] \in Holding,
                      Retained(Home[c])' # NoEnvelope
               PROVE  last'[c] = l1'[Home[c]]
    BY DEF CopyHeld
  <2>1. Home[c] # r
    BY <1>4 DEF PurgeLocal, TypeOK, Locks
  <2>2. /\ pc'[c] = pc[c] /\ last'[c] = last[c]
        /\ epoch'[Home[c]] = epoch[Home[c]]
        /\ l1'[Home[c]] = l1[Home[c]] /\ held'[Home[c]] = held[Home[c]]
    BY <1>4, <2>1 DEF PurgeLocal, Put, TypeOK
  <2> QED BY <2>2 DEF CopyHeld, Retained
<1>5. CASE RemoteExpires \/ PurgeRemote \/ UNCHANGED vars
  BY <1>5 DEF RemoteExpires, PurgeRemote, vars, l1Vars, lockVars, CopyHeld, Retained
<1> QED BY <1>1, <1>2, <1>3, <1>4, <1>5 DEF Next

\* The two halves of LastGoodKept: what a step leaves in L1, and what it serves.
LeavesGood(r) ==
    HoldsGood(r) /\ ~Restart(r) =>
        \/ l1'[r] # NoEnvelope /\ l1'[r].good <= Older(l1[r].good)
        \/ ~Hot(r) /\ remote # NoEnvelope /\ l1'[r] = remote
ServesGood(r) ==
    \A result \in results' :
        result.of = r /\ HoldsGood(r)' => result.good <= l1'[r].good

\* Good evidence is a number, which time does not make smaller.
LEMMA GoodGrows ==
    ASSUME NEW e \in Envelope
    PROVE  /\ e # NoEnvelope /\ e.good \in Nat
           /\ e.good <= e.good /\ e.good <= Older(e.good)
BY EnvelopeAssumption, TTLType DEF Envelope, Ages, Older

\* Where L1 stays or ages, its good evidence stays.
LEMMA StayingGood ==
    ASSUME TypeOK, NEW r \in Replicas,
           Retained(r) # NoEnvelope =>
               l1[r] # NoEnvelope /\ l1'[r] \in {l1[r], Aged(l1[r])}
    PROVE  LeavesGood(r)
<1> SUFFICES ASSUME HoldsGood(r)
             PROVE  l1'[r] # NoEnvelope /\ l1'[r].good <= Older(l1[r].good)
  BY DEF LeavesGood
<1>1. l1[r] \in Envelope /\ l1'[r] \in {l1[r], Aged(l1[r])}
  BY DEF HoldsGood, TypeOK
<1>2. CASE l1'[r] = l1[r]
  BY <1>1, <1>2, GoodGrows
<1>3. CASE l1'[r] = Aged(l1[r])
  <2>1. Aged(l1[r]) \in Envelope /\ Aged(l1[r]).good = Older(l1[r].good)
    BY <1>1, AgedType, EnvelopeAssumption DEF Aged, Envelope
  <2>2. Older(l1[r].good) \in Nat
    BY <1>1, GoodGrows DEF Older
  <2> QED BY <1>3, <2>1, <2>2, EnvelopeAssumption
<1> QED BY <1>1, <1>2, <1>3

\* A caller's copy is L1's, so what it stores or serves is as good.
LEMMA CallerGood ==
    ASSUME IInv, CopyHeld, NEW c \in Callers, Call(c) \/ Progress(c) \/ Cancel(c),
           NEW r \in Replicas, epoch'[r] = 0
    PROVE  LeavesGood(r) /\ ServesGood(r)
<1> USE ConstantsAssumption DEF IInv, Core
<1>0. epoch[r] = 0
  BY CallerAlone
<1>1. CASE KeepsCopy(c)
  <2>1. /\ Retained(r)' = Retained(r)
        /\ Retained(r) # NoEnvelope => Retained(r) = l1[r] /\ l1'[r] = l1[r]
    BY <1>1, RetainedStays DEF KeepsCopy
  <2>2. LeavesGood(r)
    BY <2>1, StayingGood
  <2>3. ServesGood(r)
    <3> SUFFICES ASSUME NEW result \in results', result.of = r, HoldsGood(r)'
                 PROVE  result.good <= l1'[r].good
      BY DEF ServesGood
    <3>1. Retained(r) # NoEnvelope /\ Retained(r) = l1[r] /\ l1'[r] = l1[r]
      BY <2>1 DEF HoldsGood
    <3>2. l1[r] \in Envelope /\ ValidLastGood(l1[r])
      BY <2>1, <3>1 DEF HoldsGood, TypeOK
    <3>3. result.good = Offered(l1[r])
      BY <1>0, <1>1, <3>1 DEF KeepsCopy, CopyHeld
    <3> QED BY <3>1, <3>2, <3>3, GoodGrows DEF Offered
  <2> QED BY <2>2, <2>3
<1>2. ASSUME NEW e \in Envelope, StoresCopy(c, e), pc[c] \in Looking,
             Home[c] = r
      PROVE  LeavesGood(r) /\ ServesGood(r)
  <2>1. l1'[r] = e
    BY <1>2 DEF StoresCopy, Put, TypeOK
  <2>2. ASSUME e = remote PROVE LeavesGood(r)
    <3>1. ~Hot(r)
      BY <1>0, <1>2 DEF NothingHotWhileLooking
    <3> QED BY <1>2, <2>1, <2>2, <3>1, EnvelopeAssumption DEF LeavesGood
  <2>3. ServesGood(r)
    <3> SUFFICES ASSUME NEW result \in results', HoldsGood(r)'
                 PROVE  result.good <= l1'[r].good
      BY DEF ServesGood
    <3>1. ValidLastGood(e)
      BY <2>1 DEF HoldsGood, Retained
    <3>2. result.good = e.good
      BY <1>2, <3>1 DEF StoresCopy, Offered
    <3> QED BY <1>2, <2>1, <3>2, GoodGrows
  <2>4. ASSUME NEW ok \in BOOLEAN, e = Observed(last[c], ok)
        PROVE  LeavesGood(r)
    <3> SUFFICES ASSUME HoldsGood(r)
                 PROVE  l1'[r] # NoEnvelope /\ l1'[r].good <= Older(l1[r].good)
      BY DEF LeavesGood
    <3>1. /\ last[c] = l1[r] /\ l1[r] \in Envelope /\ ValidLastGood(l1[r])
      BY <1>0, <1>2 DEF HoldsGood, CopyHeld, Holding, Retained, TypeOK
    <3>2. e.good = 0 \/ e.good = l1[r].good
      BY <2>4, <3>1, EnvelopeAssumption DEF Observed
    <3>3. l1[r].good \in Nat /\ l1[r].good <= Older(l1[r].good)
          /\ Older(l1[r].good) \in Nat
      BY <3>1, GoodGrows DEF Older
    <3> QED BY <1>2, <2>1, <3>2, <3>3, EnvelopeAssumption
  <2> QED BY <1>2, <2>2, <2>3, <2>4 DEF StoresCopy
<1>3. ASSUME NEW e \in Envelope, StoresCopy(c, e), Home[c] # r
      PROVE  LeavesGood(r) /\ ServesGood(r)
  <2>1. l1'[r] = l1[r]
    BY <1>3 DEF StoresCopy, Put, TypeOK
  <2>2. Retained(r) # NoEnvelope => l1[r] # NoEnvelope
    BY DEF Retained
  <2> QED BY <1>3, <2>1, <2>2, StayingGood DEF StoresCopy, ServesGood
<1> QED BY <1>1, <1>2, <1>3, CopyEffect

\* Every step of the cache leaves and serves evidence as good as it found.
LEMMA GoodStep ==
    ASSUME IInv, CopyHeld, Next, NEW r \in Replicas, epoch'[r] = 0
    PROVE  LeavesGood(r) /\ ServesGood(r)
<1> USE DEF IInv, Core
<1>1. ASSUME NEW c \in Callers, Call(c) \/ Progress(c) \/ Cancel(c)
      PROVE  LeavesGood(r) /\ ServesGood(r)
  BY <1>1, CallerGood
<1>2. Retained(r) # NoEnvelope => l1[r] # NoEnvelope
  BY DEF Retained
<1>3. CASE Tick
  <2>1. l1'[r] = Aged(l1[r])
    BY <1>3 DEF Tick
  <2> QED BY <1>2, <1>3, <2>1, StayingGood DEF Tick, Silent, ServesGood
<1>4. CASE RemoteExpires \/ PurgeRemote
  <2>1. l1'[r] = l1[r]
    BY <1>4 DEF RemoteExpires, PurgeRemote, l1Vars
  <2> QED BY <1>2, <1>4, <2>1, StayingGood
          DEF RemoteExpires, PurgeRemote, Silent, ServesGood
<1>5. ASSUME NEW s \in Replicas, Restart(s)
      PROVE  LeavesGood(r) /\ ServesGood(r)
  <2>1. ServesGood(r)
    BY <1>5 DEF Restart, Silent, ServesGood
  <2>2. s # r => l1'[r] = l1[r]
    BY <1>5 DEF Restart, TypeOK
  <2>3. s = r => LeavesGood(r)
    BY <1>5 DEF LeavesGood
  <2> QED BY <1>2, <2>1, <2>2, <2>3, StayingGood
<1>6. ASSUME NEW s \in Replicas, PurgeLocal(s)
      PROVE  LeavesGood(r) /\ ServesGood(r)
  <2>1. s # r
    BY <1>6 DEF PurgeLocal, TypeOK, Locks
  <2>2. l1'[r] = l1[r]
    BY <1>6, <2>1 DEF PurgeLocal, Put, TypeOK
  <2> QED BY <1>2, <1>6, <2>2, StayingGood DEF PurgeLocal, Silent, ServesGood
<1> QED BY <1>1, <1>3, <1>4, <1>5, <1>6 DEF Next

\* An unpurged replica gives up valid last good evidence only for evidence as
\* new, or for what Redis holds once its own is no longer hot, and serves no
\* worse than it retains: whoever refreshes works on a copy that the lock of
\* get_or_refresh_probe keeps level with L1 across every await.
THEOREM LastGoodIsKept == Spec => LastGoodKept
<1>1. Init => CopyHeld
  BY DEF Init, CopyHeld, Holding, Looking
<1>2. Spec => []CopyHeld
  <2>1. IInv /\ CopyHeld /\ [Next]_vars => CopyHeld'
    BY CopyStep
  <2> QED BY <1>1, <2>1, Invariance, PTL DEF Spec
<1>3. IInv /\ CopyHeld /\ [Next]_vars =>
          [\A r \in Replicas : epoch'[r] = 0 =>
              /\ HoldsGood(r) /\ ~Restart(r) =>
                    \/ l1'[r] # NoEnvelope /\ l1'[r].good <= Older(l1[r].good)
                    \/ ~Hot(r) /\ remote # NoEnvelope /\ l1'[r] = remote
              /\ \A result \in results' :
                    result.of = r /\ HoldsGood(r)' =>
                        result.good <= l1'[r].good]_vars
  BY GoodStep DEF LeavesGood, ServesGood
<1> QED BY <1>2, <1>3, Invariance, PTL DEF Spec, LastGoodKept

-----------------------------------------------------------------------------
\* The phase SingleFlight sees of a caller.
Phase == [c \in Callers |->
            IF pc[c] = "idle" THEN "idle"
            ELSE IF pc[c] = "waiting" THEN "asking" ELSE "leading"]

\* The lock the caller was handed is its group.
Groups == Replicas \X Locks
GroupOf == [c \in Callers |-> <<Home[c], flight[c]>>]

\* A caller that leaves is a leaving caller of the single flight.
LEMMA LeaveMaps ==
    ASSUME TypeOK, NEW c \in Callers,
           \A d \in Callers \ {c} : pc'[d] = pc[d],
           pc'[c] = "idle", Forget(c)
    PROVE  \E S \in SUBSET Callers : Flight!Leave(S)
<1>1. Phase' = [d \in Callers |-> IF d \in {c} THEN "idle" ELSE Phase[d]]
  BY DEF Phase
<1>2. /\ GroupOf' \in [Callers -> Groups]
      /\ \A d \in Callers \ {c} : GroupOf'[d] = GroupOf[d]
  <2>1. \A d \in Callers : GroupOf'[d] = <<Home[d], flight'[d]>>
    BY DEF GroupOf
  <2>2. \A d \in Callers : flight'[d] \in Locks /\ Home[d] \in Replicas
    <3>1. flight' \in [Callers -> Locks]
      BY ConstantsAssumption DEF Forget, TypeOK, Locks
    <3> QED BY <3>1, ConstantsAssumption
  <2>3. \A d \in Callers \ {c} : flight'[d] = flight[d]
    BY DEF Forget, TypeOK
  <2>4. GroupOf' \in [Callers -> Groups]
    BY <2>2 DEF GroupOf, Groups
  <2> QED BY <2>3, <2>4 DEF GroupOf
<1> QED BY <1>1, <1>2 DEF Flight!Leave, Phase, GroupOf, Groups

\* What a step of the cache is for SingleFlight: a step of it, or none.
Mapped == Flight!Next \/ UNCHANGED <<Phase, GroupOf>>

\* A step between two awaits under the lock is no step of the single flight.
LEMMA ProceedMaps ==
    ASSUME NEW c \in Callers, \A d \in Callers \ {c} : pc'[d] = pc[d],
           pc[c] \notin {"idle", "waiting"}, pc'[c] \notin {"idle", "waiting"},
           UNCHANGED lockVars
    PROVE  Mapped
<1>1. Phase' = Phase /\ GroupOf' = GroupOf
  BY DEF Phase, GroupOf, lockVars
<1> QED BY <1>1 DEF Mapped

\* Every step of the cache is a step of the single flight, or none.
LEMMA StepMaps == ASSUME IInv, [Next]_vars PROVE Mapped
<1> USE ConstantsAssumption
<1>0. /\ TypeOK /\ pc \in [Callers -> Awaits \cup {"idle"}]
      /\ GroupOf \in [Callers -> Groups]
  BY DEF IInv, Core, TypeOK, GroupOf, Groups
<1>1. ASSUME NEW c \in Callers, Leave(c) PROVE Mapped
  <2>1. \E S \in SUBSET Callers : Flight!Leave(S)
    BY <1>0, <1>1, LeaveMaps DEF Leave
  <2> QED BY <2>1 DEF Mapped, Flight!Next
<1>2. ASSUME NEW c \in Callers, Conclude(c), pc[c] \in LockedAwaits
      PROVE  Mapped
  <2>1. CASE /\ pc' = [pc EXCEPT ![c] = "unlocking"]
             /\ UNCHANGED <<lockVars, refreshing, last, avail, token, window>>
    BY <1>0, <1>2, <2>1, ProceedMaps DEF LockedAwaits
  <2> QED BY <1>1, <1>2, <2>1 DEF Conclude
<1>3. ASSUME NEW c \in Callers, NEW to \in LockedAwaits, Proceed(c, to),
             pc[c] \in LockedAwaits
      PROVE  Mapped
  BY <1>0, <1>3, ProceedMaps DEF Proceed, LockedAwaits, lockVars
<1>4. ASSUME NEW c \in Callers, Call(c) PROVE Mapped
  <2>1. CASE UNCHANGED <<pc, flight>>
    BY <2>1 DEF Phase, GroupOf, Mapped
  <2>2. CASE /\ pc' = [pc EXCEPT ![c] = "waiting"] /\ pc[c] = "idle"
             /\ flight' = [flight EXCEPT ![c] = epoch[Home[c]]]
    <3>1. Phase[c] = "idle" /\ Phase' = [Phase EXCEPT ![c] = "asking"]
      BY <1>0, <2>2 DEF Phase
    <3> DEFINE g == <<Home[c], epoch[Home[c]]>>
    <3>2. g \in Groups
      BY <1>0 DEF Groups, TypeOK
    <3>3. \A d \in Callers : flight'[d] = IF d = c THEN epoch[Home[c]]
                                                   ELSE flight[d]
      BY <1>0, <2>2 DEF TypeOK
    <3>4. GroupOf' = [GroupOf EXCEPT ![c] = g]
      BY <3>3 DEF GroupOf
    <3>5. Flight!Ask(c)
      BY <3>1, <3>2, <3>4 DEF Flight!Ask, Phase, GroupOf, Groups
    <3> QED BY <3>5 DEF Flight!Next, Mapped
  <2> QED BY <1>4, <2>1, <2>2 DEF Call
<1>5. ASSUME NEW c \in Callers, Enter(c) PROVE Mapped
  <2>1. CASE /\ pc' = [pc EXCEPT ![c] = "reading"] /\ UNCHANGED lockVars
    <3>1. pc[c] = "waiting" /\ refreshing[Home[c]][flight[c]] = NoCaller
      BY <1>5 DEF Enter, LockFree
    <3>2. ASSUME NEW d \in Callers, GroupOf[d] = GroupOf[c]
          PROVE  Phase[d] # "leading"
      <4>1. Home[d] = Home[c] /\ flight[d] = flight[c] /\ flight[d] \in Locks
        BY <1>0, <3>2 DEF GroupOf, TypeOK
      <4>2. pc[d] \notin LockedAwaits
        BY <3>1, <4>1 DEF IInv, Core, LockHeld
      <4> QED BY <1>0, <4>2 DEF LockedAwaits, Awaits, Phase
    <3>3. Phase[c] = "asking" /\ Phase' = [Phase EXCEPT ![c] = "leading"]
      BY <1>0, <2>1, <3>1 DEF Phase
    <3>4. GroupOf' = GroupOf
      BY <2>1 DEF GroupOf, lockVars
    <3>5. Flight!Lead(c)
      BY <3>2, <3>3, <3>4 DEF Flight!Lead, Phase, GroupOf
    <3> QED BY <3>5 DEF Flight!Next, Mapped
  <2> QED BY <1>1, <1>5, <2>1 DEF Enter, lockVars
<1>6. ASSUME NEW c \in Callers,
             ReadAnswered(c) \/ ReadRaised(c) \/ Contend(c) \/ Refresh(c)
      PROVE  Mapped
  <2>1. pc[c] \in LockedAwaits
    BY <1>6 DEF LockedAwaits, ReadAnswered, ReadRaised, Contend, LockGranted,
       LockRefused, LockRaised, PollFinds, PollGivesUp, PollRaised, Refresh,
       Decide, Admit, OriginReturns, OriginRaises, Write, Unlock
  <2>2. \/ Leave(c) \/ Conclude(c)
        \/ \E to \in LockedAwaits : Proceed(c, to)
    BY <1>6 DEF LockedAwaits, ReadAnswered, ReadRaised, Contend, LockGranted,
       LockRefused, LockRaised, PollFinds, PollGivesUp, PollRaised, Refresh,
       Decide, Admit, SuppressedResult, OriginReturns, OriginRaises, Write,
       Unlock
  <2> QED BY <1>1, <1>2, <1>3, <2>1, <2>2
<1>7. ASSUME NEW c \in Callers, Cancel(c) PROVE Mapped
  <2>1. CASE CancelWaiting(c)
    <3>1. \E S \in SUBSET Callers : Flight!Leave(S)
      BY <1>0, <2>1, LeaveMaps DEF CancelWaiting
    <3> QED BY <3>1 DEF Flight!Next, Mapped
  <2>2. CASE CancelLookup(c) \/ CancelRefresh(c)
    BY <1>1, <1>2, <2>2 DEF CancelLookup, CancelRefresh, LockedAwaits
  <2> QED BY <1>7, <2>1, <2>2 DEF Cancel
<1>8. ASSUME NEW r \in Replicas, Restart(r) PROVE Mapped
  <2> DEFINE S == {c \in Callers : Home[c] = r}
  <2>1. \A c \in Callers : pc'[c] = IF Home[c] = r THEN "idle" ELSE pc[c]
    BY <1>8 DEF Restart
  <2>2. Phase' = [c \in Callers |-> IF c \in S THEN "idle" ELSE Phase[c]]
    BY <2>1 DEF Phase
  <2>3. \A c \in Callers :
            /\ flight'[c] = IF Home[c] = r THEN 0 ELSE flight[c]
            /\ flight'[c] \in Locks
    BY <1>0, <1>8 DEF Restart, TypeOK, Locks
  <2>4. /\ GroupOf' \in [Callers -> Groups]
        /\ \A c \in Callers \ S : GroupOf'[c] = GroupOf[c]
    BY <2>3 DEF GroupOf, Groups
  <2>5. Flight!Leave(S)
    BY <2>2, <2>4 DEF Flight!Leave, Phase, GroupOf, Groups
  <2> QED BY <2>5 DEF Flight!Next, Mapped
<1>9. CASE \/ Tick \/ RemoteExpires \/ PurgeRemote \/ UNCHANGED vars
           \/ \E r \in Replicas : PurgeLocal(r)
  <2>1. UNCHANGED <<pc, flight>>
    BY <1>9 DEF Tick, RemoteExpires, PurgeRemote, PurgeLocal, vars, lockVars
  <2> QED BY <2>1 DEF Phase, GroupOf, Mapped
<1> QED BY <1>4, <1>5, <1>6, <1>7, <1>8, <1>9 DEF Next, Progress, Lookup

\* Each refresh lock of a replica makes the cache a single flight, whatever
\* Redis does, wherever calls are cancelled and whenever the key is purged:
\* SingleFlight's specification is implemented.
THEOREM SingleFlightImplemented == Spec => ImplementsSingleFlight
<1>1. Init => Flight!Init
  <2> SUFFICES ASSUME Init PROVE Flight!Init
    OBVIOUS
  <2>1. GroupOf \in [Callers -> Groups]
    BY ConstantsAssumption DEF Init, GroupOf, Groups, Locks
  <2> QED BY <2>1 DEF Init, Flight!Init, GroupOf, Groups
<1>2. IInv /\ [Next]_vars => [Flight!Next]_<<Phase, GroupOf>>
  BY StepMaps DEF Mapped
<1> QED BY <1>1, <1>2, Invariance, PTL
        DEF Spec, ImplementsSingleFlight, Flight!Spec, Phase, GroupOf, Groups

=============================================================================
