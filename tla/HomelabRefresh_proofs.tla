----------------------- MODULE HomelabRefresh_proofs -----------------------
(***************************************************************************)
(* Theorems about HomelabRefresh, for any callers, services, permits and   *)
(* number of cancellations and errors.                                     *)
(*                                                                         *)
(* That the rows are settled when they are merged is not inductive: a row  *)
(* is made before its probe is over.  The invariant says what a batch      *)
(* knows at that moment: a row it gave up on is of a probe that has been   *)
(* cancelled and can only end, every other row is of one that has ended.   *)
(***************************************************************************)
EXTENDS HomelabRefresh, FiniteSetTheorems, TLAPS

Probing == {"probing", "reading", "writing"}

RowTells(c, p) ==
    /\ row[c][p] # "none"
    /\ row[c][p] = "deadline" => probe[c][p] \in {"stopping", "leaving", "cancelled"}
    /\ row[c][p] # "deadline" => /\ probe[c][p] \in Ended
                                 /\ row[c][p] = RowOf(probe[c][p])

RowsTell ==
    \A c \in Callers :
        /\ pc[c] \in Probing => \A p \in Services : probe[c][p] # "none"
        /\ pc[c] \in Probing =>
              \A s \in Scopes, p \in Services :
                  p \in Of(s) /\ batch[c][s] \in {"draining", "done"} =>
                      RowTells(c, p) /\ (batch[c][s] = "done" => probe[c][p] \in Ended)
        /\ pc[c] \in {"reading", "writing"} => \A s \in Scopes : batch[c][s] = "done"

IInv == TypeOK /\ FanOutBounded /\ RowsTell

-----------------------------------------------------------------------------
LEMMA Numbers ==
    /\ IsFiniteSet(Services) /\ Public \cap Internal = {}
    /\ MaxConcurrency \in Nat /\ MaxConcurrency > 0 /\ MaxTroubles \in Nat
    /\ NoCaller \notin Callers
<1>1. IsFiniteSet(Public) /\ IsFiniteSet(Internal)
  BY RefreshAssumption DEF RefreshAssumption
<1>2. IsFiniteSet(Services) BY <1>1, FS_Union DEF Services
<1>3. MaxConcurrency \in Nat /\ MaxConcurrency > 0 /\ MaxTroubles \in Nat
  BY RefreshAssumption, SMT DEF RefreshAssumption
<1>4. QED BY <1>2, <1>3, RefreshAssumption DEF RefreshAssumption

LEMMA HoldersFinite ==
    \A c : IsFiniteSet(Holders(c)) /\ Cardinality(Holders(c)) \in Nat
BY Numbers, FS_Subset, FS_CardinalityType DEF Holders

LEMMA TypeFacts ==
    ASSUME TypeOK, NEW c \in Callers
    PROVE  /\ permits[c] \in Nat /\ permits[c] <= MaxConcurrency
           /\ \A p \in Services : probe[c][p] \in Stages
           /\ troubles \in Nat /\ troubles <= MaxTroubles
<1>1. permits[c] \in 0 .. MaxConcurrency /\ troubles \in 0 .. MaxTroubles
  BY DEF TypeOK
<1>2. QED BY <1>1, Numbers, SMT DEF TypeOK

LEMMA TroubleType ==
    ASSUME TypeOK, Trouble \/ UNCHANGED troubles
    PROVE  troubles' \in 0 .. MaxTroubles
<1>1. troubles \in 0 .. MaxTroubles BY DEF TypeOK
<1>2. QED BY <1>1, Numbers, SMT DEF Trouble

LEMMA InitIInv == Init => IInv
<1> SUFFICES ASSUME Init PROVE IInv OBVIOUS
<1>1. TypeOK
  <2>1. MaxConcurrency \in 0 .. MaxConcurrency /\ 0 \in 0 .. MaxTroubles
    BY Numbers, SMT
  <2>2. QED BY <2>1 DEF Init, TypeOK, Stages, Scopes
<1>2. FanOutBounded
  <2> SUFFICES ASSUME NEW c \in Callers
               PROVE  /\ Cardinality(Holders(c)) <= MaxConcurrency
                      /\ permits[c] + Cardinality(Holders(c)) = MaxConcurrency
    BY DEF FanOutBounded
  <2>1. Holders(c) = {} BY DEF Init, Holders, Holding
  <2>2. Cardinality(Holders(c)) = 0 BY <2>1, FS_EmptySet
  <2>3. permits[c] = MaxConcurrency BY DEF Init
  <2>4. QED BY <2>2, <2>3, Numbers, SMT
<1>3. RowsTell BY DEF Init, RowsTell, Probing
<1>4. QED BY <1>1, <1>2, <1>3 DEF IInv

-----------------------------------------------------------------------------
\* One probe goes on; its permit goes with it.
LEMMA ProbeStep ==
    ASSUME IInv, NEW c \in Callers, NEW p \in Services, NEW to \in Stages, NEW n \in Nat,
           probe' = [probe EXCEPT ![c][p] = to],
           permits' = [permits EXCEPT ![c] = n],
           n + (IF to \in Holding THEN 1 ELSE 0)
             = permits[c] + (IF probe[c][p] \in Holding THEN 1 ELSE 0),
           probe[c][p] \notin Ended,
           pc[c] # "idle" => /\ to # "none"
                             /\ probe[c][p] \in {"stopping", "leaving"} => to = "cancelled",
           UNCHANGED <<lock, payload, pc, batch, truenas, row>>,
           Trouble \/ UNCHANGED troubles
    PROVE  IInv'
<1> DEFINE H == Holders(c)  k == Cardinality(H)  m == Cardinality(Holders(c)')
<1>1. /\ TypeOK /\ permits[c] \in Nat /\ k \in Nat /\ IsFiniteSet(H)
      /\ permits[c] + k = MaxConcurrency
  BY TypeFacts, HoldersFinite DEF IInv, FanOutBounded
<1>2. /\ probe'[c][p] = to /\ permits'[c] = n
      /\ \A q \in Services : q # p => probe'[c][q] = probe[c][q]
      /\ \A d \in Callers : d # c => probe'[d] = probe[d] /\ permits'[d] = permits[d]
  BY <1>1 DEF TypeOK
<1>3. n + m = MaxConcurrency /\ m \in Nat
  <2>1. CASE to \in Holding /\ p \notin H
    <3>1. Holders(c)' = H \cup {p} BY <1>2, <2>1 DEF Holders
    <3>2. m = k + 1 BY <1>1, <2>1, <3>1, FS_AddElement
    <3>3. n + 1 = permits[c] BY <1>1, <2>1, SMT DEF Holders
    <3>4. QED BY <1>1, <3>2, <3>3, SMT
  <2>2. CASE to \notin Holding /\ p \in H
    <3>1. Holders(c)' = H \ {p} BY <1>2, <2>2 DEF Holders
    <3>2. m = k - 1 /\ m \in Nat
      BY <1>1, <2>2, <3>1, FS_RemoveElement, FS_CardinalityType
    <3>3. n = permits[c] + 1 BY <1>1, <2>2, SMT DEF Holders
    <3>4. QED BY <1>1, <3>2, <3>3, SMT
  <2>3. CASE to \in Holding <=> p \in H
    <3>1. Holders(c)' = H BY <1>2, <2>3 DEF Holders
    <3>2. n = permits[c] BY <1>1, <2>3, SMT DEF Holders
    <3>3. QED BY <1>1, <3>1, <3>2
  <2>4. QED BY <2>1, <2>2, <2>3
<1>4. FanOutBounded'
  <2> SUFFICES ASSUME NEW d \in Callers
               PROVE  /\ Cardinality(Holders(d)') <= MaxConcurrency
                      /\ permits'[d] + Cardinality(Holders(d)') = MaxConcurrency
    BY DEF FanOutBounded
  <2>1. CASE d = c BY <1>2, <1>3, <2>1, Numbers, SMT
  <2>2. CASE d # c
    <3>1. Holders(d)' = Holders(d) /\ permits'[d] = permits[d]
      BY <1>2, <2>2 DEF Holders
    <3>2. QED BY <3>1 DEF IInv, FanOutBounded
  <2>3. QED BY <2>1, <2>2
<1>5. TypeOK'
  <2>1. n \in 0 .. MaxConcurrency BY <1>3, Numbers, SMT
  <2>2. troubles' \in 0 .. MaxTroubles BY <1>1, TroubleType
  <2>3. QED BY <1>1, <2>1, <2>2 DEF TypeOK
<1>6. RowsTell'
  <2> SUFFICES ASSUME NEW d \in Callers, pc[d] \in Probing
               PROVE  /\ \A q \in Services : probe'[d][q] # "none"
                      /\ \A s \in Scopes, q \in Services :
                            q \in Of(s) /\ batch[d][s] \in {"draining", "done"} =>
                              /\ RowTells(d, q)'
                              /\ batch[d][s] = "done" => probe'[d][q] \in Ended
    BY DEF IInv, RowsTell, Probing
  <2>1. CASE d # c
    <3>1. probe'[d] = probe[d] BY <1>2, <2>1
    <3>2. QED BY <3>1 DEF IInv, RowsTell, RowTells, RowOf
  <2>2. CASE d = c
    <3>1. pc[c] # "idle" BY <2>2 DEF Probing
    <3>2. \A q \in Services : probe'[c][q] # "none"
      BY <1>2, <2>2, <3>1 DEF IInv, RowsTell
    <3>3. ASSUME NEW s \in Scopes, NEW q \in Services, q \in Of(s),
                 batch[c][s] \in {"draining", "done"}
          PROVE  /\ RowTells(c, q)'
                 /\ batch[c][s] = "done" => probe'[c][q] \in Ended
      <4>1. RowTells(c, q) /\ (batch[c][s] = "done" => probe[c][q] \in Ended)
        BY <2>2, <3>3 DEF IInv, RowsTell
      <4>2. CASE q # p BY <1>2, <4>1, <4>2 DEF RowTells, RowOf
      <4>3. CASE q = p
        <5>1. /\ batch[c][s] # "done" /\ row[c][p] = "deadline"
              /\ probe[c][p] \in {"stopping", "leaving"}
          BY <4>1, <4>3 DEF RowTells, Ended
        <5>2. to = "cancelled" BY <3>1, <5>1
        <5>3. QED BY <1>2, <4>3, <5>1, <5>2 DEF RowTells
      <4>4. QED BY <4>2, <4>3
    <3>4. QED BY <2>2, <3>2, <3>3
  <2>3. QED BY <2>1, <2>2
<1>7. QED BY <1>4, <1>5, <1>6 DEF IInv

\* A call is over: what still runs keeps its permit.
LEMMA EndStep ==
    ASSUME IInv, NEW c \in Callers, End(c), Trouble \/ UNCHANGED troubles,
           payload' \in {payload, "fresh"}
    PROVE  IInv'
<1>1. TypeOK BY DEF IInv
<1>2. /\ pc' = [pc EXCEPT ![c] = "idle"] /\ permits' = permits
      /\ \A d \in Callers \ {c} : /\ probe'[d] = probe[d] /\ batch'[d] = batch[d]
                                  /\ row'[d] = row[d]
      /\ \A p \in Services :
            probe'[c][p] = IF p \in Alive(c) THEN probe[c][p] ELSE "none"
  BY <1>1 DEF End, Goto, TypeOK
<1>3. \A d \in Callers : Holders(d)' = Holders(d)
  <2>1. \A p \in Services : probe'[c][p] \in Holding <=> probe[c][p] \in Holding
    BY <1>2 DEF Alive, Holding, Ended
  <2>2. QED BY <1>2, <2>1 DEF Holders
<1>4. FanOutBounded' BY <1>2, <1>3 DEF IInv, FanOutBounded
<1>5. TypeOK'
  <2>1. troubles' \in 0 .. MaxTroubles BY <1>1, TroubleType
  <2>2. probe' \in [Callers -> [Services -> Stages]]
    BY <1>1 DEF End, TypeOK, Stages
  <2>3. batch' \in [Callers -> [Scopes -> Busy \cup {"none", "done", "cancelled"}]]
    BY <1>1 DEF End, TypeOK
  <2>4. /\ truenas' \in [Callers -> {"none", "running", "stopping"} \cup Ended]
        /\ row' \in [Callers -> [Services -> {"none", "observed", "probe_cancelled",
                                              "probe_error", "deadline"}]]
        /\ lock' \in Callers \cup {NoCaller}
        /\ payload' \in {"none", "fresh", "stale"}
        /\ pc' \in [Callers -> {"idle", "waiting", "catalogue", "probing", "reading",
                                "writing", "unwinding"}]
    BY <1>1, <1>2 DEF End, TypeOK
  <2>5. QED BY <1>1, <1>2, <2>1, <2>2, <2>3, <2>4 DEF TypeOK
<1>6. RowsTell'
  <2> SUFFICES ASSUME NEW d \in Callers, pc'[d] \in Probing
               PROVE  /\ \A q \in Services : probe'[d][q] # "none"
                      /\ \A s \in Scopes, q \in Services :
                            q \in Of(s) /\ batch'[d][s] \in {"draining", "done"} =>
                              /\ RowTells(d, q)'
                              /\ batch'[d][s] = "done" => probe'[d][q] \in Ended
                      /\ pc'[d] \in {"reading", "writing"} =>
                            \A s \in Scopes : batch'[d][s] = "done"
    BY DEF RowsTell, Probing
  <2>1. d # c BY <1>1, <1>2 DEF Probing, TypeOK
  <2>2. /\ pc'[d] = pc[d] /\ probe'[d] = probe[d] /\ batch'[d] = batch[d]
        /\ row'[d] = row[d]
    BY <1>1, <1>2, <2>1 DEF TypeOK
  <2>3. QED BY <2>2 DEF IInv, RowsTell, RowTells, RowOf
<1>7. QED BY <1>4, <1>5, <1>6 DEF IInv

-----------------------------------------------------------------------------
LEMMA ProbesStep ==
    ASSUME IInv, NEW c \in Callers, NEW p \in Services,
           \/ Acquire(c, p) \/ Answered(c, p) \/ EdgeAnswered(c, p)
           \/ LetGo(c, p) \/ ChildCancelled(c, p)
    PROVE  IInv'
<1>1. /\ TypeOK /\ permits[c] \in Nat /\ permits[c] + 1 \in Nat
      /\ permits[c] + 1 + 0 = permits[c] + 1 /\ permits[c] + 0 = permits[c] + 0
      /\ permits[c] + 1 = permits[c] + 1
  <2>1. TypeOK BY DEF IInv
  <2>2. permits[c] \in Nat BY <2>1, TypeFacts
  <2>3. QED BY <2>1, <2>2, SMT
<1>2. ASSUME NEW to \in Stages, probe' = [probe EXCEPT ![c][p] = to],
             UNCHANGED permits, to \in Holding <=> probe[c][p] \in Holding,
             probe[c][p] \notin Ended,
             pc[c] # "idle" => /\ to # "none"
                               /\ probe[c][p] \in {"stopping", "leaving"} => to = "cancelled",
             UNCHANGED <<lock, payload, pc, batch, truenas, row>>,
             Trouble \/ UNCHANGED troubles
      PROVE  IInv'
  <2>1. permits' = [permits EXCEPT ![c] = permits[c]] BY <1>1, <1>2 DEF TypeOK
  <2>2. permits[c] + (IF to \in Holding THEN 1 ELSE 0)
          = permits[c] + (IF probe[c][p] \in Holding THEN 1 ELSE 0)
    BY <1>2
  <2>3. QED BY <1>1, <1>2, <2>1, <2>2, ProbeStep
<1>3. ASSUME NEW to \in Stages \ Holding, probe' = [probe EXCEPT ![c][p] = to],
             permits' = [permits EXCEPT ![c] = permits[c] + 1],
             probe[c][p] \in Holding,
             pc[c] # "idle" => /\ to # "none"
                               /\ probe[c][p] \in {"stopping", "leaving"} => to = "cancelled",
             UNCHANGED <<lock, payload, pc, batch, truenas, row>>,
             Trouble \/ UNCHANGED troubles
      PROVE  IInv'
  <2>1. permits[c] + 1 + (IF to \in Holding THEN 1 ELSE 0)
          = permits[c] + (IF probe[c][p] \in Holding THEN 1 ELSE 0)
    BY <1>1, <1>3
  <2>2. probe[c][p] \notin Ended BY <1>3 DEF Holding, Ended
  <2>3. QED BY <1>1, <1>3, <2>1, <2>2, ProbeStep
<1>4. CASE Acquire(c, p)
  <2>1. permits[c] - 1 \in Nat /\ permits[c] - 1 + 1 = permits[c] + 0
    BY <1>1, <1>4, SMT DEF Acquire
  <2>2. /\ "running" \in Stages /\ "running" \in Holding
        /\ probe[c][p] \notin Holding /\ probe[c][p] \notin Ended
        /\ probe[c][p] \notin {"stopping", "leaving"}
    BY <1>4 DEF Acquire, Stages, Holding, Ended
  <2>3. probe' = [probe EXCEPT ![c][p] = "running"] BY <1>1, <1>4 DEF Acquire, TypeOK
  <2>4. permits' = [permits EXCEPT ![c] = permits[c] - 1] BY <1>4 DEF Acquire
  <2>5. permits[c] - 1 + (IF "running" \in Holding THEN 1 ELSE 0)
          = permits[c] + (IF probe[c][p] \in Holding THEN 1 ELSE 0)
    BY <2>1, <2>2
  <2>6. QED BY <1>4, <2>1, <2>2, <2>3, <2>4, <2>5, ProbeStep DEF Acquire
<1>5. CASE Answered(c, p)
  <2>1. PICK to \in {Left(c, "done"), Left(c, "raised"), "edge"} :
           probe' = [probe EXCEPT ![c][p] = to]
    BY <1>5 DEF Answered, SetProbe
  <2>2. to \in Stages \ Holding /\ (pc[c] # "idle" => to # "none")
    BY <2>1 DEF Left, Stages, Holding, Ended
  <2>3. /\ permits' = [permits EXCEPT ![c] = permits[c] + 1]
        /\ probe[c][p] \in Holding /\ probe[c][p] \notin {"stopping", "leaving"}
        /\ UNCHANGED <<lock, payload, pc, batch, truenas, row>>
        /\ Trouble \/ UNCHANGED troubles
    BY <1>5 DEF Answered, Holding
  <2>4. QED BY <1>3, <2>1, <2>2, <2>3
<1>6. CASE EdgeAnswered(c, p)
  <2>1. Left(c, "done") \in Stages /\ Left(c, "done") \notin Holding
    BY DEF Left, Stages, Holding, Ended
  <2>2. /\ probe[c][p] \notin Holding /\ probe[c][p] \notin Ended
        /\ probe[c][p] \notin {"stopping", "leaving"}
    BY <1>6 DEF EdgeAnswered, Holding, Ended
  <2>3. pc[c] # "idle" => Left(c, "done") # "none" BY DEF Left
  <2>4. QED BY <1>2, <1>6, <2>1, <2>2, <2>3 DEF EdgeAnswered, SetProbe
<1>7. CASE LetGo(c, p)
  <2>1. Left(c, "cancelled") \in Stages /\ Left(c, "cancelled") \notin Holding
    BY DEF Left, Stages, Holding, Ended
  <2>2. pc[c] # "idle" => Left(c, "cancelled") = "cancelled" BY DEF Left
  <2>3. CASE probe[c][p] = "stopping"
    <3>1. permits' = [permits EXCEPT ![c] = permits[c] + 1]
      BY <1>7, <2>3 DEF LetGo
    <3>2. probe[c][p] \in Holding BY <2>3 DEF Holding
    <3>3. QED BY <1>3, <1>7, <2>1, <2>2, <3>1, <3>2 DEF LetGo, SetProbe
  <2>4. CASE probe[c][p] = "leaving"
    <3>1. permits' = permits BY <1>1, <1>7, <2>4 DEF LetGo, TypeOK
    <3>2. probe[c][p] \notin Holding /\ probe[c][p] \notin Ended
      BY <2>4 DEF Holding, Ended
    <3>3. QED BY <1>2, <1>7, <2>1, <2>2, <3>1, <3>2 DEF LetGo, SetProbe
  <2>5. QED BY <1>7, <2>3, <2>4 DEF LetGo
<1>8. CASE ChildCancelled(c, p)
  <2> DEFINE to == CASE probe[c][p] = "queued"  -> Left(c, "cancelled")
                     [] probe[c][p] = "running" -> "stopping"
                     [] OTHER                   -> "leaving"
  <2>1. Cancelled(c, {p}) = [probe[c] EXCEPT ![p] = to]
    <3>1. \A q \in Services : Cancelled(c, {p})[q] = IF q = p THEN to ELSE probe[c][q]
      <4>1. probe[c][p] \in {"queued", "running", "edge"} BY <1>8 DEF ChildCancelled
      <4>2. Cancelled(c, {p})[p] = to BY <4>1 DEF Cancelled
      <4>3. \A q \in Services : q # p => Cancelled(c, {p})[q] = probe[c][q]
        BY DEF Cancelled
      <4>4. QED BY <4>2, <4>3
    <3>2. Cancelled(c, {p}) = [q \in Services |-> Cancelled(c, {p})[q]] BY DEF Cancelled
    <3>3. probe[c] = [q \in Services |-> probe[c][q]] BY <1>1 DEF TypeOK
    <3> HIDE DEF to
    <3>4. QED BY <3>1, <3>2, <3>3
  <2>2. probe' = [probe EXCEPT ![c][p] = to]
    BY <1>1, <1>8, <2>1 DEF ChildCancelled, TypeOK
  <2>3. /\ to \in Stages /\ (to \in Holding <=> probe[c][p] \in Holding)
        /\ probe[c][p] \notin Ended /\ probe[c][p] \notin {"stopping", "leaving"}
        /\ to # "none"
    BY <1>8 DEF ChildCancelled, Left, Stages, Holding, Ended
  <2> HIDE DEF to
  <2>4. QED BY <1>2, <1>8, <2>2, <2>3 DEF ChildCancelled
<1>9. QED BY <1>4, <1>5, <1>6, <1>7, <1>8

\* A batch ends: each of its probes has a row, and those still alive are told.
LEMMA CollectStep ==
    ASSUME IInv, NEW c \in Callers, NEW s \in Scopes, Collect(c, s)
    PROVE  IInv'
<1> DEFINE P == Of(s) \cap Alive(c)
<1>1. /\ TypeOK /\ batch[c][s] = "waiting"
      /\ UNCHANGED <<lock, payload, pc, permits, truenas, troubles>>
      /\ probe' = [probe EXCEPT ![c] = Cancelled(c, P)]
  BY DEF IInv, Collect
<1>2. /\ \A d \in Callers : d # c => probe'[d] = probe[d] /\ row'[d] = row[d]
      /\ \A d \in Callers, t \in Scopes :
            d # c \/ t # s => batch'[d][t] = batch[d][t]
      /\ batch'[c][s] = IF P # {} THEN "draining" ELSE Left(c, "done")
      /\ \A q \in Services : row'[c][q] = IF q \notin Of(s) THEN row[c][q]
                                          ELSE Left(c, RowOf(probe[c][q]))
  BY <1>1 DEF Collect, MakeRows, SetBatch, Busy, TypeOK
<1>3. \A q \in Services :
         /\ q \notin P => probe'[c][q] = probe[c][q]
         /\ q \in P => \/ probe[c][q] = "queued" /\ probe'[c][q] = Left(c, "cancelled")
                       \/ probe[c][q] = "running" /\ probe'[c][q] = "stopping"
                       \/ probe[c][q] = "edge" /\ probe'[c][q] = "leaving"
                       \/ /\ probe[c][q] \in {"stopping", "leaving"}
                          /\ probe'[c][q] = probe[c][q]
  <2> SUFFICES ASSUME NEW q \in Services
               PROVE /\ q \notin P => probe'[c][q] = probe[c][q]
                     /\ q \in P =>
                          \/ probe[c][q] = "queued" /\ probe'[c][q] = Left(c, "cancelled")
                          \/ probe[c][q] = "running" /\ probe'[c][q] = "stopping"
                          \/ probe[c][q] = "edge" /\ probe'[c][q] = "leaving"
                          \/ /\ probe[c][q] \in {"stopping", "leaving"}
                             /\ probe'[c][q] = probe[c][q]
    OBVIOUS
  <2>1. probe'[c][q] = Cancelled(c, P)[q] BY <1>1 DEF TypeOK
  <2>2. CASE q \notin P BY <2>1, <2>2 DEF Cancelled
  <2>3. CASE q \in P
    <3>1. probe[c][q] \in {"queued", "running", "edge", "stopping", "leaving"}
      BY <1>1, <2>3, TypeFacts DEF Alive, Stages, Holding, Ended
    <3>2. Cancelled(c, P)[q] = CASE probe[c][q] = "queued"  -> Left(c, "cancelled")
                                 [] probe[c][q] = "running" -> "stopping"
                                 [] probe[c][q] = "edge"    -> "leaving"
                                 [] OTHER                   -> probe[c][q]
      BY <2>3 DEF Cancelled
    <3>3. CASE probe[c][q] = "queued" BY <2>1, <2>3, <3>2, <3>3
    <3>4. CASE probe[c][q] = "running" BY <2>1, <2>3, <3>2, <3>4
    <3>5. CASE probe[c][q] = "edge" BY <2>1, <2>3, <3>2, <3>5
    <3>6. CASE probe[c][q] \in {"stopping", "leaving"} BY <2>1, <2>3, <3>2, <3>6
    <3>7. QED BY <2>3, <3>1, <3>3, <3>4, <3>5, <3>6
  <2>4. QED BY <2>2, <2>3
<1> HIDE DEF P
<1>4. \A d \in Callers : Holders(d)' = Holders(d)
  <2>1. \A q \in Services : probe'[c][q] \in Holding <=> probe[c][q] \in Holding
    BY <1>3 DEF Holding, Left
  <2>2. QED BY <1>2, <2>1 DEF Holders
<1>5. FanOutBounded' BY <1>1, <1>4 DEF IInv, FanOutBounded
<1>6. TypeOK'
  <2>1. \A q \in Services : probe'[c][q] \in Stages
    BY <1>1, <1>3, TypeFacts DEF Left, Stages, Holding, Ended
  <2>2. probe' \in [Callers -> [Services -> Stages]]
    <3>1. Cancelled(c, P) \in [Services -> Stages]
      <4>1. probe'[c] = Cancelled(c, P) BY <1>1 DEF TypeOK
      <4>2. Cancelled(c, P) = [q \in Services |-> Cancelled(c, P)[q]]
        BY DEF Cancelled
      <4>3. QED BY <2>1, <4>1, <4>2
    <3>2. QED BY <1>1, <3>1 DEF TypeOK
  <2>3. batch' \in [Callers -> [Scopes -> Busy \cup {"none", "done", "cancelled"}]]
    BY <1>1 DEF Collect, SetBatch, Left, Busy, TypeOK
  <2>4. row' \in [Callers -> [Services -> {"none", "observed", "probe_cancelled",
                                           "probe_error", "deadline"}]]
    BY <1>1 DEF Collect, MakeRows, RowOf, Left, TypeOK
  <2>5. QED BY <1>1, <2>2, <2>3, <2>4 DEF TypeOK
<1>7. RowsTell'
  <2> SUFFICES ASSUME NEW d \in Callers, pc[d] \in Probing
               PROVE  /\ \A q \in Services : probe'[d][q] # "none"
                      /\ \A t \in Scopes, q \in Services :
                            q \in Of(t) /\ batch'[d][t] \in {"draining", "done"} =>
                              /\ RowTells(d, q)'
                              /\ batch'[d][t] = "done" => probe'[d][q] \in Ended
                      /\ pc[d] \in {"reading", "writing"} =>
                            \A t \in Scopes : batch'[d][t] = "done"
    BY <1>1 DEF RowsTell, Probing
  <2>1. CASE d # c
    <3>1. /\ probe'[d] = probe[d] /\ row'[d] = row[d]
          /\ \A t \in Scopes : batch'[d][t] = batch[d][t]
      BY <1>2, <2>1
    <3>2. QED BY <3>1 DEF IInv, RowsTell, RowTells, RowOf
  <2>2. CASE d = c
    <3>1. pc[c] \notin {"idle", "reading", "writing"}
      BY <1>1, <2>2 DEF Probing, IInv, RowsTell
    <3>2. \A x : Left(c, x) = x BY <3>1 DEF Left
    <3>3. \A q \in Services : probe[c][q] # "none" BY <2>2 DEF IInv, RowsTell
    <3>4. \A q \in Services : probe'[c][q] # "none" BY <1>3, <3>2, <3>3
    <3>5. ASSUME NEW q \in Services, q \in Of(s)
          PROVE  RowTells(c, q)' /\ (batch'[c][s] = "done" => probe'[c][q] \in Ended)
      <4>1. row'[c][q] = RowOf(probe[c][q]) BY <1>2, <3>2, <3>5
      <4>2. CASE q \in P
        <5>1. row'[c][q] = "deadline" /\ probe'[c][q] \in {"stopping", "leaving", "cancelled"}
          BY <1>3, <3>2, <4>1, <4>2 DEF RowOf
        <5>2. batch'[c][s] = "draining" BY <1>2, <4>2
        <5>3. QED BY <5>1, <5>2 DEF RowTells
      <4>3. CASE q \notin P
        <5>1. probe'[c][q] = probe[c][q] /\ probe[c][q] \in Ended
          BY <1>3, <3>3, <3>5, <4>3 DEF P, Alive
        <5>2. row'[c][q] = RowOf(probe'[c][q]) /\ row'[c][q] # "none"
          BY <4>1, <5>1 DEF RowOf, Ended
        <5>3. row'[c][q] # "deadline" BY <4>1, <5>1 DEF RowOf, Ended
        <5>4. QED BY <5>1, <5>2, <5>3 DEF RowTells, RowOf
      <4>4. QED BY <4>2, <4>3
    <3>6. ASSUME NEW t \in Scopes, t # s, NEW q \in Services, q \in Of(t),
                 batch'[c][t] \in {"draining", "done"}
          PROVE  RowTells(c, q)' /\ (batch'[c][t] = "done" => probe'[c][q] \in Ended)
      <4>1. q \notin Of(s) BY <3>6, Numbers DEF Of, Scopes
      <4>2. probe'[c][q] = probe[c][q] /\ row'[c][q] = row[c][q]
        BY <1>2, <1>3, <4>1 DEF P
      <4>3. RowTells(c, q) /\ (batch[c][t] = "done" => probe[c][q] \in Ended)
        BY <1>2, <2>2, <3>6 DEF IInv, RowsTell
      <4>4. QED BY <1>2, <3>6, <4>2, <4>3 DEF RowTells, RowOf
    <3>7. QED BY <2>2, <3>1, <3>4, <3>5, <3>6
  <2>3. QED BY <2>1, <2>2
<1>8. QED BY <1>5, <1>6, <1>7 DEF IInv

-----------------------------------------------------------------------------
\* Steps of calls, batches and TrueNAS that leave probes and permits alone.
LEMMA CalmStep ==
    ASSUME IInv, UNCHANGED <<permits, probe, row>>, TypeOK',
           \A c \in Callers :
              \/ pc'[c] \notin Probing
              \/ /\ pc'[c] \in Probing /\ pc[c] \in Probing
                 /\ \A s \in Scopes :
                       \/ batch'[c][s] = batch[c][s]
                       \/ batch'[c][s] = "cancelled"
                       \/ /\ batch'[c][s] = "done" /\ batch[c][s] = "draining"
                          /\ Of(s) \cap Alive(c) = {}
                 /\ pc'[c] \in {"reading", "writing"} =>
                       \A s \in Scopes : batch'[c][s] = "done"
    PROVE  IInv'
<1>1. FanOutBounded'
  <2>1. \A c \in Callers : Holders(c)' = Holders(c) BY DEF Holders
  <2>2. QED BY <2>1 DEF IInv, FanOutBounded
<1>2. RowsTell'
  <2> SUFFICES ASSUME NEW c \in Callers, pc'[c] \in Probing
               PROVE  /\ \A p \in Services : probe[c][p] # "none"
                      /\ \A s \in Scopes, p \in Services :
                            p \in Of(s) /\ batch'[c][s] \in {"draining", "done"} =>
                              /\ RowTells(c, p)
                              /\ batch'[c][s] = "done" => probe[c][p] \in Ended
    BY DEF RowsTell, RowTells, RowOf, Probing
  <2>1. \A p \in Services : probe[c][p] # "none" BY DEF IInv, RowsTell
  <2>2. ASSUME NEW s \in Scopes, NEW p \in Services, p \in Of(s),
               batch'[c][s] \in {"draining", "done"}
        PROVE  /\ RowTells(c, p)
               /\ batch'[c][s] = "done" => probe[c][p] \in Ended
    <3>1. CASE batch'[c][s] = batch[c][s] BY <2>2, <3>1 DEF IInv, RowsTell
    <3>2. CASE batch[c][s] = "draining" /\ Of(s) \cap Alive(c) = {}
      <4>1. RowTells(c, p) BY <2>2, <3>2 DEF IInv, RowsTell
      <4>2. probe[c][p] \in Ended BY <2>1, <2>2, <3>2 DEF Alive
      <4>3. QED BY <4>1, <4>2
    <3>3. QED BY <2>2, <3>1, <3>2
  <2>3. QED BY <2>1, <2>2
<1>3. QED BY <1>1, <1>2 DEF IInv

LEMMA FanOutStep == ASSUME IInv, NEW c \in Callers, FanOut(c) PROVE IInv'
<1>1. /\ TypeOK /\ pc[c] = "catalogue"
      /\ \A d \in Callers \ {c} :
            /\ probe'[d] = probe[d] /\ permits'[d] = permits[d]
            /\ batch'[d] = batch[d] /\ pc'[d] = pc[d]
      /\ permits'[c] = MaxConcurrency /\ pc'[c] = "probing"
      /\ \A p \in Services : probe'[c][p] = "queued"
      /\ \A s \in Scopes : batch'[c][s] = "waiting"
      /\ UNCHANGED <<lock, payload, row, troubles>>
  BY DEF FanOut, Goto, IInv, TypeOK
<1>2. TypeOK'
  <2>1. MaxConcurrency \in 0 .. MaxConcurrency BY Numbers, SMT
  <2>2. QED BY <1>1, <2>1 DEF FanOut, Goto, TypeOK, Stages, Busy
<1>3. FanOutBounded'
  <2> SUFFICES ASSUME NEW d \in Callers
               PROVE  /\ Cardinality(Holders(d)') <= MaxConcurrency
                      /\ permits'[d] + Cardinality(Holders(d)') = MaxConcurrency
    BY DEF FanOutBounded
  <2>1. CASE d = c
    <3>1. Holders(c)' = {} BY <1>1 DEF Holders, Holding
    <3>2. Cardinality(Holders(c)') = 0 BY <3>1, FS_EmptySet
    <3>3. QED BY <1>1, <2>1, <3>2, Numbers, SMT
  <2>2. CASE d # c
    <3>1. Holders(d)' = Holders(d) BY <1>1, <2>2 DEF Holders
    <3>2. QED BY <1>1, <2>2, <3>1 DEF IInv, FanOutBounded
  <2>3. QED BY <2>1, <2>2
<1>4. RowsTell'
  <2> SUFFICES ASSUME NEW d \in Callers, pc'[d] \in Probing
               PROVE  /\ \A p \in Services : probe'[d][p] # "none"
                      /\ \A s \in Scopes, p \in Services :
                            p \in Of(s) /\ batch'[d][s] \in {"draining", "done"} =>
                              /\ RowTells(d, p)'
                              /\ batch'[d][s] = "done" => probe'[d][p] \in Ended
                      /\ pc'[d] \in {"reading", "writing"} =>
                            \A s \in Scopes : batch'[d][s] = "done"
    BY DEF RowsTell, Probing
  <2>1. CASE d = c BY <1>1, <2>1
  <2>2. CASE d # c BY <1>1, <2>2 DEF IInv, RowsTell, RowTells, RowOf
  <2>3. QED BY <2>1, <2>2
<1>5. QED BY <1>2, <1>3, <1>4 DEF IInv

LEMMA CallsStep ==
    ASSUME IInv, NEW c \in Callers,
           \/ Call(c) \/ Serve(c) \/ Refresh(c) \/ Probed(c) \/ Merge(c)
    PROVE  IInv'
<1>1. TypeOK' /\ UNCHANGED <<permits, probe, row, batch>>
  BY DEF Call, Serve, Refresh, Probed, Merge, Goto, fanout, IInv, TypeOK
<1>2. /\ \A d \in Callers \ {c} : pc'[d] = pc[d]
      /\ pc'[c] \in Probing => /\ pc[c] \in Probing
                               /\ \A s \in Scopes : batch[c][s] = "done"
  BY DEF Call, Serve, Refresh, Probed, Merge, Goto, Probing, IInv, TypeOK, RowsTell
<1>3. QED BY <1>1, <1>2, CalmStep DEF IInv, RowsTell

LEMMA TrueNASStep == ASSUME IInv, NEW c \in Callers, TrueNASEnds(c) PROVE IInv'
<1>1. troubles' \in 0 .. MaxTroubles BY TroubleType DEF IInv, TrueNASEnds
<1>2. TypeOK' /\ UNCHANGED <<permits, probe, row, batch, pc>>
  BY <1>1 DEF TrueNASEnds, Left, Ended, IInv, TypeOK
<1>3. QED BY <1>2, CalmStep DEF IInv, RowsTell

LEMMA DrainedStep ==
    ASSUME IInv, NEW c \in Callers, NEW s \in Scopes, Drained(c, s) PROVE IInv'
<1>1. TypeOK' /\ UNCHANGED <<permits, probe, row, pc>>
  BY DEF Drained, SetBatch, Left, Busy, IInv, TypeOK
<1>2. /\ \A d \in Callers, t \in Scopes :
            d # c \/ t # s => batch'[d][t] = batch[d][t]
      /\ pc[c] \in Probing /\ batch[c][s] = "draining" => batch'[c][s] = "done"
      /\ batch[c][s] \in {"draining", "aborting"} /\ Of(s) \cap Alive(c) = {}
  BY DEF Drained, SetBatch, Left, Busy, Probing, IInv, TypeOK
<1>3. pc[c] \in Probing /\ batch[c][s] = "aborting" => batch'[c][s] = "cancelled"
  BY DEF Drained, SetBatch, Left, Busy, Probing, IInv, TypeOK
<1>4. pc[c] \in {"reading", "writing"} => batch[c][s] = "done"
  BY DEF IInv, RowsTell
<1>5. QED BY <1>1, <1>2, <1>3, <1>4, CalmStep DEF IInv, RowsTell

LEMMA CancelStep == ASSUME IInv, NEW c \in Callers, Cancel(c) PROVE IInv'
<1>1. CASE pc[c] = "probing"
  <2>1. troubles' \in 0 .. MaxTroubles BY TroubleType DEF IInv, Cancel
  <2>2. TypeOK' /\ UNCHANGED <<permits, probe, row>>
    <3> DEFINE told(s) == CASE batch[c][s] = "waiting"  -> "cancelled"
                            [] batch[c][s] = "draining" -> "aborting"
                            [] OTHER                    -> batch[c][s]
    <3>1. TypeOK /\ UNCHANGED <<lock, payload, permits, probe, row>>
      BY <1>1 DEF Cancel, IInv
    <3>2. batch' = [batch EXCEPT ![c] = [s \in Scopes |-> told(s)]]
      BY <1>1 DEF Cancel
    <3>3. \A s \in Scopes : told(s) \in Busy \cup {"none", "done", "cancelled"}
      BY <3>1 DEF Busy, TypeOK
    <3> HIDE DEF told
    <3>4. [s \in Scopes |-> told(s)] \in [Scopes -> Busy \cup {"none", "done", "cancelled"}]
      BY <3>3
    <3>5. batch' \in [Callers -> [Scopes -> Busy \cup {"none", "done", "cancelled"}]]
      BY <3>1, <3>2, <3>4 DEF TypeOK
    <3>6. /\ truenas' \in [Callers -> {"none", "running", "stopping"} \cup Ended]
          /\ pc' \in [Callers -> {"idle", "waiting", "catalogue", "probing", "reading",
                                  "writing", "unwinding"}]
      BY <1>1, <3>1 DEF Cancel, Goto, TypeOK
    <3>7. QED BY <2>1, <3>1, <3>5, <3>6 DEF TypeOK
  <2>3. /\ pc'[c] = "unwinding"
        /\ \A d \in Callers \ {c} : pc'[d] = pc[d] /\ batch'[d] = batch[d]
    BY <1>1 DEF Cancel, Goto, IInv, TypeOK
  <2>4. QED BY <2>2, <2>3, CalmStep DEF IInv, RowsTell, Probing
<1>2. CASE pc[c] # "probing"
  BY <1>2, EndStep DEF Cancel
<1>3. QED BY <1>1, <1>2

LEMMA NextIInv == IInv /\ [Next]_vars => IInv'
<1> SUFFICES ASSUME IInv, [Next]_vars PROVE IInv' OBVIOUS
<1>1. ASSUME NEW c \in Callers, Resume(c) PROVE IInv'
  BY <1>1, FanOutStep, CallsStep, EndStep DEF Resume, GatherRaised, Store, Unwound
<1>2. CASE Expire \/ UNCHANGED vars
  <2>1. TypeOK' /\ UNCHANGED <<permits, probe, row, batch, pc>>
    BY <1>2 DEF Expire, vars, fanout, IInv, TypeOK
  <2>2. QED BY <2>1, CalmStep DEF IInv, RowsTell
<1>3. QED
  BY <1>1, <1>2, CallsStep, CancelStep, TrueNASStep, ProbesStep, CollectStep, DrainedStep
     DEF Next, Enter

LEMMA SettledByIInv == IInv => RowsSettled
<1> SUFFICES ASSUME IInv, NEW c \in Callers, pc[c] \in {"reading", "writing"},
                    NEW p \in Services
             PROVE  /\ row[c][p] # "none" /\ probe[c][p] \in Ended
                    /\ row[c][p] = "deadline" => probe[c][p] = "cancelled"
                    /\ row[c][p] # "deadline" => row[c][p] = RowOf(probe[c][p])
  BY DEF RowsSettled
<1>1. PICK s \in Scopes : p \in Of(s) BY DEF Services, Scopes, Of
<1>2. batch[c][s] = "done" BY DEF IInv, RowsTell
<1>3. RowTells(c, p) /\ probe[c][p] \in Ended
  BY <1>1, <1>2 DEF IInv, RowsTell, Probing
<1>4. QED BY <1>3 DEF RowTells, Ended

LEMMA AlwaysIInv == Spec => []IInv
BY InitIInv, NextIInv, PTL DEF Spec

\* The refresh keeps its types: no permit is given back twice.
THEOREM TypeCorrect == Spec => []TypeOK
<1>1. IInv => TypeOK BY DEF IInv
<1>2. QED BY <1>1, AlwaysIInv, PTL

\* No refresh holds more origins than its semaphore has permits, and no permit
\* is lost, whatever is cancelled, raises or is left behind.
THEOREM FanOutIsBounded == Spec => []FanOutBounded
<1>1. IInv => FanOutBounded BY DEF IInv
<1>2. QED BY <1>1, AlwaysIInv, PTL

\* What is merged into the evidence can no longer be contradicted by a probe.
THEOREM RowsAreSettled == Spec => []RowsSettled
<1>1. QED BY SettledByIInv, AlwaysIInv, PTL

=============================================================================
