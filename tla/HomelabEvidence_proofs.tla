----------------------- MODULE HomelabEvidence_proofs -----------------------
(***************************************************************************)
(* Theorems about HomelabEvidence, for any catalogue, ranks, replicas,     *)
(* budget and retention, about ServiceHealth, for any topology, and about  *)
(* PfSensePosture, for any concurrency, number of refreshes and changes.   *)
(*                                                                         *)
(* That no evidence looks younger than it is, is not inductive: a refresh  *)
(* that has merged its rows still has to share them.  The invariant says   *)
(* what it carries meanwhile: each of its rows was observed, and the       *)
(* checked_at it will share is no later than that observation.  This does  *)
(* not depend on how the services of a refresh are selected.  That the     *)
(* published interval is kept does: the turns of a cycle, taken modulo the *)
(* length of the wheel, meet each of its places.                           *)
(***************************************************************************)
EXTENDS MCHomelabEvidence, FiniteSetTheorems, SequenceTheorems, TLAPS

Entries == Ages \cup {NoEntry}

Kinds ==
    /\ store  \in [Replicas -> [Services -> Entries]]
    /\ remote \in [Services -> Entries]
    /\ last   \in [Services -> Entries]
    /\ pc     \in [Replicas -> {"idle", "reading", "writing"}]
    /\ since  \in [Replicas -> {0, 1}]
    /\ observed = [r \in Replicas |-> observed[r]]

Carries(r) ==
    pc[r] = "writing" =>
        \A s \in Services : s \in observed[r] => NotYounger(since[r], last[s])

IInv == Kinds /\ EvidenceIsOld /\ \A r \in Replicas : Carries(r)

-----------------------------------------------------------------------------
LEMMA Numbers ==
    /\ MaxRetention \in Nat /\ MaxRetention > 1
    /\ NoEntry \notin Nat /\ 0 # NoEntry /\ 1 # NoEntry
    /\ 0 \in Ages /\ 1 \in Ages
<1>1. MaxRetention \in Nat /\ MaxRetention > 1 /\ NoEntry \notin Nat
  BY EvidenceAssumption DEF EvidenceAssumption
<1>2. QED BY <1>1, SMT DEF Ages

\* A window more makes an entry older, and may remove it.
LEMMA OlderAge ==
    ASSUME NEW age \in Entries
    PROVE  /\ Older(age) \in Entries
           /\ Older(age) # NoEntry => /\ age # NoEntry /\ age + 1 < MaxRetention
                                      /\ Older(age) = age + 1
BY Numbers, SMT DEF Older, Entries, Ages

\* Age does not change which of two entries is the older one.
LEMMA OlderKeepsOrder ==
    ASSUME NEW age \in Entries, NEW than \in Entries, NotYounger(age, than)
    PROVE  NotYounger(Older(age), Older(than))
<1> SUFFICES ASSUME Older(age) # NoEntry
             PROVE  Older(than) # NoEntry /\ Older(age) >= Older(than)
  BY DEF NotYounger
<1>1. /\ age # NoEntry /\ age + 1 < MaxRetention /\ Older(age) = age + 1
      /\ than # NoEntry /\ age >= than
  BY OlderAge DEF NotYounger
<1>2. age \in Nat /\ than \in Nat BY <1>1 DEF Entries, Ages
<1>3. Older(than) = than + 1 BY <1>1, <1>2, Numbers, SMT DEF Older
<1>4. than + 1 # NoEntry BY <1>2, Numbers, SMT
<1>5. QED BY <1>1, <1>2, <1>3, <1>4, SMT

\* What a merge makes of an entry is a row of this refresh, the replica's own
\* entry, a younger shared one, or nothing.
LEMMA MergeChoice ==
    ASSUME NEW r \in Replicas, NEW s \in Services, NEW shared
    PROVE  \/ s \in observed[r] /\ Merged(r, shared)[s] = 0
           \/ s \notin observed[r] /\ Merged(r, shared)[s] \in {store[r][s], NoEntry}
           \/ /\ s \notin observed[r] /\ Merged(r, shared)[s] = shared[s]
              /\ Wins(s, shared[s], store[r][s])
<1> DEFINE mine == store[r][s]
           wins == s \in eligible /\ Wins(s, shared[s], mine)
           best == IF wins THEN shared[s] ELSE mine
<1>1. Merged(r, shared)[s] = Overlaid(r, s, IF Kept(s, best) THEN best ELSE NoEntry)
  BY DEF Merged
<1>2. CASE s \in observed[r] BY <1>1, <1>2 DEF Overlaid
<1>3. CASE s \notin observed[r]
  <2>1. Merged(r, shared)[s] \in {best, NoEntry} BY <1>1, <1>3 DEF Overlaid
  <2>2. CASE wins BY <1>3, <2>1, <2>2
  <2>3. CASE ~wins BY <1>3, <2>1, <2>3
  <2>4. QED BY <2>2, <2>3
<1>4. QED BY <1>2, <1>3

LEMMA MergedKinds ==
    ASSUME Kinds, NEW r \in Replicas, NEW shared \in [Services -> Entries]
    PROVE  Merged(r, shared) \in [Services -> Entries]
<1>1. ASSUME NEW s \in Services PROVE Merged(r, shared)[s] \in Entries
  <2>1. /\ shared[s] \in Entries /\ store[r][s] \in Entries
        /\ 0 \in Entries /\ NoEntry \in Entries
    BY Numbers DEF Kinds, Entries
  <2>2. QED BY <2>1, MergeChoice
<1>2. Merged(r, shared) = [s \in Services |-> Merged(r, shared)[s]] BY DEF Merged
<1>3. QED BY <1>1, <1>2

-----------------------------------------------------------------------------
LEMMA InitIInv == Init => IInv
<1> SUFFICES ASSUME Init PROVE IInv OBVIOUS
<1>1. NoEntry \in Entries BY DEF Entries
<1>2. Kinds BY <1>1 DEF Init, Kinds
<1>3. EvidenceIsOld BY DEF Init, EvidenceIsOld, NotYounger
<1>4. \A r \in Replicas : Carries(r) BY DEF Init, Carries
<1>5. QED BY <1>2, <1>3, <1>4 DEF IInv

\* A refresh begins, or is given up: it carries nothing.
LEMMA CarriesNothing ==
    ASSUME IInv, NEW r \in Replicas, NEW to \in {"idle", "reading"}, NEW probed,
           pc' = [pc EXCEPT ![r] = to],
           observed' = [observed EXCEPT ![r] = probed],
           since' = [since EXCEPT ![r] = 0], UNCHANGED last
    PROVE  \A q \in Replicas : Carries(q)'
<1> SUFFICES ASSUME NEW q \in Replicas, pc'[q] = "writing"
             PROVE  \A s \in Services : s \in observed'[q] => NotYounger(since'[q], last'[s])
  BY DEF Carries
<1>1. q # r BY DEF IInv, Kinds
<1>2. observed'[q] = observed[q] /\ since'[q] = since[q] /\ pc'[q] = pc[q]
  BY <1>1 DEF IInv, Kinds
<1>3. QED BY <1>2 DEF IInv, Carries

LEMMA CallKinds ==
    ASSUME Kinds, NEW r \in Replicas, NEW to \in {"idle", "reading", "writing"}, NEW probed,
           pc' = [pc EXCEPT ![r] = to],
           observed' = [observed EXCEPT ![r] = probed],
           since' = [since EXCEPT ![r] = 0]
    PROVE  /\ pc' \in [Replicas -> {"idle", "reading", "writing"}]
           /\ since' \in [Replicas -> {0, 1}]
           /\ observed' = [q \in Replicas |-> observed'[q]]
<1>1. pc' \in [Replicas -> {"idle", "reading", "writing"}] BY DEF Kinds
<1>2. since' \in [Replicas -> {0, 1}] BY DEF Kinds
<1>3. DOMAIN observed = Replicas BY DEF Kinds
<1>4. observed' = [q \in Replicas |-> IF q = r THEN probed ELSE observed[q]]
  BY <1>3
<1>5. QED BY <1>1, <1>2, <1>4

LEMMA ProbePreserves ==
    ASSUME IInv, NEW r \in Replicas, Probe(r) PROVE IInv'
<1>1. PICK probed : observed' = [observed EXCEPT ![r] = probed] BY DEF Probe
<1>2. \A q \in Replicas : Carries(q)' BY <1>1, CarriesNothing DEF Probe, past
<1>3. Kinds' BY <1>1, CallKinds DEF IInv, Kinds, Probe, past
<1>4. EvidenceIsOld' BY DEF IInv, EvidenceIsOld, Probe, past
<1>5. QED BY <1>2, <1>3, <1>4 DEF IInv

LEMMA CancelPreserves ==
    ASSUME IInv, NEW r \in Replicas, Cancel(r) PROVE IInv'
<1>1. \A q \in Replicas : Carries(q)' BY CarriesNothing DEF Cancel, Stopped, past
<1>2. Kinds' BY CallKinds DEF IInv, Kinds, Cancel, Stopped, past
<1>3. EvidenceIsOld' BY DEF IInv, EvidenceIsOld, Cancel, past
<1>4. QED BY <1>1, <1>2, <1>3 DEF IInv

LEMMA RestartPreserves ==
    ASSUME IInv, NEW r \in Replicas, Restart(r) PROVE IInv'
<1>1. \A q \in Replicas : Carries(q)' BY CarriesNothing DEF Restart, Stopped
<1>2. Kinds'
  <2>1. [s \in Services |-> NoEntry] \in [Services -> Entries] BY DEF Entries
  <2>2. store' \in [Replicas -> [Services -> Entries]]
    BY <2>1 DEF IInv, Kinds, Restart
  <2>3. QED BY <2>2, CallKinds DEF IInv, Kinds, Restart, Stopped
<1>3. EvidenceIsOld'
  <2> SUFFICES ASSUME NEW s \in Services
               PROVE  /\ NotYounger(remote'[s], last'[s])
                      /\ \A q \in Replicas : NotYounger(store'[q][s], last'[s])
    BY DEF EvidenceIsOld
  <2>1. NotYounger(remote'[s], last'[s]) BY DEF IInv, EvidenceIsOld, Restart
  <2>2. ASSUME NEW q \in Replicas PROVE NotYounger(store'[q][s], last'[s])
    <3>1. CASE q = r
      <4>1. store'[q][s] = NoEntry BY <3>1 DEF IInv, Kinds, Restart
      <4>2. QED BY <4>1 DEF NotYounger
    <3>2. CASE q # r
      <4>1. store'[q] = store[q] BY <3>2 DEF IInv, Kinds, Restart
      <4>2. QED BY <4>1 DEF IInv, EvidenceIsOld, Restart
    <3>3. QED BY <3>1, <3>2
  <2>3. QED BY <2>1, <2>2
<1>4. QED BY <1>1, <1>2, <1>3 DEF IInv

-----------------------------------------------------------------------------
\* The rows of a refresh are younger than anything known of their services.
LEMMA MergePreserves ==
    ASSUME IInv, NEW r \in Replicas, Merge(r) PROVE IInv'
<1>1. PICK shared \in {remote, [s \in Services |-> NoEntry]} :
          store' = [store EXCEPT ![r] = Merged(r, shared)]
  BY DEF Merge
<1>2. shared \in [Services -> Entries] BY DEF IInv, Kinds, Entries
<1>3. /\ last' = [s \in Services |-> IF s \in observed[r] THEN 0 ELSE last[s]]
      /\ UNCHANGED <<remote, observed, since>>
      /\ pc' = [pc EXCEPT ![r] = "writing"]
  BY DEF Merge
<1>4. Kinds'
  <2>1. Merged(r, shared) \in [Services -> Entries] BY <1>2, MergedKinds DEF IInv
  <2>2. store' \in [Replicas -> [Services -> Entries]] BY <1>1, <2>1 DEF IInv, Kinds
  <2>3. last' \in [Services -> Entries] BY <1>3, Numbers DEF IInv, Kinds, Entries
  <2>4. QED BY <1>3, <2>2, <2>3 DEF IInv, Kinds
<1>5. ASSUME NEW s \in Services, NEW age \in Entries, NotYounger(age, last[s])
      PROVE  NotYounger(age, last'[s])
  <2>1. CASE s \in observed[r]
    <3>1. last'[s] = 0 BY <1>3, <2>1
    <3>2. age # NoEntry => age >= 0 BY SMT DEF Entries, Ages
    <3>3. QED BY <3>1, <3>2, Numbers DEF NotYounger
  <2>2. CASE s \notin observed[r] BY <1>3, <1>5, <2>2
  <2>3. QED BY <2>1, <2>2
<1>6. ASSUME NEW s \in Services, NEW q \in Replicas
      PROVE  NotYounger(store'[q][s], last'[s])
  <2>1. /\ NotYounger(remote[s], last[s]) /\ NotYounger(store[q][s], last[s])
        /\ remote[s] \in Entries /\ store[q][s] \in Entries
    BY DEF IInv, EvidenceIsOld, Kinds
  <2>2. CASE q # r
    <3>1. store'[q] = store[q] BY <1>1, <2>2 DEF IInv, Kinds
    <3>2. QED BY <1>5, <2>1, <3>1
  <2>3. CASE q = r
    <3>1. store'[q][s] = Merged(r, shared)[s] BY <1>1, <2>3 DEF IInv, Kinds
    <3>2. CASE s \in observed[r] /\ Merged(r, shared)[s] = 0
      <4>1. last'[s] = 0 BY <1>3, <3>2
      <4>2. QED BY <3>1, <3>2, <4>1, Numbers, SMT DEF NotYounger
    <3>3. CASE Merged(r, shared)[s] = NoEntry BY <3>1, <3>3 DEF NotYounger
    <3>4. CASE Merged(r, shared)[s] = store[r][s] BY <1>5, <2>1, <2>3, <3>1, <3>4
    <3>5. CASE Merged(r, shared)[s] = remote[s] BY <1>5, <2>1, <3>1, <3>5
    <3>6. shared[s] \in {remote[s], NoEntry} BY <1>1
    <3>7. QED BY <3>2, <3>3, <3>4, <3>5, <3>6, MergeChoice
  <2>4. QED BY <2>2, <2>3
<1>7. EvidenceIsOld'
  <2>1. ASSUME NEW s \in Services PROVE NotYounger(remote'[s], last'[s])
    <3>1. NotYounger(remote[s], last[s]) /\ remote[s] \in Entries
      BY DEF IInv, EvidenceIsOld, Kinds
    <3>2. QED BY <1>3, <1>5, <3>1
  <2>2. QED BY <1>6, <2>1 DEF EvidenceIsOld
<1>8. ASSUME NEW q \in Replicas PROVE Carries(q)'
  <2> SUFFICES ASSUME pc'[q] = "writing", NEW s \in Services, s \in observed[q]
               PROVE  NotYounger(since[q], last'[s])
    BY <1>3 DEF Carries
  <2>1. since[q] \in {0, 1} /\ since[q] \in Entries BY Numbers DEF IInv, Kinds, Entries
  <2>2. CASE q = r
    <3>1. last'[s] = 0 BY <1>3, <2>2
    <3>2. QED BY <2>1, <3>1, Numbers, SMT DEF NotYounger
  <2>3. CASE q # r
    <3>1. pc[q] = "writing" BY <1>3, <2>3 DEF IInv, Kinds
    <3>2. NotYounger(since[q], last[s]) BY <3>1 DEF IInv, Carries
    <3>3. QED BY <1>5, <2>1, <3>2
  <2>4. QED BY <2>2, <2>3
<1>9. QED BY <1>4, <1>7, <1>8 DEF IInv

LEMMA WritePreserves ==
    ASSUME IInv, NEW r \in Replicas, Write(r) PROVE IInv'
<1>1. PICK done \in SUBSET observed[r] :
          remote' = [s \in Services |-> IF s \in done THEN since[r] ELSE remote[s]]
  BY DEF Write
<1>2. \A q \in Replicas : Carries(q)' BY CarriesNothing DEF Write
<1>3. Kinds'
  <2>1. since[r] \in Entries BY Numbers DEF IInv, Kinds, Entries
  <2>2. remote' \in [Services -> Entries] BY <1>1, <2>1 DEF IInv, Kinds
  <2>3. QED BY <2>2, CallKinds DEF IInv, Kinds, Write
<1>4. EvidenceIsOld'
  <2> SUFFICES ASSUME NEW s \in Services
               PROVE  /\ NotYounger(remote'[s], last[s])
                      /\ \A q \in Replicas : NotYounger(store[q][s], last[s])
    BY DEF EvidenceIsOld, Write
  <2>1. CASE s \in done
    <3>1. NotYounger(since[r], last[s])
      BY <1>1, <2>1 DEF IInv, Carries, Write
    <3>2. QED BY <1>1, <2>1, <3>1 DEF IInv, EvidenceIsOld
  <2>2. CASE s \notin done BY <1>1, <2>2 DEF IInv, EvidenceIsOld
  <2>3. QED BY <2>1, <2>2
<1>5. QED BY <1>2, <1>3, <1>4 DEF IInv

LEMMA TickPreserves ==
    ASSUME IInv, Tick PROVE IInv'
<1>1. /\ store'  = [r \in Replicas |-> [s \in Services |-> Older(store[r][s])]]
      /\ remote' = [s \in Services |-> Older(remote[s])]
      /\ last'   = [s \in Services |-> Older(last[s])]
      /\ since'  = [r \in Replicas |-> IF pc[r] = "idle" THEN 0 ELSE 1]
      /\ UNCHANGED <<pc, observed>>
      /\ \A r \in Replicas : since[r] = 0
  BY DEF Tick
<1>2. \A s \in Services : /\ remote[s] \in Entries /\ last[s] \in Entries
                          /\ \A r \in Replicas : store[r][s] \in Entries
  BY DEF IInv, Kinds
<1>3. Kinds' BY <1>1, <1>2, OlderAge DEF IInv, Kinds
<1>4. EvidenceIsOld'
  BY <1>1, <1>2, OlderKeepsOrder DEF IInv, EvidenceIsOld
<1>5. ASSUME NEW r \in Replicas PROVE Carries(r)'
  <2> SUFFICES ASSUME pc[r] = "writing", NEW s \in Services, s \in observed[r]
               PROVE  NotYounger(since'[r], last'[s])
    BY <1>1 DEF Carries
  <2>1. NotYounger(0, last[s]) BY <1>1 DEF IInv, Carries
  <2>2. last[s] = 0 BY <1>2, <2>1, Numbers, SMT DEF NotYounger, Entries, Ages
  <2>3. since'[r] = 1 BY <1>1
  <2>4. last'[s] = Older(0) BY <1>1, <2>2
  <2>5. Older(0) = 1 BY Numbers, SMT DEF Older
  <2>6. QED BY <2>3, <2>4, <2>5, Numbers, SMT DEF NotYounger
<1>6. QED BY <1>3, <1>4, <1>5 DEF IInv

LEMMA IInvInductive == IInv /\ [Next]_vars => IInv'
<1> SUFFICES ASSUME IInv, [Next]_vars PROVE IInv' OBVIOUS
<1>1. ASSUME NEW r \in Replicas, Probe(r) PROVE IInv' BY <1>1, ProbePreserves
<1>2. ASSUME NEW r \in Replicas, Merge(r) PROVE IInv' BY <1>2, MergePreserves
<1>3. ASSUME NEW r \in Replicas, Write(r) PROVE IInv' BY <1>3, WritePreserves
<1>4. ASSUME NEW r \in Replicas, Cancel(r) PROVE IInv' BY <1>4, CancelPreserves
<1>5. ASSUME NEW r \in Replicas, Restart(r) PROVE IInv' BY <1>5, RestartPreserves
<1>6. CASE Recatalogue
  BY <1>6 DEF IInv, Kinds, EvidenceIsOld, Carries, Recatalogue, calls
<1>7. CASE Tick BY <1>7, TickPreserves
<1>8. CASE UNCHANGED vars
  BY <1>8 DEF IInv, Kinds, EvidenceIsOld, Carries, vars
<1>9. QED BY <1>1, <1>2, <1>3, <1>4, <1>5, <1>6, <1>7, <1>8 DEF Next

LEMMA IInvAlways == Spec => []IInv
BY InitIInv, IInvInductive, PTL DEF Spec

\* For any replicas and any catalogue: no entry a replica keeps, and none it
\* shares, looks younger than the last row anyone had from the origin, whatever
\* is late, cancelled, lost, or merged from a copy a peer has written over
\* (merge_probe_evidence, write_public_probe_evidence).
THEOREM EvidenceIsNeverYounger == Spec => []EvidenceIsOld
<1>1. IInv => EvidenceIsOld BY DEF IInv
<1>2. QED BY <1>1, IInvAlways, PTL

-----------------------------------------------------------------------------
Keeps(r, s) == LET old == store[r][s]  new == store'[r][s] IN
               old # NoEntry /\ new # NoEntry => new <= old + 1

LEMMA MergeKeeps ==
    ASSUME Kinds, NEW q \in Replicas, Merge(q), NEW r \in Replicas, NEW s \in Services
    PROVE  Keeps(r, s)
<1> SUFFICES ASSUME store[r][s] # NoEntry, store'[r][s] # NoEntry
             PROVE  store'[r][s] <= store[r][s] + 1
  BY DEF Keeps
<1>1. PICK shared \in {remote, [t \in Services |-> NoEntry]} :
          store' = [store EXCEPT ![q] = Merged(q, shared)]
  BY DEF Merge
<1>2. store[r][s] \in Nat BY DEF Kinds, Entries, Ages
<1>3. CASE r # q
  <2>1. store'[r] = store[r] BY <1>1, <1>3 DEF Kinds
  <2>2. QED BY <1>2, <2>1, SMT
<1>4. CASE r = q
  <2>1. store'[r][s] = Merged(r, shared)[s] BY <1>1, <1>4 DEF Kinds
  <2>2. CASE Merged(r, shared)[s] = 0 BY <1>2, <2>1, <2>2, SMT
  <2>3. CASE Merged(r, shared)[s] = store[r][s] BY <1>2, <2>1, <2>3, SMT
  <2>4. CASE Merged(r, shared)[s] = shared[s] /\ Wins(s, shared[s], store[r][s])
    <3>1. shared[s] # NoEntry BY <2>1, <2>4
    <3>2. shared[s] \in Nat BY <1>1, <3>1 DEF Kinds, Entries, Ages
    <3>3. shared[s] < store[r][s] BY <2>4 DEF Wins
    <3>4. QED BY <1>2, <2>1, <2>4, <3>2, <3>3, SMT
  <2>5. QED BY <2>1, <2>2, <2>3, <2>4, MergeChoice
<1>5. QED BY <1>3, <1>4

\* What is left as it was, or forgotten, goes back to nothing older.
LEMMA SameKeeps ==
    ASSUME Kinds, NEW r \in Replicas, NEW s \in Services,
           store'[r][s] \in {store[r][s], NoEntry}
    PROVE  Keeps(r, s)
<1>1. store[r][s] # NoEntry => store[r][s] \in Nat BY DEF Kinds, Entries, Ages
<1>2. QED BY <1>1, SMT DEF Keeps

LEMMA TickKeeps ==
    ASSUME Kinds, Tick, NEW r \in Replicas, NEW s \in Services
    PROVE  Keeps(r, s)
<1>1. store[r][s] \in Entries /\ store'[r][s] = Older(store[r][s])
  BY DEF Kinds, Tick
<1>2. store'[r][s] # NoEntry => /\ store[r][s] \in Nat
                                /\ store'[r][s] = store[r][s] + 1
  BY <1>1, OlderAge DEF Entries, Ages
<1>3. QED BY <1>2, SMT DEF Keeps

LEMMA StepKeeps ==
    ASSUME Kinds, [Next]_vars, NEW r \in Replicas, NEW s \in Services
    PROVE  Keeps(r, s)
<1>1. CASE Tick BY <1>1, TickKeeps
<1>2. ASSUME NEW q \in Replicas, Merge(q) PROVE Keeps(r, s) BY <1>2, MergeKeeps
<1>3. ASSUME NEW q \in Replicas, Restart(q) PROVE Keeps(r, s)
  <2>1. store'[r][s] \in {store[r][s], NoEntry} BY <1>3 DEF Kinds, Restart
  <2>2. QED BY <2>1, SameKeeps
<1>4. CASE UNCHANGED store BY <1>4, SameKeeps
<1>5. QED
  BY <1>1, <1>2, <1>3, <1>4 DEF Next, Probe, Write, Cancel, Recatalogue, vars, past

\* For any replicas and any catalogue: what a replica shows of a service never
\* goes back to an older observation (the comparison of merge_probe_evidence).
THEOREM NothingOlderIsMerged == Spec => NewestKept
<1>1. IInv /\ [Next]_vars =>
        [\A r \in Replicas, s \in Services :
            LET old == store[r][s]  new == store'[r][s] IN
            old # NoEntry /\ new # NoEntry => new <= old + 1]_vars
  BY StepKeeps DEF IInv, Keeps
<1>2. QED BY <1>1, IInvAlways, PTL DEF Spec, NewestKept

-----------------------------------------------------------------------------
StrictlyOrders(R, S) ==
    /\ \A x \in S : <<x, x>> \notin R
    /\ \A x, y, z \in S : <<x, y>> \in R /\ <<y, z>> \in R => <<x, z>> \in R
    /\ \A x, y \in S : x = y \/ <<x, y>> \in R \/ <<y, x>> \in R

\* In a finite set with a strict order, how many come before it tells a member.
LEMMA OrderNumbers ==
    ASSUME NEW S, IsFiniteSet(S), NEW R, StrictlyOrders(R, S)
    PROVE  LET below(x) == {y \in S : <<y, x>> \in R}
           IN  /\ \A x \in S : Cardinality(below(x)) \in 0 .. Cardinality(S) - 1
               /\ \A x, y \in S : Cardinality(below(x)) = Cardinality(below(y)) => x = y
<1> DEFINE below(x) == {y \in S : <<y, x>> \in R}
<1>1. ASSUME NEW x \in S
      PROVE  /\ IsFiniteSet(below(x)) /\ Cardinality(below(x)) \in Nat
             /\ Cardinality(below(x)) < Cardinality(S)
  <2>1. below(x) \in SUBSET S /\ x \notin below(x) BY DEF StrictlyOrders
  <2>2. IsFiniteSet(below(x)) /\ Cardinality(below(x)) <= Cardinality(S) /\ below(x) # S
        /\ (Cardinality(S) = Cardinality(below(x)) => S = below(x))
    BY <2>1, FS_Subset
  <2>3. Cardinality(below(x)) \in Nat /\ Cardinality(S) \in Nat BY <2>2, FS_CardinalityType
  <2>4. QED BY <2>2, <2>3
<1>2. ASSUME NEW x \in S, NEW y \in S, <<x, y>> \in R
      PROVE  Cardinality(below(x)) # Cardinality(below(y))
  <2>1. below(x) \in SUBSET below(y) BY <1>2 DEF StrictlyOrders
  <2>2. x \in below(y) /\ x \notin below(x) BY <1>2 DEF StrictlyOrders
  <2>3. IsFiniteSet(below(y)) BY <1>1
  <2>4. Cardinality(below(y)) = Cardinality(below(x)) => below(y) = below(x)
    BY <2>1, <2>3, FS_Subset
  <2>5. QED BY <2>2, <2>4
<1>3. ASSUME NEW x \in S, NEW y \in S, Cardinality(below(x)) = Cardinality(below(y))
      PROVE  x = y
  BY <1>2, <1>3 DEF StrictlyOrders
<1>4. Cardinality(S) \in Nat BY FS_CardinalityType
<1>5. ASSUME NEW x \in S PROVE Cardinality(below(x)) \in 0 .. Cardinality(S) - 1
  BY <1>1, <1>4, SMT
<1>6. QED BY <1>3, <1>5

LEMMA ServicesFinite == IsFiniteSet(Services)
<1>1. Len(Catalogue) \in Nat BY SamplingAssumption, LenProperties DEF SamplingAssumption
<1>2. IsFiniteSet(1 .. Len(Catalogue)) BY <1>1, FS_Interval
<1> DEFINE at == [i \in 1 .. Len(Catalogue) |-> Catalogue[i]]
<1>3. at \in Surjection(1 .. Len(Catalogue), Services)
  BY DEF Services, Surjection
<1>4. QED BY <1>2, <1>3, FS_Surjection

\* The order of the catalogue is strict.
LEMMA EarlierOrders ==
    /\ \A s \in Services : ~Earlier(s, s)
    /\ \A s, t, u \in Services : Earlier(s, t) /\ Earlier(t, u) => Earlier(s, u)
    /\ \A s, t \in Services : s = t \/ Earlier(s, t) \/ Earlier(t, s)
<1> DEFINE n == Len(Catalogue)
<1>1. /\ n \in Nat
      /\ \A i, j \in 1 .. n : Catalogue[i] = Catalogue[j] => i = j
  BY SamplingAssumption, LenProperties DEF SamplingAssumption
<1>2. ASSUME NEW s \in Services PROVE ~Earlier(s, s)
  BY <1>1 DEF Earlier
<1>3. ASSUME NEW s \in Services, NEW t \in Services, NEW u \in Services,
             Earlier(s, t), Earlier(t, u)
      PROVE  Earlier(s, u)
  <2>1. PICK i \in 1 .. n, j \in 1 .. n : i < j /\ Catalogue[i] = s /\ Catalogue[j] = t
    BY <1>3 DEF Earlier
  <2>2. PICK k \in 1 .. n, l \in 1 .. n : k < l /\ Catalogue[k] = t /\ Catalogue[l] = u
    BY <1>3 DEF Earlier
  <2>3. j = k BY <1>1, <2>1, <2>2
  <2>4. i < l BY <1>1, <2>1, <2>2, <2>3, SMT
  <2>5. QED BY <2>1, <2>2, <2>4 DEF Earlier
<1>4. ASSUME NEW s \in Services, NEW t \in Services
      PROVE  s = t \/ Earlier(s, t) \/ Earlier(t, s)
  <2>1. PICK i \in 1 .. n, j \in 1 .. n : Catalogue[i] = s /\ Catalogue[j] = t
    BY DEF Services
  <2>2. i = j \/ i < j \/ j < i BY <1>1, <2>1, SMT
  <2>3. QED BY <2>1, <2>2 DEF Earlier
<1>5. QED BY <1>2, <1>3, <1>4

\* Nobody gets lost when the catalogue is reduced: each has its place.
LEMMA OnlyIsWhole ==
    ASSUME NEW S \in SUBSET Services
    PROVE  /\ IsFiniteSet(S) /\ Len(Only(S)) = Cardinality(S) /\ Cardinality(S) \in Nat
           /\ \A s \in S : \E k \in 1 .. Cardinality(S) : Only(S)[k] = s
<1> DEFINE n == Cardinality(S)
           R == {p \in S \X S : Earlier(p[1], p[2])}
<1>1. IsFiniteSet(S) BY ServicesFinite, FS_Subset
<1>2. n \in Nat BY <1>1, FS_CardinalityType
<1>3. StrictlyOrders(R, S) BY EarlierOrders DEF StrictlyOrders
<1>4. \A s \in S : {t \in S : <<t, s>> \in R} = {t \in S : Earlier(t, s)} OBVIOUS
<1>5. /\ \A s \in S : Place(S, s) \in 0 .. n - 1
      /\ \A s, t \in S : Place(S, s) = Place(S, t) => s = t
  <2> HIDE DEF R
  <2>1. /\ \A s \in S : Cardinality({t \in S : <<t, s>> \in R}) \in 0 .. n - 1
        /\ \A s, t \in S : Cardinality({u \in S : <<u, s>> \in R})
                           = Cardinality({u \in S : <<u, t>> \in R}) => s = t
    BY <1>1, <1>3, OrderNumbers
  <2>2. QED BY <1>4, <2>1 DEF Place
<1>6. ASSUME NEW s \in S PROVE \E k \in 1 .. n : Only(S)[k] = s
  <2>1. PICK k \in 1 .. n : Place(S, s) = k - 1 BY <1>2, <1>5, SMT
  <2>2. (CHOOSE t \in S : Place(S, t) = k - 1) = s BY <1>5, <2>1
  <2>3. QED BY <2>1, <2>2 DEF Only
<1>7. Len(Only(S)) = n
  <2> DEFINE T == {Only(S)[k] : k \in 1 .. n}
  <2>1. Only(S) \in [1 .. n -> T] BY DEF Only
  <2>2. Only(S) \in Seq(T) BY <1>2, <2>1, SeqDef
  <2>3. DOMAIN Only(S) = 1 .. n BY DEF Only
  <2>4. Len(Only(S)) \in Nat /\ DOMAIN Only(S) = 1 .. Len(Only(S)) BY <2>2, LenProperties
  <2>5. QED BY <1>2, <2>3, <2>4, SMT
<1>8. QED BY <1>1, <1>2, <1>6, <1>7

LEMMA Division ==
    ASSUME NEW x \in Int, NEW n \in Nat \ {0}
    PROVE  /\ x \div n \in Int /\ x % n \in 0 .. n - 1
           /\ x = n * (x \div n) + (x % n)
BY SMT

\* The same, to pick quotient and remainder.
LEMMA Divided ==
    ASSUME NEW x \in Int, NEW n \in Nat \ {0}
    PROVE  \E y \in Int, z \in 0 .. n - 1 : x = n * y + z /\ z = x % n
<1>1. /\ x \div n \in Int /\ x % n \in 0 .. n - 1
      /\ x = n * (x \div n) + (x % n)
  BY Division
<1>2. QED BY <1>1

LEMMA Multiple ==
    ASSUME NEW q \in Int, NEW n \in Nat \ {0}
    PROVE  /\ n * q \in Int
           /\ q >= 1 => n * q >= n
           /\ q <= -1 => n * q <= -n
BY SMT

\* A remainder is the one number below the divisor that differs by a multiple.
LEMMA Remainder ==
    ASSUME NEW x \in Int, NEW n \in Nat \ {0}, NEW p \in 0 .. n - 1, NEW q \in Int,
           x = n * q + p
    PROVE  x % n = p
<1> DEFINE d == q - (x \div n)
<1>1. /\ x \div n \in Int /\ x % n \in 0 .. n - 1
      /\ x = n * (x \div n) + (x % n)
  BY Division
<1>2. d \in Int BY <1>1
<1>3. n * d = n * q - n * (x \div n) BY <1>1, SMT
<1>4. n * d \in Int /\ n * q \in Int /\ n * (x \div n) \in Int BY <1>1, <1>2, Multiple
<1>5. n * d = (x % n) - p BY <1>1, <1>3, <1>4, SMT
<1>6. n * d > -n /\ n * d < n BY <1>1, <1>5, SMT
<1>7. d = 0 BY <1>2, <1>6, Multiple, SMT
<1>8. n * d = 0 BY <1>7, SMT
<1>9. QED BY <1>1, <1>5, <1>8, SMT

LEMMA SameRemainder ==
    ASSUME NEW x \in Int, NEW n \in Nat \ {0}, NEW q \in Int
    PROVE  (x + n * q) % n = x % n
<1>1. /\ x \div n \in Int /\ x % n \in 0 .. n - 1
      /\ x = n * (x \div n) + (x % n)
  BY Division
<1>2. n * ((x \div n) + q) = n * (x \div n) + n * q BY <1>1, SMT
<1>3. n * q \in Int /\ n * (x \div n) \in Int BY <1>1, Multiple
<1>4. (x \div n) + q \in Int /\ x + n * q \in Int BY <1>1, <1>3
<1>5. x + n * q = n * ((x \div n) + q) + (x % n) BY <1>1, <1>2, <1>3, SMT
<1>6. QED BY <1>1, <1>4, <1>5, Remainder
LEMMA Rounded ==
    ASSUME NEW n \in Nat \ {0}, NEW slots \in Nat \ {0}
    PROVE  /\ CeilDiv(n, slots) \in Nat \ {0}
           /\ slots * CeilDiv(n, slots) >= n
<1> DEFINE c == CeilDiv(n, slots)  left == (n + slots - 1) % slots
<1>1. n + slots - 1 \in Int BY SMT
<1>2. c \in Int /\ left \in 0 .. slots - 1 /\ n + slots - 1 = slots * c + left
  BY <1>1, Division DEF CeilDiv
<1>3. slots * c \in Int BY <1>2, Multiple
<1>4. slots * c >= n BY <1>2, <1>3, SMT
<1>5. c >= 1
  <2>1. CASE c <= -1 BY <1>2, <1>3, <1>4, <2>1, Multiple, SMT
  <2>2. CASE c = 0 BY <1>4, <2>2, SMT
  <2>3. QED BY <1>2, <2>1, <2>2, SMT
<1>6. QED BY <1>2, <1>4, <1>5, SMT

\* A window that begins at bucket * slots moves by slots from bucket to bucket:
\* those of one cycle meet every place of the wheel.
LEMMA TurnsMeet ==
    ASSUME NEW wheel, Len(wheel) \in Nat \ {0},
           NEW slots \in Nat \ {0}, NEW period \in Nat \ {0},
           period % Len(wheel) = 0, NEW v \in Int, NEW place \in 1 .. Len(wheel)
    PROVE  \E j \in 1 .. CeilDiv(Len(wheel), slots) :
              wheel[place] \in Turn(wheel, slots, (v - j) % period)
<1>1. PICK n \in Nat \ {0} : n = Len(wheel) OBVIOUS
<1>2. PICK p \in 0 .. n - 1 : place = p + 1 BY <1>1, SMT
<1>3. PICK c \in Nat \ {0} : c = CeilDiv(n, slots) /\ slots * c >= n BY Rounded
<1>4. PICK x \in Int : x = p - (v - c) * slots BY SMT
<1>5. PICK xs \in Int, d \in 0 .. n - 1 : x = n * xs + d /\ d = x % n
  BY Divided, Zenon
<1>6. d \in 0 .. n - 1 /\ d \in Int /\ x = n * xs + d BY <1>5
<1>7. PICK q \in Int, k \in 0 .. slots - 1 : d = slots * q + k /\ k = d % slots
  BY <1>6, Divided, Zenon
<1>8. d = slots * q + k BY <1>7
<1>9. q \in 0 .. c - 1
  <2>1. slots * q \in Int /\ slots * c \in Int BY <1>3, Multiple
  <2>2. q >= 0
    <3>1. d >= 0 /\ k < slots BY <1>6, <1>8, SMT
    <3>2. slots * q > -slots BY <1>8, <2>1, <3>1, SMT
    <3>3. QED BY <3>2, Multiple, SMT
  <2>3. c - q \in Int /\ slots * (c - q) = slots * c - slots * q BY <1>3, SMT
  <2>4. slots * (c - q) > 0 BY <1>3, <1>6, <1>8, <2>1, <2>3, SMT
  <2>5. slots * 0 = 0 BY SMT
  <2>6. c - q >= 1
    <3>1. CASE c - q <= -1 BY <2>3, <2>4, <3>1, Multiple, SMT
    <3>2. CASE c - q = 0 BY <2>4, <2>5, <3>2, SMT
    <3>3. QED BY <2>3, <3>1, <3>2, SMT
  <2>7. QED BY <1>3, <2>2, <2>6, SMT
<1>10. PICK j \in 1 .. c : j = c - q /\ j \in Int BY <1>3, <1>9, SMT
<1>11. v - j \in Int BY <1>10, SMT
<1>12. PICK e \in Int, now \in 0 .. period - 1 :
           v - j = period * e + now /\ now = (v - j) % period
  BY <1>11, Divided
<1>13. PICK g \in Int : period = n * g
  <2>1. period \in Int /\ period % n = 0 BY <1>1
  <2>2. PICK g \in Int, z \in 0 .. n - 1 : period = n * g + z /\ z = period % n
    BY <2>1, Divided
  <2>3. period = n * g
    <3>1. n * g \in Int BY Multiple
    <3>2. QED BY <2>1, <2>2, <3>1, SMT
  <2>4. QED BY <2>3
<1>14. PICK t \in Int : t = now * slots BY <1>12, SMT
<1>15. PICK ts \in Int, left \in 0 .. n - 1 : t = n * ts + left /\ left = t % n
  BY Division
<1>16. PICK u \in Int : u = g * e * slots BY SMT
<1>17. PICK m \in Int : m = 0 - xs - u - ts
  <2>1. 0 - xs - u - ts \in Int BY SMT
  <2>2. QED BY <2>1
<1>18. t = (v - j) * slots - n * u
  <2>1. now = (v - j) - n * g * e
    <3>1. now \in Int /\ n * g * e \in Int BY SMT
    <3>2. v - j = n * g * e + now BY <1>12, <1>13
    <3>3. QED BY <1>11, <3>1, <3>2, SMT
  <2>2. t = ((v - j) - n * g * e) * slots BY <1>14, <2>1
  <2>3. QED BY <1>10, <1>16, <2>2, SMT
<1>19. (v - j) * slots + k = p - n * xs
  <2>1. PICK back \in Int : back = (v - c) * slots BY SMT
  <2>2. PICK ahead \in Int : ahead = slots * q BY SMT
  <2>3. PICK rounds \in Int : rounds = n * xs BY SMT
  <2>4. (v - j) * slots = (v - c) * slots + slots * q BY <1>10, SMT
  <2>5. p - back = rounds + d /\ d = ahead + k BY <1>4, <1>6, <1>8, <2>1, <2>2, <2>3
  <2>6. k \in Int /\ p \in Int BY SMT
  <2>7. back + ahead + k = p - rounds BY <1>6, <2>5, <2>6, SMT
  <2>8. QED BY <2>1, <2>2, <2>3, <2>4, <2>7
<1>20. left + k = n * m + p
  <2>1. n * m = 0 - n * xs - n * u - n * ts BY <1>17, SMT
  <2>2. /\ n * m \in Int /\ n * xs \in Int /\ n * u \in Int /\ n * ts \in Int
        /\ (v - j) * slots \in Int
    BY <1>10, SMT
  <2>3. k \in Int /\ left \in Int /\ p \in Int BY SMT
  <2>4. left = t - n * ts BY <1>15, <2>2, <2>3, SMT
  <2>5. t + k = p - n * xs - n * u BY <1>18, <1>19, <2>2, <2>3, SMT
  <2>6. PICK nx \in Int, nu \in Int, nt \in Int :
           nx = n * xs /\ nu = n * u /\ nt = n * ts
    BY <2>2
  <2>7. left = t - nt /\ t + k = p - nx - nu BY <2>4, <2>5, <2>6
  <2>8. left + k = (0 - nx - nu - nt) + p BY <2>3, <2>7, SMT
  <2>9. QED BY <2>1, <2>6, <2>8
<1>21. PICK y \in Int : y = left + k BY SMT
<1>22. (left + k) % n = p
  <2>1. y = n * m + p BY <1>20, <1>21
  <2>2. y % n = p BY <2>1, Remainder, Zenon
  <2>3. QED BY <1>21, <2>2
<1>23. ((((((v - j) % period) * slots) % n) + k) % n) = p BY <1>12, <1>14, <1>15, <1>22
<1>24. wheel[place] \in Turn(wheel, slots, (v - j) % period)
  <2>1. wheel[((((((v - j) % period) * slots) % n) + k) % n) + 1] = wheel[place]
    BY <1>2, <1>23
  <2>2. QED BY <1>1, <2>1 DEF Turn
<1>25. QED BY <1>1, <1>3, <1>24

-----------------------------------------------------------------------------
\* The reserved slots stay free: as many services are fixed as have a position
\* below the rest of the limit.
LEMMA FixedFits ==
    ASSUME NEW S \in SUBSET Services, NEW limit \in Nat
    PROVE  /\ Fixed(S, limit) \in SUBSET S /\ IsFiniteSet(Fixed(S, limit))
           /\ Cardinality(Fixed(S, limit)) \in Nat
           /\ Cardinality(Fixed(S, limit)) <= limit - Reserved(Cardinality(S), limit)
<1> DEFINE m == limit - Reserved(Cardinality(S), limit)
           T == Ranked(S)
           R == {p \in T \X T : Before(p[1], p[2])}
           at == [s \in Fixed(S, limit) |-> Position(S, s)]
<1>1. IsFiniteSet(S) BY ServicesFinite, FS_Subset
<1>2. T \in SUBSET S /\ Fixed(S, limit) \in SUBSET T BY DEF Ranked, Fixed
<1>3. /\ IsFiniteSet(T) /\ IsFiniteSet(Fixed(S, limit))
      /\ Cardinality(Fixed(S, limit)) \in Nat
  BY <1>1, <1>2, FS_Subset, FS_CardinalityType
<1>4. m \in Nat BY SMT DEF Reserved
<1>5. StrictlyOrders(R, T)
  <2>1. \A s \in T : Rank[s] \in Nat BY SamplingAssumption DEF SamplingAssumption, Ranked
  <2>2. T \subseteq Services BY <1>2
  <2>3. \A s \in T : ~Before(s, s) BY <2>1, <2>2, EarlierOrders, SMT DEF Before
  <2>4. \A s, t, u \in T : Before(s, t) /\ Before(t, u) => Before(s, u)
    BY <2>1, <2>2, EarlierOrders, SMT DEF Before
  <2>5. \A s, t \in T : s = t \/ Before(s, t) \/ Before(t, s)
    BY <2>1, <2>2, EarlierOrders, SMT DEF Before
  <2>6. \A s, t \in T : <<s, t>> \in R <=> Before(s, t) OBVIOUS
  <2> HIDE DEF R
  <2>7. QED BY <2>3, <2>4, <2>5, <2>6 DEF StrictlyOrders
<1>6. \A s \in T : {t \in T : <<t, s>> \in R} = {t \in T : Before(t, s)} OBVIOUS
<1>7. /\ \A s \in T : Position(S, s) \in Nat
      /\ \A s, t \in T : Position(S, s) = Position(S, t) => s = t
  <2> HIDE DEF R, T
  <2>1. /\ \A s \in T : Cardinality({t \in T : <<t, s>> \in R}) \in 0 .. Cardinality(T) - 1
        /\ \A s, t \in T : Cardinality({u \in T : <<u, s>> \in R})
                           = Cardinality({u \in T : <<u, t>> \in R}) => s = t
    BY <1>3, <1>5, OrderNumbers
  <2>2. QED BY <1>6, <2>1 DEF Position, T
<1>8. at \in Injection(Fixed(S, limit), 0 .. m - 1)
  <2>1. \A s \in Fixed(S, limit) : Position(S, s) \in 0 .. m - 1
    BY <1>2, <1>4, <1>7, SMT DEF Fixed
  <2>2. at \in [Fixed(S, limit) -> 0 .. m - 1] BY <2>1
  <2>3. \A s, t \in Fixed(S, limit) : at[s] = at[t] => s = t BY <1>2, <1>7
  <2>4. QED BY <2>2, <2>3 DEF Injection, IsInjective
<1>9. IsFiniteSet(0 .. m - 1) /\ Cardinality(0 .. m - 1) = m
  <2> HIDE DEF m
  <2>1. 0 \in Int /\ m - 1 \in Int BY <1>4
  <2>2. /\ IsFiniteSet(0 .. m - 1)
        /\ Cardinality(0 .. m - 1) = IF 0 > m - 1 THEN 0 ELSE (m - 1) - 0 + 1
    BY <2>1, FS_Interval, Zenon
  <2>3. QED BY <1>4, <2>2, SMT
<1>10. Cardinality(Fixed(S, limit)) <= m BY <1>8, <1>9, FS_Injection
<1>11. QED BY <1>2, <1>3, <1>10

\* The wheel of a rotation.
LEMMA Wheel ==
    ASSUME NEW S \in SUBSET Services, NEW limit \in Nat, ~AllFit(S, limit),
           Slots(S, limit) > 0
    PROVE  /\ Slots(S, limit) \in Nat \ {0}
           /\ Len(Rotating(S, limit)) \in Nat \ {0}
           /\ Len(Rotating(S, limit)) = Cardinality(S \ Fixed(S, limit))
           /\ \A s \in S \ Fixed(S, limit) :
                 \E k \in 1 .. Len(Rotating(S, limit)) : Rotating(S, limit)[k] = s
<1> DEFINE F == Fixed(S, limit)
<1>1. /\ F \in SUBSET S /\ IsFiniteSet(F) /\ Cardinality(F) \in Nat
      /\ IsFiniteSet(S) /\ Cardinality(S) \in Nat
  BY FixedFits, OnlyIsWhole
<1>2. S \ F \in SUBSET Services OBVIOUS
<1>3. Cardinality(S \ F) = Cardinality(S) - Cardinality(F)
  <2>1. S \cap F = F BY <1>1
  <2>2. QED BY <1>1, <2>1, FS_Difference
<1>4. Slots(S, limit) = limit - Cardinality(F) BY DEF Slots
<1>5. Cardinality(S) > limit BY <1>1, SMT DEF AllFit
<1>6. Cardinality(S \ F) \in Nat \ {0} BY <1>1, <1>3, <1>4, <1>5, SMT
<1>7. Slots(S, limit) \in Nat \ {0} BY <1>1, <1>4, SMT
<1>8. /\ Len(Rotating(S, limit)) = Cardinality(S \ F)
      /\ \A s \in S \ F : \E k \in 1 .. Cardinality(S \ F) : Rotating(S, limit)[k] = s
  BY <1>2, OnlyIsWhole DEF Rotating
<1>9. QED BY <1>6, <1>7, <1>8

\* Whoever is eligible is selected within the interval published for it.
LEMMA EachHasATurn ==
    ASSUME NEW S \in SUBSET Services, NEW limit \in Nat \ {0}, NEW period \in Nat \ {0},
           AllFit(S, limit) \/ Slots(S, limit) > 0,
           AllFit(S, limit) \/ period % Len(Rotating(S, limit)) = 0
    PROVE  /\ FullCycle(S, limit) \in Nat \ {0}
           /\ \A s \in S : Interval(S, limit, s) \in 1 .. FullCycle(S, limit)
           /\ \A s \in S, v \in Int : \E j \in 1 .. Interval(S, limit, s) :
                 s \in Selected(S, limit, (v - j) % period)
           /\ \A s \in Fixed(S, limit), v \in Int : s \in Selected(S, limit, v)
<1> DEFINE F == Fixed(S, limit)
<1>1. F \in SUBSET S BY FixedFits
<1>2. CASE AllFit(S, limit)
  <2>1. FullCycle(S, limit) = 1 /\ \A s : Interval(S, limit, s) = 1
    BY <1>2 DEF FullCycle, Interval
  <2>2. \A v : Selected(S, limit, v) = S BY <1>2 DEF Selected
  <2>3. 1 \in 1 .. 1 OBVIOUS
  <2>4. QED BY <1>1, <2>1, <2>2, <2>3
<1>3. CASE ~AllFit(S, limit)
  <2> DEFINE w == Rotating(S, limit)  slots == Slots(S, limit)
  <2>1. /\ slots \in Nat \ {0} /\ Len(w) \in Nat \ {0} /\ period % Len(w) = 0
        /\ Len(w) = Cardinality(S \ F)
        /\ \A s \in S \ F : \E k \in 1 .. Len(w) : w[k] = s
    BY <1>3, Wheel
  <2>2. FullCycle(S, limit) = CeilDiv(Len(w), slots)
    BY <1>3, <2>1 DEF FullCycle
  <2>3. CeilDiv(Len(w), slots) \in Nat \ {0} BY <2>1, Rounded
  <2>4. \A v : Selected(S, limit, v) = F \cup Turn(w, slots, v) BY <1>3 DEF Selected
  <2>5. \A s \in F : Interval(S, limit, s) = 1 BY DEF Interval
  <2>6. \A s \in S \ F : Interval(S, limit, s) = CeilDiv(Len(w), slots)
    BY <2>2 DEF Interval
  <2>7. \A s \in S : Interval(S, limit, s) \in 1 .. FullCycle(S, limit)
    BY <2>2, <2>3, <2>5, <2>6, SMT
  <2>8. ASSUME NEW s \in F, NEW v \in Int
        PROVE  \E j \in 1 .. Interval(S, limit, s) : s \in Selected(S, limit, (v - j) % period)
    <3>1. 1 \in 1 .. Interval(S, limit, s) BY <2>5
    <3>2. s \in Selected(S, limit, (v - 1) % period) BY <2>4
    <3>3. QED BY <3>1, <3>2
  <2>9. ASSUME NEW s \in S \ F, NEW v \in Int
        PROVE  \E j \in 1 .. Interval(S, limit, s) : s \in Selected(S, limit, (v - j) % period)
    <3>1. PICK k \in 1 .. Len(w) : w[k] = s BY <2>1
    <3> HIDE DEF w, slots
    <3>2. PICK j \in 1 .. CeilDiv(Len(w), slots) : w[k] \in Turn(w, slots, (v - j) % period)
      BY <2>1, TurnsMeet
    <3>3. QED BY <2>4, <2>6, <3>1, <3>2
  <2>10. QED BY <1>1, <2>2, <2>3, <2>4, <2>7, <2>8, <2>9
<1>4. QED BY <1>2, <1>3

-----------------------------------------------------------------------------
\* What the rounds of the rotation keep.  Complete windows leave evidence behind
\* that is no older than their turn is past; the window under way covers its turn.
Turned(r, j) == Selected(eligible, Limit, (bucket[r] - j) % Period) \cap eligible

Spins ==
    /\ eligible \in SUBSET Services
    /\ bucket \in [Replicas -> 0 .. Period - 1]
    /\ window \in [Replicas -> {"open", "complete", "taken"}]
    /\ streak \in [Replicas -> 0 .. Cycle]
    /\ DOMAIN late = Replicas

Lasts(r) ==
    /\ \A j \in 1 .. streak[r] : \A s \in Turned(r, j) : store[r][s] \in 0 .. j
    /\ window[r] = "complete" => \A s \in Turned(r, 0) : store[r][s] = 0

Covers(r) ==
    since[r] = 0 =>
        /\ pc[r] # "idle" => Turned(r, 0) \subseteq observed[r] \cup late[r]
        /\ pc[r] = "writing" => \A s \in observed[r] \cap eligible : store[r][s] = 0

CadenceInv == Spins /\ \A r \in Replicas : Lasts(r) /\ Covers(r)

Sustained == RotationHasRoom /\ CyclesAreRetained /\ WholeRounds

LEMMA Budget ==
    Limit \in Nat \ {0} /\ Period \in Nat \ {0} /\ EvidenceTTL \in Nat
BY EvidenceAssumption, SMT DEF EvidenceAssumption

LEMMA BucketBefore ==
    \A v, j \in Int : (v - j) % Period \in Int
<1> SUFFICES ASSUME NEW v \in Int, NEW j \in Int PROVE (v - j) % Period \in Int
  OBVIOUS
<1>1. PICK x \in Int : x = v - j BY SMT
<1>2. x % Period \in 0 .. Period - 1 BY Budget, Division
<1>3. x % Period \in Int BY <1>2
<1>4. QED BY <1>1, <1>3

LEMMA Rotates ==
    ASSUME Sustained, eligible \in SUBSET Services
    PROVE  /\ Cycle \in Nat \ {0} /\ Cycle < MaxRetention
           /\ \A s \in eligible : Interval(eligible, Limit, s) \in 1 .. Cycle
           /\ \A s \in eligible, v \in Int : \E j \in 1 .. Interval(eligible, Limit, s) :
                 s \in Selected(eligible, Limit, (v - j) % Period)
           /\ \A s \in Fixed(eligible, Limit), v \in Int : s \in Selected(eligible, Limit, v)
<1>1. /\ AllFit(eligible, Limit) \/ Slots(eligible, Limit) > 0
      /\ AllFit(eligible, Limit) \/ Period % Len(Rotating(eligible, Limit)) = 0
      /\ FullCycle(eligible, Limit) < MaxRetention
  BY DEF Sustained, RotationHasRoom, CyclesAreRetained, WholeRounds
<1>2. QED BY <1>1, Budget, EachHasATurn DEF Cycle

\* Evidence is retained for longer than the interval published for its service.
LEMMA RetainedForLonger ==
    ASSUME Sustained, eligible \in SUBSET Services, NEW s \in eligible
    PROVE  Retention(s) \in Nat /\ Retention(s) > Interval(eligible, Limit, s)
<1> DEFINE i == Interval(eligible, Limit, s)
<1>1. i \in Nat \ {0} /\ i < MaxRetention BY Rotates, Numbers, SMT
<1>2. Cadence(s) = i BY <1>1 DEF Cadence
<1> HIDE DEF i
<1>3. Retention(s) = IF 3 * i > MaxRetention THEN MaxRetention
                     ELSE IF 3 * i < EvidenceTTL THEN EvidenceTTL ELSE 3 * i
  BY <1>2 DEF Retention
<1>4. QED BY <1>1, <1>3, Budget, Numbers, SMT DEF i

\* What lasts is within the interval: a fixed service has its turn in every
\* window, any other once in a cycle.
LEMMA WithinInterval ==
    ASSUME Sustained, Spins, NEW r \in Replicas, Lasts(r),
           NEW j \in 1 .. streak[r], NEW s \in Turned(r, j)
    PROVE  store[r][s] \in 0 .. j /\ store[r][s] <= Interval(eligible, Limit, s)
<1>1. /\ s \in eligible /\ store[r][s] \in 0 .. j /\ eligible \in SUBSET Services
      /\ streak[r] \in 0 .. Cycle
  BY DEF Lasts, Turned, Spins
<1>2. CASE s \in Fixed(eligible, Limit)
  <2>1. 1 \in 1 .. streak[r] BY <1>1, SMT
  <2>2. bucket[r] \in Int BY Budget, SMT DEF Spins
  <2>3. (bucket[r] - 1) % Period \in Int BY <2>2, BucketBefore
  <2>4. s \in Turned(r, 1) BY <1>1, <1>2, <2>3, Rotates DEF Turned
  <2>5. store[r][s] \in 0 .. 1 BY <2>1, <2>4 DEF Lasts
  <2>6. Interval(eligible, Limit, s) = 1 BY <1>2 DEF Interval
  <2>7. QED BY <1>1, <2>5, <2>6, SMT
<1>3. CASE s \notin Fixed(eligible, Limit)
  <2>1. Interval(eligible, Limit, s) = Cycle BY <1>3 DEF Interval, Cycle
  <2>2. Cycle \in Nat BY <1>1, Rotates
  <2>3. QED BY <1>1, <2>1, <2>2, SMT
<1>4. QED BY <1>2, <1>3

\* Nor does what is retained get older by a merge.
LEMMA MergeRefreshes ==
    ASSUME IInv, Sustained, Spins, NEW r \in Replicas, NEW s \in eligible,
           NEW shared \in [Services -> Entries],
           NEW n \in Nat, store[r][s] \in 0 .. n,
           store[r][s] <= Interval(eligible, Limit, s)
    PROVE  Merged(r, shared)[s] \in 0 .. n
<1>1. s \in Services /\ eligible \in SUBSET Services BY DEF Spins
<1>2. Retention(s) \in Nat /\ Retention(s) > Interval(eligible, Limit, s)
  BY <1>1, RetainedForLonger
<1>3. Interval(eligible, Limit, s) \in Nat BY <1>1, Rotates
<1> DEFINE mine == store[r][s]
           wins == s \in eligible /\ Wins(s, shared[s], mine)
           best == IF wins THEN shared[s] ELSE mine
<1>4. Merged(r, shared)[s] = Overlaid(r, s, IF Kept(s, best) THEN best ELSE NoEntry)
  BY <1>1 DEF Merged
<1>5. mine \in Nat /\ mine # NoEntry /\ mine < Retention(s) BY <1>2, <1>3, Numbers, SMT
<1>6. best \in 0 .. n /\ best # NoEntry /\ best < Retention(s)
  <2>1. CASE wins
    <3>1. shared[s] # NoEntry /\ shared[s] < mine /\ shared[s] < Retention(s)
      BY <1>5, <2>1 DEF Wins
    <3>2. shared[s] \in Nat BY <1>1, <3>1 DEF Entries, Ages
    <3>3. best = shared[s] BY <2>1
    <3> HIDE DEF best, wins
    <3>4. QED BY <3>1, <3>2, <3>3, SMT
  <2>2. CASE ~wins BY <1>5, <2>2
  <2>3. QED BY <2>1, <2>2
<1>7. Kept(s, best) BY <1>6 DEF Kept
<1>8. Merged(r, shared)[s] \in {0, best} BY <1>4, <1>7 DEF Overlaid
<1>9. QED BY <1>6, <1>8, SMT

\* A step of somebody else, or one that leaves the evidence and the turns alone.
LEMMA SameTurns ==
    ASSUME Spins, UNCHANGED <<eligible, bucket>>
    PROVE  \A r \in Replicas, j \in Int : Turned(r, j)' = Turned(r, j)
BY DEF Turned

LEMMA TurnNow ==
    ASSUME Spins, NEW r \in Replicas
    PROVE  Turned(r, 0) = Selected(eligible, Limit, bucket[r]) \cap eligible
<1>1. PICK v \in 0 .. Period - 1 : v = bucket[r] BY DEF Spins
<1>2. v - 0 = v /\ v = Period * 0 + v /\ v \in Int BY Budget, SMT
<1>3. v % Period = v BY <1>2, Budget, Remainder
<1>4. QED BY <1>1, <1>2, <1>3 DEF Turned

LEMMA CadenceInit == Sustained /\ Init => CadenceInv
<1> SUFFICES ASSUME Sustained, Init PROVE CadenceInv OBVIOUS
<1>1. eligible \in SUBSET Services BY DEF Init
<1>2. Cycle \in Nat \ {0} BY <1>1, Rotates
<1>3. Spins BY <1>1, <1>2, SMT DEF Init, Spins
<1>4. ASSUME NEW r \in Replicas PROVE Lasts(r) /\ Covers(r)
  <2>1. streak[r] = 0 /\ window[r] = "open" /\ pc[r] = "idle" BY DEF Init
  <2>2. 1 .. streak[r] = {} BY <2>1, SMT
  <2>3. QED BY <2>1, <2>2 DEF Lasts, Covers
<1>5. QED BY <1>3, <1>4 DEF CadenceInv

LEMMA CallDomains ==
    ASSUME IInv, Spins
    PROVE  /\ DOMAIN pc = Replicas /\ DOMAIN since = Replicas
           /\ DOMAIN observed = Replicas /\ DOMAIN late = Replicas
BY DEF IInv, Kinds, Spins

\* A refresh of q leaves what others carry alone.
LEMMA OthersCover ==
    ASSUME IInv, CadenceInv, NEW q \in Replicas, NEW r \in Replicas, r # q,
           UNCHANGED <<eligible, bucket>>, store'[r] = store[r],
           pc'[r] = pc[r], since'[r] = since[r],
           observed'[r] = observed[r], late'[r] = late[r]
    PROVE  Covers(r)'
<1>1. Turned(r, 0)' = Turned(r, 0) BY SameTurns DEF CadenceInv
<1>2. QED BY <1>1 DEF CadenceInv, Covers

\* A refresh that has not begun covers nothing yet.
LEMMA IdleCovers ==
    ASSUME NEW r \in Replicas, pc'[r] = "idle" PROVE Covers(r)'
BY DEF Covers

LEMMA ProbeSpins ==
    ASSUME IInv, Sustained, CadenceInv, NEW q \in Replicas, Probe(q) PROVE CadenceInv'
<1>1. PICK ended \in SUBSET Selected(eligible, Limit, bucket[q]) :
         /\ observed' = [observed EXCEPT ![q] = ended]
         /\ late' = [late EXCEPT ![q] = Selected(eligible, Limit, bucket[q]) \ ended]
  BY DEF Probe
<1>2. /\ pc' = [pc EXCEPT ![q] = "reading"] /\ since' = [since EXCEPT ![q] = 0]
      /\ UNCHANGED <<eligible, bucket, store, window, streak>>
      /\ window[q] = "open"
  BY DEF Probe, past
<1>3. Spins' BY <1>1, <1>2 DEF CadenceInv, Spins, Cycle
<1>4. \A r \in Replicas, j \in Int : Turned(r, j)' = Turned(r, j)
  BY <1>2, SameTurns DEF CadenceInv
<1>5. ASSUME NEW r \in Replicas PROVE Lasts(r)'
  BY <1>2, <1>4, SMT DEF CadenceInv, Lasts
<1>6. ASSUME NEW r \in Replicas PROVE Covers(r)'
  <2>1. CASE r # q
    <3>1. /\ pc'[r] = pc[r] /\ since'[r] = since[r] /\ observed'[r] = observed[r]
          /\ late'[r] = late[r]
      BY <1>1, <1>2, <2>1, CallDomains DEF CadenceInv
    <3>2. QED BY <1>2, <2>1, <3>1, OthersCover
  <2>2. CASE r = q
    <3>1. /\ pc'[r] = "reading"
          /\ observed'[r] \cup late'[r] = Selected(eligible, Limit, bucket[r])
      BY <1>1, <1>2, <2>2, CallDomains DEF CadenceInv
    <3>2. Turned(r, 0)' = Selected(eligible, Limit, bucket[r]) \cap eligible
      BY <1>4, TurnNow DEF CadenceInv
    <3>3. QED BY <3>1, <3>2 DEF Covers
  <2>3. QED BY <2>1, <2>2
<1>7. QED BY <1>3, <1>5, <1>6 DEF CadenceInv

LEMMA MergeSpins ==
    ASSUME IInv, Sustained, CadenceInv, NEW q \in Replicas, Merge(q) PROVE CadenceInv'
<1>1. PICK shared \in {remote, [s \in Services |-> NoEntry]} :
         store' = [store EXCEPT ![q] = Merged(q, shared)]
  BY DEF Merge
<1>2. /\ pc[q] = "reading" /\ pc' = [pc EXCEPT ![q] = "writing"]
      /\ UNCHANGED <<eligible, bucket, observed, late, since, window, streak>>
  BY DEF Merge
<1>3. shared \in [Services -> Entries] BY <1>1 DEF IInv, Kinds, Entries
<1>4. Spins' BY <1>2 DEF CadenceInv, Spins, Cycle
<1>5. Spins /\ eligible \in SUBSET Services BY DEF CadenceInv, Spins
<1>6. \A r \in Replicas, j \in Int : Turned(r, j)' = Turned(r, j)
  BY <1>2, <1>5, SameTurns
<1>7. \A r \in Replicas : r # q => store'[r] = store[r]
  BY <1>1 DEF IInv, Kinds
<1>8. \A s \in eligible : store'[q][s] = Merged(q, shared)[s]
  BY <1>1 DEF IInv, Kinds
<1>9. ASSUME NEW r \in Replicas PROVE Lasts(r)'
  <2>1. Lasts(r) BY DEF CadenceInv
  <2>2. CASE r # q
    <3>1. store'[r] = store[r] BY <1>7, <2>2
    <3>2. QED BY <1>2, <1>6, <2>1, <3>1, SMT DEF Lasts
  <2>3. CASE r = q
    <3>1. ASSUME NEW j \in 1 .. streak[r], NEW s \in Turned(r, j)
          PROVE  store'[r][s] \in 0 .. j
      <4>1. store[r][s] \in 0 .. j /\ store[r][s] <= Interval(eligible, Limit, s)
        BY <1>5, <2>1, WithinInterval
      <4>2. s \in eligible /\ j \in Nat BY SMT DEF Turned
      <4>3. Merged(r, shared)[s] \in 0 .. j BY <1>3, <1>5, <4>1, <4>2, MergeRefreshes
      <4>4. QED BY <1>8, <2>3, <4>2, <4>3
    <3>2. ASSUME window[r] = "complete", NEW s \in Turned(r, 0)
          PROVE  store'[r][s] = 0
      <4>1. s \in eligible BY DEF Turned
      <4>2. store[r][s] = 0 BY <2>1, <3>2 DEF Lasts
      <4>3. Interval(eligible, Limit, s) >= 0 BY <1>5, <4>1, Rotates, SMT
      <4>4. store[r][s] \in 0 .. 0 /\ store[r][s] <= Interval(eligible, Limit, s)
        BY <4>2, <4>3, SMT
      <4>5. Merged(r, shared)[s] \in 0 .. 0 BY <1>3, <1>5, <4>1, <4>4, MergeRefreshes
      <4>6. QED BY <1>8, <2>3, <4>1, <4>5, SMT
    <3>3. \A j \in Int : j \in 1 .. streak[r] => Turned(r, j)' = Turned(r, j) BY <1>6
    <3>4. QED BY <1>2, <1>6, <3>1, <3>2, <3>3, SMT DEF Lasts
  <2>4. QED BY <2>2, <2>3
<1>10. ASSUME NEW r \in Replicas PROVE Covers(r)'
  <2>1. CASE r # q
    <3>1. pc'[r] = pc[r] BY <1>2, <2>1, <1>5, CallDomains
    <3>2. QED BY <1>2, <1>7, <2>1, <3>1, OthersCover
  <2>2. CASE r = q
    <3>1. Covers(r) BY DEF CadenceInv
    <3>2. ASSUME NEW s \in observed[r] \cap eligible PROVE store'[r][s] = 0
      <4>1. s \in Services BY <1>5
      <4>2. Merged(r, shared)[s] = 0 BY <3>2, <4>1, MergeChoice
      <4>3. QED BY <1>8, <2>2, <3>2, <4>2
    <3>3. Turned(r, 0)' = Turned(r, 0) BY <1>6
    <3>4. QED BY <1>2, <2>2, <3>1, <3>2, <3>3 DEF Covers
  <2>3. QED BY <2>1, <2>2
<1>11. QED BY <1>4, <1>9, <1>10 DEF CadenceInv

LEMMA WriteSpins ==
    ASSUME IInv, Sustained, CadenceInv, NEW q \in Replicas, Write(q) PROVE CadenceInv'
<1>1. /\ pc[q] = "writing" /\ pc' = [pc EXCEPT ![q] = "idle"]
      /\ window' = [window EXCEPT ![q] =
                       IF since[q] = 0 /\ late[q] = {} THEN "complete" ELSE "taken"]
      /\ observed' = [observed EXCEPT ![q] = {}]
      /\ late' = [late EXCEPT ![q] = {}]
      /\ since' = [since EXCEPT ![q] = 0]
      /\ UNCHANGED <<eligible, bucket, store, streak>>
  BY DEF Write
<1>2. Spins BY DEF CadenceInv
<1>3. Spins' BY <1>1, <1>2 DEF Spins, Cycle
<1>4. \A r \in Replicas, j \in Int : Turned(r, j)' = Turned(r, j)
  BY <1>1, <1>2, SameTurns
<1>5. ASSUME NEW r \in Replicas PROVE Lasts(r)'
  <2>1. Lasts(r) /\ Covers(r) BY DEF CadenceInv
  <2>2. ASSUME window'[r] = "complete" PROVE \A s \in Turned(r, 0) : store[r][s] = 0
    <3>1. CASE window[r] = "complete" BY <2>1, <3>1 DEF Lasts
    <3>2. CASE window[r] # "complete"
      <4>1. r = q /\ since[r] = 0 /\ late[r] = {} BY <1>1, <1>2, <2>2, <3>2 DEF Spins
      <4>2. /\ Turned(r, 0) \subseteq observed[r]
            /\ \A s \in observed[r] \cap eligible : store[r][s] = 0
        BY <1>1, <2>1, <4>1 DEF Covers
      <4>3. QED BY <4>2 DEF Turned
    <3>3. QED BY <3>1, <3>2
  <2>3. \A j \in Int : j \in 1 .. streak[r] => Turned(r, j)' = Turned(r, j) BY <1>4
  <2>4. QED BY <1>1, <1>4, <2>1, <2>2, <2>3, SMT DEF Lasts
<1>6. ASSUME NEW r \in Replicas PROVE Covers(r)'
  <2>1. CASE r # q
    <3>1. /\ pc'[r] = pc[r] /\ since'[r] = since[r] /\ observed'[r] = observed[r]
          /\ late'[r] = late[r]
      BY <1>1, <1>2, <2>1, CallDomains
    <3>2. QED BY <1>1, <2>1, <3>1, OthersCover
  <2>2. CASE r = q
    <3>1. pc'[r] = "idle" BY <1>1, <1>2, <2>2, CallDomains
    <3>2. QED BY <3>1, IdleCovers
  <2>3. QED BY <2>1, <2>2
<1>7. QED BY <1>3, <1>5, <1>6 DEF CadenceInv

LEMMA CancelSpins ==
    ASSUME IInv, CadenceInv, NEW q \in Replicas, Cancel(q) PROVE CadenceInv'
<1>1. /\ pc' = [pc EXCEPT ![q] = "idle"] /\ observed' = [observed EXCEPT ![q] = {}]
      /\ late' = [late EXCEPT ![q] = {}] /\ since' = [since EXCEPT ![q] = 0]
      /\ UNCHANGED <<eligible, bucket, store, window, streak>>
  BY DEF Cancel, Stopped, past
<1>2. Spins BY DEF CadenceInv
<1>3. Spins' BY <1>1, <1>2 DEF Spins, Cycle
<1>4. \A r \in Replicas, j \in Int : Turned(r, j)' = Turned(r, j)
  BY <1>1, <1>2, SameTurns
<1>5. ASSUME NEW r \in Replicas PROVE Lasts(r)'
  BY <1>1, <1>4, SMT DEF CadenceInv, Lasts
<1>6. ASSUME NEW r \in Replicas PROVE Covers(r)'
  <2>1. CASE r # q
    <3>1. /\ pc'[r] = pc[r] /\ since'[r] = since[r] /\ observed'[r] = observed[r]
          /\ late'[r] = late[r]
      BY <1>1, <1>2, <2>1, CallDomains
    <3>2. QED BY <1>1, <2>1, <3>1, OthersCover
  <2>2. CASE r = q
    <3>1. pc'[r] = "idle" BY <1>1, <1>2, <2>2, CallDomains
    <3>2. QED BY <3>1, IdleCovers
  <2>3. QED BY <2>1, <2>2
<1>7. QED BY <1>3, <1>5, <1>6 DEF CadenceInv

LEMMA RestartSpins ==
    ASSUME IInv, Sustained, CadenceInv, NEW q \in Replicas, Restart(q) PROVE CadenceInv'
<1>1. /\ pc' = [pc EXCEPT ![q] = "idle"] /\ observed' = [observed EXCEPT ![q] = {}]
      /\ late' = [late EXCEPT ![q] = {}] /\ since' = [since EXCEPT ![q] = 0]
      /\ store' = [store EXCEPT ![q] = [s \in Services |-> NoEntry]]
      /\ window' = [window EXCEPT ![q] = "open"]
      /\ streak' = [streak EXCEPT ![q] = 0]
      /\ UNCHANGED <<eligible, bucket>>
  BY DEF Restart, Stopped
<1>2. Spins /\ Cycle \in Nat BY Rotates DEF CadenceInv, Spins
<1>3. Spins' BY <1>1, <1>2, SMT DEF Spins, Cycle
<1>4. \A r \in Replicas, j \in Int : Turned(r, j)' = Turned(r, j)
  BY <1>1, <1>2, SameTurns
<1>5. ASSUME NEW r \in Replicas PROVE Lasts(r)' /\ Covers(r)'
  <2>1. CASE r # q
    <3>1. /\ pc'[r] = pc[r] /\ since'[r] = since[r] /\ observed'[r] = observed[r]
          /\ late'[r] = late[r]
      BY <1>1, <1>2, <2>1, CallDomains
    <3>2. store'[r] = store[r] BY <1>1, <2>1 DEF IInv, Kinds
    <3>3. window'[r] = window[r] /\ streak'[r] = streak[r]
      BY <1>1, <1>2, <2>1 DEF Spins
    <3>4. Covers(r)' BY <1>1, <2>1, <3>1, <3>2, OthersCover
    <3>5. \A j \in Int : j \in 1 .. streak[r] => Turned(r, j)' = Turned(r, j) BY <1>4
    <3>6. Lasts(r)' BY <1>4, <3>2, <3>3, <3>5, SMT DEF CadenceInv, Lasts
    <3>7. QED BY <3>4, <3>6
  <2>2. CASE r = q
    <3>1. pc'[r] = "idle" BY <1>1, <1>2, <2>2, CallDomains
    <3>2. window'[r] = "open" /\ streak'[r] = 0 BY <1>1, <1>2, <2>2 DEF Spins
    <3>3. Lasts(r)' BY <3>2, SMT DEF Lasts
    <3>4. QED BY <3>1, <3>3, IdleCovers
  <2>3. QED BY <2>1, <2>2
<1>6. QED BY <1>3, <1>5 DEF CadenceInv

\* Another catalogue has another rotation: nothing is claimed of it yet.
LEMMA RecatalogueSpins ==
    ASSUME IInv, Sustained, CadenceInv, Recatalogue PROVE CadenceInv'
<1>1. /\ \A r \in Replicas : pc[r] = "idle"
      /\ streak' = [r \in Replicas |-> 0]
      /\ window' = [r \in Replicas |-> IF window[r] = "open" THEN "open" ELSE "taken"]
      /\ UNCHANGED <<bucket, pc, late>>
  BY DEF Recatalogue, calls
<1>2. eligible' \in SUBSET Services
  BY DEF Recatalogue, CadenceInv, Spins
<1>3. Sustained' BY DEF Sustained, RotationHasRoom, CyclesAreRetained, WholeRounds
<1>4. Cycle' \in Nat
  <2>1. /\ AllFit(eligible', Limit) \/ Slots(eligible', Limit) > 0
        /\ AllFit(eligible', Limit) \/ Period % Len(Rotating(eligible', Limit)) = 0
    BY <1>2 DEF Sustained, RotationHasRoom, WholeRounds
  <2>2. FullCycle(eligible', Limit) \in Nat \ {0} BY <1>2, <2>1, Budget, EachHasATurn
  <2>3. QED BY <2>2 DEF Cycle
<1>5. Spins'
  <2>1. 0 \in 0 .. Cycle' BY <1>4, SMT
  <2>2. streak' \in [Replicas -> 0 .. Cycle'] BY <1>1, <2>1
  <2>3. QED BY <1>1, <1>2, <2>2 DEF CadenceInv, Spins
<1>6. ASSUME NEW r \in Replicas PROVE Lasts(r)' /\ Covers(r)'
  <2>1. streak'[r] = 0 /\ window'[r] # "complete" /\ pc'[r] = "idle" BY <1>1
  <2>2. Lasts(r)' BY <2>1, SMT DEF Lasts
  <2>3. QED BY <2>1, <2>2, IdleCovers
<1>7. QED BY <1>5, <1>6 DEF CadenceInv

\* A window later a turn is past by one bucket more.
LEMMA BucketPasses ==
    ASSUME NEW v \in Int, NEW j \in Int
    PROVE  (((v + 1) % Period) - (j + 1)) % Period = (v - j) % Period
<1>1. PICK x \in Int : x = v + 1 BY SMT
<1>2. PICK y \in Int, z \in 0 .. Period - 1 : x = Period * y + z /\ z = x % Period
  BY <1>1, Budget, Divided
<1>3. PICK w \in Int : w = v - j BY SMT
<1>4. PICK u \in Int : u = z - (j + 1) BY SMT
<1>5. PICK m \in Int : m = 0 - y BY SMT
<1>6. u = w + Period * m
  <2>1. Period * y \in Int /\ Period * m = 0 - Period * y BY <1>5, Budget, SMT
  <2>2. PICK p \in Int : p = Period * y BY <2>1
  <2>3. v + 1 = p + z BY <1>1, <1>2, <2>2
  <2>4. u = w + (0 - p) BY <1>3, <1>4, <2>3, SMT
  <2>5. QED BY <2>1, <2>2, <2>4
<1>7. (w + Period * m) % Period = w % Period BY Budget, SameRemainder
<1>8. u % Period = w % Period BY <1>6, <1>7
<1>9. QED BY <1>1, <1>2, <1>3, <1>4, <1>8

LEMMA TickSpins ==
    ASSUME IInv, Sustained, CadenceInv, Tick PROVE CadenceInv'
<1>1. /\ bucket' = [r \in Replicas |-> (bucket[r] + 1) % Period]
      /\ store' = [r \in Replicas |-> [s \in Services |-> Older(store[r][s])]]
      /\ since' = [r \in Replicas |-> IF pc[r] = "idle" THEN 0 ELSE 1]
      /\ streak' = [r \in Replicas |->
                       IF window[r] # "complete" THEN 0
                       ELSE IF streak[r] = Cycle THEN Cycle ELSE streak[r] + 1]
      /\ window' = [r \in Replicas |-> "open"]
      /\ UNCHANGED <<eligible, pc, observed, late>>
  BY DEF Tick
<1>2. Spins /\ eligible \in SUBSET Services BY DEF CadenceInv, Spins
<1>3. Cycle \in Nat \ {0} /\ Cycle < MaxRetention /\ Cycle' = Cycle
  BY <1>1, <1>2, Rotates DEF Cycle
<1>4. \A r \in Replicas : bucket[r] \in Int /\ streak[r] \in 0 .. Cycle
  BY <1>2, Budget, SMT DEF Spins
<1>5. ASSUME NEW r \in Replicas
      PROVE  /\ streak'[r] \in 0 .. Cycle /\ streak'[r] <= streak[r] + 1
             /\ streak'[r] # 0 => window[r] = "complete"
  <2>1. streak'[r] = IF window[r] # "complete" THEN 0
                     ELSE IF streak[r] = Cycle THEN Cycle ELSE streak[r] + 1
    BY <1>1
  <2>2. Cycle \in Nat /\ streak[r] \in 0 .. Cycle BY <1>3, <1>4
  <2>3. QED BY <2>1, <2>2, SMT
<1>6. Spins'
  <2>1. \A r \in Replicas : (bucket[r] + 1) % Period \in 0 .. Period - 1
    <3> SUFFICES ASSUME NEW r \in Replicas
                 PROVE  (bucket[r] + 1) % Period \in 0 .. Period - 1
      OBVIOUS
    <3>1. PICK x \in Int : x = bucket[r] + 1 BY <1>4, SMT
    <3>2. x % Period \in 0 .. Period - 1 BY Budget, Division
    <3>3. QED BY <3>1, <3>2
  <2>2. streak' \in [Replicas -> 0 .. Cycle] BY <1>1, <1>5
  <2>3. QED BY <1>1, <1>2, <1>3, <2>1, <2>2 DEF Spins
<1>7. ASSUME NEW r \in Replicas, NEW j \in Int PROVE Turned(r, j + 1)' = Turned(r, j)
  <2>1. (((bucket[r] + 1) % Period) - (j + 1)) % Period = (bucket[r] - j) % Period
    BY <1>4, BucketPasses
  <2>2. bucket'[r] = (bucket[r] + 1) % Period BY <1>1
  <2>3. QED BY <1>1, <2>1, <2>2 DEF Turned
<1>8. ASSUME NEW r \in Replicas PROVE Lasts(r)'
  <2>1. ASSUME NEW i \in 1 .. streak'[r], NEW s \in Turned(r, i)'
        PROVE  store'[r][s] \in 0 .. i
    <3>1. /\ window[r] = "complete" /\ streak'[r] <= streak[r] + 1
          /\ streak'[r] \in 0 .. Cycle
      BY <1>5, <2>1, SMT
    <3>2. PICK j \in 0 .. streak[r] : i = j + 1 BY <1>4, <2>1, <3>1, SMT
    <3>3. s \in Turned(r, j) /\ s \in Services
      <4>1. j \in Int BY <3>2
      <4>2. s \in Turned(r, j) BY <1>7, <2>1, <3>2, <4>1
      <4>3. QED BY <1>2, <4>2 DEF Turned
    <3>4. store[r][s] \in 0 .. j
      <4>1. CASE j = 0 BY <3>1, <3>3, <4>1, SMT DEF CadenceInv, Lasts
      <4>2. CASE j # 0
        <5>1. j \in 1 .. streak[r] BY <3>2, <4>2, SMT
        <5>2. QED BY <3>3, <5>1 DEF CadenceInv, Lasts
      <4>3. QED BY <4>1, <4>2
    <3>5. j + 1 <= Cycle BY <1>3, <2>1, <3>1, <3>2, SMT
    <3>6. store[r][s] # NoEntry /\ store[r][s] + 1 # MaxRetention
      BY <1>3, <3>4, <3>5, Numbers, SMT
    <3>7. store'[r][s] = store[r][s] + 1 BY <1>1, <3>3, <3>6 DEF Older
    <3>8. QED BY <3>2, <3>4, <3>7, SMT
  <2>2. window'[r] = "open" BY <1>1
  <2>3. QED BY <2>1, <2>2 DEF Lasts
<1>9. ASSUME NEW r \in Replicas PROVE Covers(r)'
  <2>1. CASE pc[r] = "idle" BY <1>1, <2>1, IdleCovers
  <2>2. CASE pc[r] # "idle"
    <3>1. since'[r] = 1 BY <1>1, <2>2
    <3>2. QED BY <3>1 DEF Covers
  <2>3. QED BY <2>1, <2>2
<1>10. QED BY <1>6, <1>8, <1>9 DEF CadenceInv

LEMMA CadenceStep ==
    ASSUME Sustained, IInv, CadenceInv, [Next]_vars PROVE CadenceInv'
<1>1. ASSUME NEW r \in Replicas, Probe(r) PROVE CadenceInv' BY <1>1, ProbeSpins
<1>2. ASSUME NEW r \in Replicas, Merge(r) PROVE CadenceInv' BY <1>2, MergeSpins
<1>3. ASSUME NEW r \in Replicas, Write(r) PROVE CadenceInv' BY <1>3, WriteSpins
<1>4. ASSUME NEW r \in Replicas, Cancel(r) PROVE CadenceInv' BY <1>4, CancelSpins
<1>5. ASSUME NEW r \in Replicas, Restart(r) PROVE CadenceInv' BY <1>5, RestartSpins
<1>6. CASE Recatalogue BY <1>6, RecatalogueSpins
<1>7. CASE Tick BY <1>7, TickSpins
<1>8. CASE UNCHANGED vars
  <2>1. Spins' BY <1>8 DEF CadenceInv, Spins, Cycle, vars
  <2>2. \A r \in Replicas : Lasts(r)' /\ Covers(r)'
    BY <1>8 DEF CadenceInv, Lasts, Covers, Turned, vars
  <2>3. QED BY <2>1, <2>2 DEF CadenceInv
<1>9. QED BY <1>1, <1>2, <1>3, <1>4, <1>5, <1>6, <1>7, <1>8 DEF Next

\* Over a cycle of complete windows each eligible service has had its turn.
LEMMA CycleObserves == Sustained /\ CadenceInv => CadenceKept
<1> SUFFICES ASSUME Sustained, CadenceInv, NEW r \in Replicas, streak[r] >= Cycle,
                    NEW s \in eligible \cap Services
             PROVE  LET interval == Interval(eligible, Limit, s) IN
                    /\ store[r][s] # NoEntry
                    /\ interval # 0 => /\ store[r][s] <= interval
                                       /\ store[r][s] < StaleAfter(s)
  BY DEF CadenceKept
<1>1. Spins /\ Lasts(r) /\ eligible \in SUBSET Services /\ bucket[r] \in Int
  BY Budget, SMT DEF CadenceInv, Spins
<1> DEFINE i == Interval(eligible, Limit, s)
<1>2. i \in 1 .. Cycle /\ Cycle \in Nat \ {0} BY <1>1, Rotates
<1>3. streak[r] = Cycle BY <1>1, <1>2, SMT DEF Spins
<1>4. PICK j \in 1 .. i : s \in Turned(r, j)
  <2>1. PICK j \in 1 .. i : s \in Selected(eligible, Limit, (bucket[r] - j) % Period)
    BY <1>1, Rotates
  <2>2. QED BY <2>1 DEF Turned
<1>5. j \in 1 .. streak[r] BY <1>2, <1>3, <1>4, SMT
<1>6. store[r][s] \in 0 .. j /\ store[r][s] <= i BY <1>1, <1>4, <1>5, WithinInterval
<1>7. store[r][s] # NoEntry BY <1>6, Numbers
<1>8. Cadence(s) = i BY <1>2, SMT DEF Cadence
<1> HIDE DEF i
<1>9. store[r][s] < 2 * i BY <1>2, <1>6, SMT
<1>10. QED BY <1>6, <1>7, <1>8, <1>9 DEF StaleAfter, i

\* For any replicas, catalogue, ranks and budget: whoever refreshed in every window
\* of a cycle, in time, has an observation of each eligible service that is no older
\* than the interval published for it, and nothing of it is stale
\* (select_probe_subset, estimated_probe_interval_seconds, _retention_seconds).
\* The rotation must have a slot and a cycle must be shorter than what is retained;
\* that the buckets wrap between two rounds is a matter of the bound Period.
THEOREM CadenceIsKept ==
    ASSUME RotationHasRoom, CyclesAreRetained, WholeRounds
    PROVE  Spec => []CadenceKept
<1>1. Sustained BY DEF Sustained
<1>2. Init => CadenceInv BY <1>1, CadenceInit
<1>3. IInv /\ CadenceInv /\ [Next]_vars => CadenceInv' BY <1>1, CadenceStep
<1>4. CadenceInv => CadenceKept BY <1>1, CycleObserves
<1>5. QED BY <1>2, <1>3, <1>4, IInvAlways, PTL DEF Spec

\* A limit of more than three, as the code has, keeps a slot free for the rotation
\* however many services are ranked (the reserve of _probe_partitions).
THEOREM RotationKeepsRoom == Limit > 3 => RotationHasRoom
<1> SUFFICES ASSUME Limit > 3, NEW S \in SUBSET Services, ~AllFit(S, Limit)
             PROVE  Slots(S, Limit) > 0
  BY DEF RotationHasRoom
<1>1. /\ Cardinality(Fixed(S, Limit)) \in Nat
      /\ Cardinality(Fixed(S, Limit)) <= Limit - Reserved(Cardinality(S), Limit)
  BY Budget, FixedFits
<1>2. Cardinality(S) \in Nat BY OnlyIsWhole
<1>3. Cardinality(S) > Limit BY <1>2, Budget, SMT DEF AllFit
<1>4. Reserved(Cardinality(S), Limit) \in {2, Limit - 3}
      /\ Reserved(Cardinality(S), Limit) > 0
  BY <1>3, Budget, SMT DEF Reserved
<1>5. QED BY <1>1, <1>4, Budget, SMT DEF Slots

-----------------------------------------------------------------------------
\* What the rounds of ServiceHealth keep.  A set is closed when it holds whoever
\* doubt must reach; trouble stays within every closed set, and as it never goes
\* from a node again, each round that changes something adds a node: the rounds
\* allowed are never used up before nothing changes.
Closed(X) ==
    /\ \A n \in Known : rows[n] \in {"warn", "fail"} => n \in X
    /\ \A pair \in requires :
          pair[1] \in Known /\ pair[2] \in X /\ Trusted(pair[2]) => pair[1] \in X

Troubled   == {n \in Known : effective[n] \in {"warn", "fail"}}
Leaning(n) == \E pair \in requires :
                 pair[1] = n /\ pair[2] \in Troubled /\ Trusted(pair[2])

Judged(n) ==
    \/ effective[n] = rows[n]
    \/ effective[n] = "warn" /\ rows[n] \notin {"warn", "fail"} /\ Leaning(n)

Judging ==
    /\ effective = [n \in Known |-> effective[n]]
    /\ \A n \in Known : Judged(n)
    /\ \A X \in SUBSET Known : Closed(X) => Troubled \subseteq X

Sound(p) ==
    /\ p.state = "fail" => p.failing /\ ~p.up
    /\ p.state = "ok" => p.well /\ ~p.broken
    /\ p.state = "unknown" => ~p.failing /\ ~p.well

HealthInv ==
    /\ Known \subseteq Nodes /\ todo \subseteq Nodes
    /\ rows = [n \in Known |-> rows[n]]
    /\ snapshot \in Snapshots
    /\ phase \in {"services", "shared", "rounds", "done"}
    /\ Sound(proof)
    /\ phase \in {"services", "shared"} => DOMAIN effective = {} /\ round = 0
    /\ phase \in {"rounds", "done"} => Judging
    /\ phase = "rounds" => round \in Nat /\ round <= Cardinality(Troubled)
    /\ phase = "done" => \A n \in Known : effective[n] = EffectiveState(n)

-----------------------------------------------------------------------------
LEMMA KnownFinite ==
    ASSUME Known \subseteq Nodes
    PROVE  /\ IsFiniteSet(Known) /\ Cardinality(Known) \in Nat
           /\ \A X \in SUBSET Known : IsFiniteSet(X) /\ Cardinality(X) \in Nat
                                      /\ Cardinality(X) <= Cardinality(Known)
                              /\ (Cardinality(X) = Cardinality(Known) => X = Known)
<1>1. IsFiniteSet(Known) BY FS_Subset, HealthAssumption
<1>2. Cardinality(Known) \in Nat BY <1>1, FS_CardinalityType
<1>3. ASSUME NEW X \in SUBSET Known
      PROVE  IsFiniteSet(X) /\ Cardinality(X) \in Nat
             /\ Cardinality(X) <= Cardinality(Known)
             /\ (Cardinality(X) = Cardinality(Known) => X = Known)
  <2>1. IsFiniteSet(X) /\ Cardinality(X) <= Cardinality(Known)
        /\ (Cardinality(Known) = Cardinality(X) => Known = X)
    BY <1>1, FS_Subset
  <2>2. Cardinality(X) \in Nat BY <2>1, FS_CardinalityType
  <2>3. QED BY <2>1, <2>2
<1>4. QED BY <1>1, <1>2, <1>3

\* A node has a troubled dependency exactly when it leans on one.
LEMMA LeaningIsDependency ==
    ASSUME NEW n
    PROVE  DependencyStates(n) \cap {"fail", "warn"} # {} <=> Leaning(n)
<1>1. ASSUME NEW t PROVE TargetState(t) \in {"fail", "warn"}
                            <=> t \in Troubled /\ Trusted(t)
  BY DEF TargetState, Troubled, Trusted
<1>2. ASSUME DependencyStates(n) \cap {"fail", "warn"} # {} PROVE Leaning(n)
  <2>1. PICK pair \in requires : pair[1] = n /\ TargetState(pair[2]) \in {"fail", "warn"}
    BY <1>2 DEF DependencyStates
  <2>2. QED BY <2>1, <1>1 DEF Leaning
<1>3. ASSUME Leaning(n) PROVE DependencyStates(n) \cap {"fail", "warn"} # {}
  <2>1. PICK pair \in requires : pair[1] = n /\ pair[2] \in Troubled /\ Trusted(pair[2])
    BY <1>3 DEF Leaning
  <2>2. TargetState(pair[2]) \in {"fail", "warn"} BY <2>1, <1>1
  <2>3. TargetState(pair[2]) \in DependencyStates(n) BY <2>1 DEF DependencyStates
  <2>4. QED BY <2>2, <2>3
<1>4. QED BY <1>2, <1>3

LEMMA EffectiveIs ==
    ASSUME NEW n
    PROVE  EffectiveState(n) = IF rows[n] # "fail" /\ Leaning(n) THEN "warn" ELSE rows[n]
BY LeaningIsDependency DEF EffectiveState

\* No evidence gives a service a state that it does not prove.
LEMMA ProofIsSound ==
    ASSUME NEW known \in Snapshots, NEW e \in Evidence
    PROVE  Sound(Proof(e, known))
<1> DEFINE p == Proof(e, known)
           runtime == RuntimeState(e, known)
           red == IF ProvenUp(e) THEN "warn" ELSE "fail"
<1>1. /\ e.direct \in {"none", "ok", "moved", "warn", "error", "fail", "late"}
      /\ e.internal \in {"none", "ok", "fail", "late"}
      /\ e.app \in {"none", "missing", "ok", "warn", "fail", "deploying"}
      /\ e.issue \in BOOLEAN /\ e.external \in BOOLEAN
      /\ e.tunnel \in {"none", "ok", "warn", "fail"}
      /\ known \in {"none", "fresh", "stale"}
      /\ e.issue => e.app \notin {"none", "missing"}
  BY DEF Evidence, Snapshots
<1>2. /\ runtime = "ok" <=> known = "fresh" /\ e.app = "ok"
      /\ runtime = "fail" <=> known = "fresh" /\ e.app \in {"fail", "deploying"}
      /\ runtime = "warn" <=> known = "fresh" /\ e.app = "warn"
      /\ runtime \in {"none", "ok", "fail", "warn"}
  BY <1>1 DEF RuntimeState
<1>3. ASSUME e.direct # "none", e.direct # "error", runtime # "fail"
      PROVE  LET s == FromDirect(e, runtime) IN
             /\ s \in {"ok", "warn", "fail"}
             /\ s = "fail" => /\ e.direct = "fail" \/ e.tunnel = "fail"
                              /\ ~ProvenUp(e)
             /\ s = "ok" => e.direct \in {"ok", "moved"} /\ e.internal # "fail"
  BY <1>1, <1>3 DEF FromDirect, DirectState, InternalState, ProvenUp
<1>4. ASSUME e.direct = "none", runtime # "fail"
      PROVE  LET s == FromOthers(e, runtime) IN
             /\ s \in {"ok", "warn", "fail", "unknown"}
             /\ s = "fail" => e.internal = "fail"
             /\ s = "ok" => e.internal = "ok" \/ (runtime = "ok" /\ e.internal # "fail")
             /\ s = "unknown" => e.internal = "none" /\ runtime = "none"
                                 /\ e.tunnel = "none"
  BY <1>1, <1>2, <1>4 DEF FromOthers, InternalState
<1>5. QED
  <2>1. CASE Missing(e, known)
    <3>1. p.state = red
      BY <2>1 DEF Proof, RowState, Reconciled
    <3>2. QED BY <1>1, <2>1, <3>1 DEF Sound, Proof, Missing
  <2>2. CASE ~Missing(e, known) /\ e.direct = "error"
    <3>1. p.state = "warn" BY <2>2 DEF Proof, RowState, Reconciled
    <3>2. QED BY <3>1 DEF Sound
  <2>3. CASE ~Missing(e, known) /\ e.direct # "error" /\ runtime = "fail"
    <3>1. p.state = red
      BY <2>3 DEF Proof, RowState, Reconciled
    <3>2. QED BY <1>2, <2>3, <3>1 DEF Sound, Proof
  <2>4. CASE /\ ~Missing(e, known) /\ e.direct \notin {"error", "none"}
             /\ runtime # "fail"
    <3>1. Reconciled(e, known) = FromDirect(e, runtime)
      BY <2>4 DEF Reconciled
    <3>2. \/ e.direct = "fail"
          \/ ~(known = "fresh" /\ e.app \in {"missing", "fail", "deploying"})
      BY <1>1, <1>2, <2>4 DEF Missing
    <3>3. QED BY <1>1, <1>2, <1>3, <2>4, <3>1, <3>2
              DEF Sound, Proof, RowState, Missing
  <2>5. CASE ~Missing(e, known) /\ e.direct = "none" /\ runtime # "fail"
    <3>1. Reconciled(e, known) = FromOthers(e, runtime)
      BY <2>5 DEF Reconciled
    <3>2. ~(known = "fresh" /\ e.app \in {"missing", "fail", "deploying"})
      BY <1>1, <1>2, <2>5 DEF Missing
    <3>3. QED BY <1>1, <1>2, <1>4, <2>5, <3>1, <3>2
              DEF Sound, Proof, RowState, Missing, ProvenUp
  <2>6. QED BY <2>1, <2>2, <2>3, <2>4, <2>5

LEMMA HealthStarts == HealthInit => HealthInv
<1> SUFFICES ASSUME HealthInit PROVE HealthInv OBVIOUS
<1>1. Known = {} /\ DOMAIN effective = {} /\ Troubled = {}
  BY DEF HealthInit, Known, Troubled
<1>2. Judging BY <1>1 DEF Judging
<1>3. Sound(proof) BY DEF HealthInit, NoProof, Sound
<1>4. QED BY <1>1, <1>2, <1>3 DEF HealthInit, HealthInv, Snapshots

-----------------------------------------------------------------------------
\* A round: trouble stays where it is and reaches those who lean on it.
LEMMA RoundKeeps == HealthInv /\ Propagate => HealthInv'
<1> SUFFICES ASSUME HealthInv, Propagate PROVE HealthInv' OBVIOUS
<1>1. /\ phase = "rounds" /\ Judging /\ Known \subseteq Nodes
      /\ round \in Nat /\ round <= Cardinality(Troubled)
  BY DEF Propagate, HealthInv
<1>2. /\ Known' = Known /\ rows' = rows /\ requires' = requires
      /\ snapshot' = snapshot /\ todo' = todo /\ proof' = proof
      /\ effective' = [n \in Known |-> effective'[n]]
      /\ \A n \in Known : effective'[n] = EffectiveState(n)
      /\ round' = round + 1
  BY DEF Propagate, Known
<1>3. \A t : Trusted(t)' = Trusted(t) BY <1>2 DEF Trusted
<1>4. ASSUME NEW n \in Known PROVE n \in Troubled => effective'[n] = effective[n]
  <2>1. Judged(n) BY <1>1 DEF Judging
  <2>2. effective'[n] = IF rows[n] # "fail" /\ Leaning(n) THEN "warn" ELSE rows[n]
    BY <1>2, EffectiveIs
  <2>3. QED BY <2>1, <2>2 DEF Judged, Troubled
<1>5. Troubled \subseteq Troubled'
  BY <1>2, <1>4 DEF Troubled
<1>6. ASSUME NEW n \in Known PROVE Leaning(n) => Leaning(n)'
  <2>1. SUFFICES ASSUME Leaning(n) PROVE Leaning(n)' OBVIOUS
  <2>2. PICK pair \in requires : pair[1] = n /\ pair[2] \in Troubled /\ Trusted(pair[2])
    BY <2>1 DEF Leaning
  <2>3. pair \in requires' /\ pair[2] \in Troubled' /\ Trusted(pair[2])'
    BY <1>2, <1>3, <1>5, <2>2
  <2>4. QED BY <2>2, <2>3 DEF Leaning
<1>7. ASSUME NEW n \in Known PROVE Judged(n)'
  <2>1. effective'[n] = IF rows[n] # "fail" /\ Leaning(n) THEN "warn" ELSE rows[n]
    BY <1>2, EffectiveIs
  <2>2. QED BY <1>2, <1>6, <2>1 DEF Judged
<1>8. ASSUME NEW X \in SUBSET Known', Closed(X)' PROVE Troubled' \subseteq X
  <2>1. X \in SUBSET Known /\ Closed(X) BY <1>2, <1>3, <1>8 DEF Closed
  <2>2. Troubled \subseteq X BY <1>1, <2>1 DEF Judging
  <2>3. ASSUME NEW n \in Troubled' PROVE n \in X
    <3>1. n \in Known /\ effective'[n] \in {"warn", "fail"}
      BY <1>2, <2>3 DEF Troubled
    <3>2. rows[n] \in {"warn", "fail"} \/ Leaning(n)
      BY <1>2, <3>1, EffectiveIs
    <3>3. CASE rows[n] \in {"warn", "fail"} BY <2>1, <3>1, <3>3 DEF Closed
    <3>4. CASE Leaning(n)
      <4>1. PICK pair \in requires :
                pair[1] = n /\ pair[2] \in Troubled /\ Trusted(pair[2])
        BY <3>4 DEF Leaning
      <4>2. pair[1] \in Known /\ pair[2] \in X BY <2>2, <3>1, <4>1
      <4>3. QED BY <2>1, <4>1, <4>2 DEF Closed
    <3>5. QED BY <3>2, <3>3, <3>4
  <2>4. QED BY <2>3
<1>9. Judging' BY <1>2, <1>7, <1>8 DEF Judging
<1>10. ASSUME effective' # effective
       PROVE  Cardinality(Troubled) + 1 <= Cardinality(Troubled')
  <2>1. PICK n \in Known : effective'[n] # effective[n]
    <3>1. SUFFICES ASSUME \A n \in Known : effective'[n] = effective[n] PROVE FALSE
      OBVIOUS
    <3>2. effective' = [n \in Known |-> effective[n]]
      BY <3>1 DEF Propagate
    <3>3. QED BY <1>1, <1>10, <3>2 DEF Judging
  <2>2. n \notin Troubled BY <1>4, <2>1
  <2>3. n \in Troubled'
    <3>1. Judged(n) BY <1>1 DEF Judging
    <3>2. effective'[n] = IF rows[n] # "fail" /\ Leaning(n) THEN "warn" ELSE rows[n]
      BY <1>2, EffectiveIs
    <3>3. effective'[n] = "warn" BY <2>1, <2>2, <3>1, <3>2 DEF Judged, Troubled
    <3>4. QED BY <1>2, <3>3 DEF Troubled
  <2>4. Troubled' \subseteq Known BY <1>2 DEF Troubled
  <2>5. IsFiniteSet(Troubled') /\ Cardinality(Troubled') \in Nat
    BY <1>1, <2>4, KnownFinite
  <2>6. /\ IsFiniteSet(Troubled)
        /\ Cardinality(Troubled) <= Cardinality(Troubled')
        /\ Cardinality(Troubled') = Cardinality(Troubled) => Troubled' = Troubled
    BY <1>5, <2>5, FS_Subset
  <2>7. Cardinality(Troubled) \in Nat BY <2>6, FS_CardinalityType
  <2>8. QED BY <2>2, <2>3, <2>5, <2>6, <2>7
<1>11. phase' \in {"rounds", "done"} BY DEF Propagate
<1>12. ASSUME phase' = "rounds"
       PROVE  round' \in Nat /\ round' <= Cardinality(Troubled')
  <2>1. effective' # effective BY <1>12 DEF Propagate
  <2>2. Cardinality(Troubled) + 1 <= Cardinality(Troubled') BY <2>1, <1>10
  <2>3. Troubled \subseteq Known /\ Troubled' \subseteq Known BY <1>2 DEF Troubled
  <2>4. Cardinality(Troubled) \in Nat /\ Cardinality(Troubled') \in Nat
    BY <1>1, <2>3, KnownFinite
  <2>5. QED BY <1>1, <1>2, <2>2, <2>4
<1>13. ASSUME phase' = "done" PROVE effective' = effective
  <2>1. SUFFICES ASSUME effective' # effective PROVE FALSE OBVIOUS
  <2>2. round' = MaxRounds BY <1>13, <2>1 DEF Propagate
  <2>3. Cardinality(Troubled) + 1 <= Cardinality(Troubled') BY <2>1, <1>10
  <2>4. Troubled \subseteq Known /\ Troubled' \subseteq Known BY <1>2 DEF Troubled
  <2>5. /\ Cardinality(Troubled) \in Nat /\ Cardinality(Troubled') \in Nat
        /\ Cardinality(Known) \in Nat
        /\ Cardinality(Troubled') <= Cardinality(Known)
    BY <1>1, <2>4, KnownFinite
  <2>6. round + 1 = Cardinality(Known) + 1 BY <1>2, <2>2 DEF MaxRounds
  <2>7. QED BY <1>1, <2>3, <2>5, <2>6
<1>14. ASSUME phase' = "done", NEW n \in Known'
       PROVE  effective'[n] = EffectiveState(n)'
  <2>1. effective' = effective BY <1>13, <1>14
  <2>2. EffectiveState(n)' = EffectiveState(n)
    BY <1>2, <2>1 DEF EffectiveState, DependencyStates, TargetState, Trusted
  <2>3. QED BY <1>2, <1>14, <2>2
<1>15. QED BY <1>1, <1>2, <1>9, <1>11, <1>12, <1>14 DEF HealthInv

\* Before the rounds no node has an effective state; they start from the rows.
LEMMA RowsKeep ==
    HealthInv /\ (Begin \/ Reconcile \/ Project \/ FoldIn \/ UNCHANGED healthVars)
        => HealthInv'
<1>1. ASSUME HealthInv, Begin PROVE HealthInv'
  <2>1. Known' = {} /\ DOMAIN effective' = {} BY <1>1 DEF Begin, Known
  <2>2. Sound(NoProof) BY DEF NoProof, Sound
  <2>3. QED BY <1>1, <2>1, <2>2 DEF Begin, HealthInv
<1>2. ASSUME HealthInv, Reconcile PROVE HealthInv'
  <2> DEFINE n == CHOOSE m \in todo : TRUE
  <2>1. n \in todo /\ n \in Nodes BY <1>2 DEF Reconcile, HealthInv
  <2>2. PICK p \in Proofs[snapshot] :
            proof' = p /\ rows' = WithRow(n, p.state) /\ todo' = todo \ {n}
    BY <1>2 DEF Reconcile
  <2>3. Sound(p)
    <3>1. PICK e \in Evidence : p = Proof(e, snapshot)
      BY <1>2, <2>2 DEF Proofs, HealthInv
    <3>2. QED BY <1>2, <3>1, ProofIsSound DEF HealthInv
  <2>4. Known' = Known \cup {n} /\ rows' = [m \in Known' |-> rows'[m]]
    BY <2>2 DEF Known, WithRow
  <2>5. QED BY <1>2, <2>1, <2>2, <2>3, <2>4 DEF Reconcile, HealthInv
<1>3. ASSUME HealthInv, Project PROVE HealthInv'
  <2>1. Known' \subseteq Nodes /\ rows' = [m \in Known' |-> rows'[m]]
    BY <1>3 DEF Project, Known, HealthInv
  <2>2. Sound(NoProof) BY DEF NoProof, Sound
  <2>3. QED BY <1>3, <2>1, <2>2 DEF Project, HealthInv
<1>4. ASSUME HealthInv, FoldIn PROVE HealthInv'
  <2>1. Known' = Known /\ rows' = [m \in Known' |-> rows'[m]]
    <3>1. CASE UNCHANGED rows BY <1>4, <3>1 DEF Known, HealthInv
    <3>2. ASSUME NEW state, Database \in Known, rows' = WithRow(Database, state)
          PROVE  Known' = Known /\ rows' = [m \in Known' |-> rows'[m]]
      BY <3>2 DEF Known, WithRow
    <3>3. QED BY <1>4, <3>1, <3>2 DEF FoldIn
  <2>2. effective' = rows' BY <1>4 DEF FoldIn
  <2>3. Judging' BY <2>1, <2>2 DEF Judging, Judged, Closed, Troubled
  <2>4. Troubled' \subseteq Known' BY DEF Troubled
  <2>5. Cardinality(Troubled') \in Nat
    <3>1. Troubled' \subseteq Known BY <2>1, <2>4
    <3>2. QED BY <1>4, <3>1, KnownFinite DEF HealthInv
  <2>6. round' = 0 /\ phase' = "rounds" BY <1>4 DEF FoldIn, HealthInv
  <2>7. QED BY <1>4, <2>1, <2>3, <2>5, <2>6 DEF FoldIn, HealthInv
<1>5. ASSUME HealthInv, UNCHANGED healthVars PROVE HealthInv'
  <2>1. Known' = Known /\ Troubled' = Troubled
    BY <1>5 DEF healthVars, Known, Troubled
  <2>2. \A n : Leaning(n)' <=> Leaning(n)
    BY <1>5, <2>1 DEF healthVars, Leaning, Trusted
  <2>3. \A n : EffectiveState(n)' = EffectiveState(n)
    BY <1>5, <2>1 DEF healthVars, EffectiveState, DependencyStates, TargetState, Trusted
  <2>4. Judging' <=> Judging
    BY <1>5, <2>1, <2>2 DEF healthVars, Judging, Judged, Closed, Trusted
  <2>5. QED BY <1>5, <2>1, <2>3, <2>4 DEF healthVars, HealthInv
<1>6. QED BY <1>1, <1>2, <1>3, <1>4, <1>5

LEMMA HealthInvAlways == HealthSpec => []HealthInv
<1>1. HealthInv /\ [HealthNext]_healthVars => HealthInv'
  BY RoundKeeps, RowsKeep DEF HealthNext
<1>2. QED BY <1>1, HealthStarts, PTL DEF HealthSpec

-----------------------------------------------------------------------------
\* When the rounds end, what is troubled is what doubt reaches.
LEMMA TroubledIsReached ==
    ASSUME HealthInv, phase = "done"
    PROVE  Troubled = Reached
<1>1. Judging /\ \A n \in Known : effective[n] = EffectiveState(n)
  BY DEF HealthInv
<1>2. Reached = {n \in Known : \A X \in SUBSET Known : Closed(X) => n \in X}
  BY DEF Reached, Closed
<1>3. Closed(Troubled)
  <2>1. ASSUME NEW n \in Known, rows[n] \in {"warn", "fail"} PROVE n \in Troubled
    BY <1>1, <2>1, EffectiveIs DEF Troubled
  <2>2. ASSUME NEW pair \in requires, pair[1] \in Known, pair[2] \in Troubled,
               Trusted(pair[2])
        PROVE  pair[1] \in Troubled
    <3>1. Leaning(pair[1]) BY <2>2 DEF Leaning
    <3>2. effective[pair[1]] \in {"warn", "fail"} BY <1>1, <2>2, <3>1, EffectiveIs
    <3>3. QED BY <2>2, <3>2 DEF Troubled
  <2>3. QED BY <2>1, <2>2 DEF Closed
<1>4. Troubled \in SUBSET Known BY DEF Troubled
<1>5. Reached \subseteq Troubled BY <1>2, <1>3, <1>4
<1>6. Troubled \subseteq Reached BY <1>1, <1>2, <1>4 DEF Judging
<1>7. QED BY <1>5, <1>6

\* For any nodes and any required relations, around cycles too: the rounds that
\* propagate_required_dependency_health allows itself suffice for doubt to reach
\* whoever depends on trouble, and it reaches nobody else.
THEOREM DoubtReachesAll == HealthSpec => []DoubtIsReached
<1>1. HealthInv => DoubtIsReached
  <2> SUFFICES ASSUME HealthInv, phase = "done", NEW n \in Known
               PROVE  effective[n] = IF n \notin Reached \/ rows[n] = "fail"
                                     THEN rows[n] ELSE "warn"
    BY DEF DoubtIsReached
  <2>1. Judged(n) BY DEF HealthInv, Judging
  <2>2. n \in Reached <=> n \in Troubled BY TroubledIsReached
  <2>3. QED BY <2>1, <2>2 DEF Judged, Troubled
<1>2. QED BY <1>1, HealthInvAlways, PTL

\* For any nodes and relations: reconcile_service_state turns no service red or
\* green without proof, and propagation only ever casts doubt.
THEOREM VerdictsAreProved == HealthSpec => []VerdictsProved
<1>1. HealthInv => VerdictsProved
  <2> SUFFICES ASSUME HealthInv PROVE VerdictsProved OBVIOUS
  <2>1. ASSUME NEW n \in DOMAIN effective, effective[n] # rows[n]
        PROVE  effective[n] = "warn" /\ rows[n] # "fail"
    <3>1. Judging BY <2>1 DEF HealthInv
    <3>2. Judged(n) BY <2>1, <3>1 DEF Judging
    <3>3. QED BY <2>1, <3>2 DEF Judged
  <2>2. Sound(proof) BY DEF HealthInv
  <2>3. QED BY <2>1, <2>2 DEF VerdictsProved, Sound
<1>2. QED BY <1>1, HealthInvAlways, PTL

-----------------------------------------------------------------------------
(***************************************************************************)
(* What was read of pfSense, and the verdict about its resolver.           *)
(***************************************************************************)

\* What the two reads behind the verdict have shown of the appliance.
Fields == {"services", "resolver"}
Shown(e, at) == IF e = "services" THEN at.running ELSE at.enabled

\* What was learned was true of some state among those seen.
LearnedFrom(known, seen) ==
    \A e \in Fields : known[e] # "unknown" => \E at \in seen : Shown(e, at) = known[e]

\* A refresh has learned only what it has seen, and it sees every change; without
\* one nothing is known.
RefreshSaw ==
    /\ got \in [Posture!Endpoints -> {"unknown", "read", "yes", "no"}]
    /\ LearnedFrom(got, during)
    /\ IF stage = "idle" THEN got = Posture!Unread ELSE appliance \in during

\* So has the refresh that a kept result comes from.
ResultSaw(r) == r.kind = "read" => LearnedFrom(r.got, r.during)

PostureInv ==
    /\ appliance \in Posture!Appliances
    /\ RefreshSaw
    /\ ResultSaw(current) /\ ResultSaw(lastGood)

\* An answer that is read now shows the appliance as it is now.
LEMMA LearnedNow ==
    ASSUME PostureInv, stage # "idle", NEW e \in Posture!Endpoints, NEW answer,
           got' = Posture!Learned(e, answer), during' = during
    PROVE  /\ got' \in [Posture!Endpoints -> {"unknown", "read", "yes", "no"}]
           /\ LearnedFrom(got', during')
<1>1. CASE answer # "data"
  BY <1>1 DEF Posture!Learned, PostureInv, RefreshSaw
<1>2. CASE answer = "data"
  <2>1. got' = [got EXCEPT ![e] = Posture!Shows(e, appliance)]
    BY <1>2 DEF Posture!Learned
  <2>2. /\ Posture!Shows(e, appliance) \in {"read", "yes", "no"}
        /\ e \in Fields => Posture!Shows(e, appliance) = Shown(e, appliance)
    BY DEF PostureInv, Posture!Appliances, Posture!Up, Posture!Shows, Shown, Fields
  <2>3. /\ got' \in [Posture!Endpoints -> {"unknown", "read", "yes", "no"}]
        /\ \A f \in Posture!Endpoints \ {e} : got'[f] = got[f]
        /\ got'[e] = Posture!Shows(e, appliance)
    BY <2>1, <2>2 DEF PostureInv, RefreshSaw
  <2>4. Fields \subseteq Posture!Endpoints
    BY DEF Fields, Posture!Endpoints, Posture!Deep
  <2> QED BY <2>2, <2>3, <2>4 DEF PostureInv, RefreshSaw, LearnedFrom
<1> QED BY <1>1, <1>2

\* What a refresh that ends hands to the cache was seen by it.
LEMMA StoreSaw ==
    ASSUME PostureInv, NEW kind, NEW answers, Posture!Store(kind, answers)
    PROVE  ResultSaw(current') /\ ResultSaw(lastGood')
<1>1. current'.got = got /\ current'.during = during
  BY DEF Posture!Store
<1>2. ResultSaw(current')
  BY <1>1 DEF PostureInv, RefreshSaw, ResultSaw
<1> QED BY <1>2 DEF Posture!Store, PostureInv

\* And the refresh is over.
LEMMA OverSaw ==
    ASSUME Posture!Over
    PROVE  /\ stage' = "idle" /\ got' = Posture!Unread
           /\ got' \in [Posture!Endpoints -> {"unknown", "read", "yes", "no"}]
           /\ LearnedFrom(got', during')
BY DEF Posture!Over, Posture!Unread, Posture!Endpoints, Posture!Deep, LearnedFrom,
       Fields

LEMMA PostureInit == Posture!Init => PostureInv
<1>1. Posture!Idle =>
        /\ stage = "idle" /\ got = Posture!Unread
        /\ got \in [Posture!Endpoints -> {"unknown", "read", "yes", "no"}]
        /\ LearnedFrom(got, during)
  BY DEF Posture!Idle, Posture!Unread, Posture!Endpoints, Posture!Deep, LearnedFrom,
         Fields
<1> QED BY <1>1 DEF Posture!Init, Posture!None, PostureInv, RefreshSaw, ResultSaw

LEMMA PostureStep == PostureInv /\ [Posture!Next]_posture => PostureInv'
<1> SUFFICES ASSUME PostureInv, [Posture!Next]_posture PROVE PostureInv'
  OBVIOUS
<1>1. ASSUME UNCHANGED <<appliance, current, lastGood>>,
             got' \in [Posture!Endpoints -> {"unknown", "read", "yes", "no"}],
             LearnedFrom(got', during'),
             IF stage' = "idle" THEN got' = Posture!Unread ELSE appliance \in during'
      PROVE  PostureInv'
  BY <1>1 DEF PostureInv, RefreshSaw, ResultSaw
<1>2. ASSUME NEW kind, NEW answers, Posture!Store(kind, answers), Posture!Over,
             UNCHANGED appliance
      PROVE  PostureInv'
  BY <1>2, StoreSaw, OverSaw DEF PostureInv, RefreshSaw
<1>3. CASE Posture!Begin
  <2>1. LearnedFrom(got', during')
    BY <1>3 DEF Posture!Begin, Posture!Unread, Posture!Endpoints, Posture!Deep,
                LearnedFrom, Fields
  <2> QED BY <1>1, <1>3, <2>1 DEF Posture!Begin, Posture!cache, Posture!Unread
<1>4. ASSUME NEW answer \in Posture!Answers, NEW slow \in BOOLEAN,
             Posture!Preflight(answer, slow)
      PROVE  PostureInv'
  <2>1. CASE Posture!GoDeep(answer)
    <3>1. /\ stage = "preflight" /\ stage' = "deep" /\ got' = Posture!Learned("system", answer)
          /\ UNCHANGED <<appliance, current, lastGood, during>>
      BY <1>4, <2>1 DEF Posture!Preflight, Posture!GoDeep, Posture!cache
    <3> QED BY <1>1, <3>1, LearnedNow DEF PostureInv, RefreshSaw, Posture!Endpoints
  <2>2. ASSUME NEW kind, Posture!Skip(kind, answer) PROVE PostureInv'
    BY <1>2, <1>4, <2>2 DEF Posture!Skip, Posture!Preflight
  <2> QED BY <1>4, <2>1, <2>2 DEF Posture!Preflight
<1>5. ASSUME NEW e \in Posture!Deep, Posture!Ask(e) PROVE PostureInv'
  BY <1>1, <1>5 DEF Posture!Ask, Posture!cache, PostureInv, RefreshSaw
<1>6. ASSUME NEW e \in Posture!Deep, NEW answer, Posture!DeepRead(e, answer)
      PROVE  PostureInv'
  <2>1. /\ stage = "deep" /\ stage' = "deep" /\ got' = Posture!Learned(e, answer)
        /\ UNCHANGED <<appliance, current, lastGood, during>>
    BY <1>6 DEF Posture!DeepRead, Posture!cache
  <2> QED BY <1>1, <2>1, LearnedNow DEF PostureInv, RefreshSaw, Posture!Endpoints
<1>7. CASE Posture!Finish
  BY <1>2, <1>7 DEF Posture!Finish
<1>8. ASSUME NEW who, Posture!Interrupt(who) PROVE PostureInv'
  <2>1. CASE stage = "preflight" /\ UNCHANGED <<current, lastGood, got, during>>
    BY <1>1, <1>8, <2>1 DEF Posture!Interrupt, PostureInv, RefreshSaw
  <2>2. CASE Posture!Store("late", Posture!NoReads) /\ Posture!Over
    BY <1>2, <1>8, <2>2 DEF Posture!Interrupt
  <2>3. CASE UNCHANGED <<current, lastGood>> /\ Posture!Over
    BY <1>1, <1>8, <2>3, OverSaw DEF Posture!Interrupt
  <2> QED BY <1>8, <2>1, <2>2, <2>3 DEF Posture!Interrupt, Posture!cache
<1>9. CASE Posture!Forget
  BY <1>9 DEF Posture!Forget, Posture!refresh, Posture!None, PostureInv, RefreshSaw,
              ResultSaw
<1>10. CASE Posture!Change
  <2>1. PICK at \in Posture!Appliances :
          /\ appliance' = at
          /\ during' = IF stage = "idle" THEN {} ELSE during \cup {at}
    BY <1>10 DEF Posture!Change
  <2>2. UNCHANGED <<stage, got, current, lastGood>>
    BY <1>10 DEF Posture!Change
  <2>3. CASE stage = "idle"
    <3>1. LearnedFrom(got, {})
      BY <2>3 DEF PostureInv, RefreshSaw, LearnedFrom, Posture!Unread,
                  Posture!Endpoints, Posture!Deep, Fields
    <3> QED BY <2>1, <2>2, <2>3, <3>1 DEF PostureInv, RefreshSaw, ResultSaw
  <2>4. CASE stage # "idle"
    <3>1. LearnedFrom(got, during')
      BY <2>1, <2>4 DEF PostureInv, RefreshSaw, LearnedFrom
    <3> QED BY <2>1, <2>2, <2>4, <3>1 DEF PostureInv, RefreshSaw, ResultSaw
  <2> QED BY <2>3, <2>4
<1>11. CASE UNCHANGED posture
  BY <1>11 DEF posture, PostureInv, RefreshSaw, ResultSaw
<1> QED BY <1>3, <1>4, <1>5, <1>6, <1>7, <1>8, <1>9, <1>10, <1>11 DEF Posture!Next

\* Whatever requests fail, are refused, slow or cut off, whatever is served in
\* place of an answer and however the appliance changes between the reads: a
\* verdict about Unbound that is not "unknown" was true while it was read.
THEOREM VerdictsWereTrue == Posture!Spec => []VerdictWasTrue
<1>1. PostureInv => VerdictWasTrue
  <2> SUFFICES ASSUME PostureInv, NEW s \in Posture!Served
               PROVE  LET seen == s.result.during
                      IN  /\ Posture!Unbound(s) = "down" =>
                                \E at \in seen : at.enabled = "no" \/ at.running = "no"
                          /\ Posture!Unbound(s) = "up" =>
                                /\ \E at \in seen : at.enabled = "yes"
                                /\ \E at \in seen : at.running = "yes"
    BY DEF VerdictWasTrue, Posture!VerdictWasTrue
  <2>1. ResultSaw(s.result)
    BY DEF Posture!Served, Posture!Answer, PostureInv
  <2>2. ASSUME Posture!Enabled(s.result) \in {"yes", "no"}
        PROVE  \E at \in s.result.during : at.enabled = Posture!Enabled(s.result)
    BY <2>1, <2>2 DEF Posture!Enabled, Posture!Shown, ResultSaw, LearnedFrom, Fields,
                      Shown
  <2>3. ASSUME Posture!Running(s.result) \in {"yes", "no"}
        PROVE  \E at \in s.result.during : at.running = Posture!Running(s.result)
    BY <2>1, <2>3 DEF Posture!Running, Posture!Shown, ResultSaw, LearnedFrom, Fields,
                      Shown
  <2>4. Posture!Unbound(s) = "down" =>
          "no" \in {Posture!Enabled(s.result), Posture!Running(s.result)}
    BY DEF Posture!Unbound, Posture!PolicyState
  <2>5. Posture!Unbound(s) = "up" =>
          Posture!Enabled(s.result) = "yes" /\ Posture!Running(s.result) = "yes"
    BY DEF Posture!Unbound, Posture!PolicyState
  <2> QED BY <2>2, <2>3, <2>4, <2>5
<1>2. QED BY <1>1, PostureInit, PostureStep, PTL DEF Posture!Spec, Posture!vars, posture

=============================================================================
