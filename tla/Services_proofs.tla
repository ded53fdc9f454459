-------------------------- MODULE Services_proofs --------------------------
(***************************************************************************)
(* Theorems about the four services of MCServices, each for every value of *)
(* its constants: ProviderBudget itself, Note (Notes), Events              *)
(* (EventBroadcast) and App (AppLifespan).                                 *)
(*                                                                         *)
(* The budget: neither bound is inductive alone.  What all replicas admit  *)
(* in a window is bounded by what its key has counted, as long as anyone   *)
(* may still count in it.  What one replica admits is bounded together     *)
(* with the calls it has already numbered within the budget and not yet    *)
(* answered.                                                               *)
(***************************************************************************)
EXTENDS MCServices, FiniteSetTheorems, SequenceTheorems, FunctionTheorems, TLAPS

\* Nobody counts in a window any more.
Closed(b) ==
    /\ \A r \in Replicas : clock[r] > b
    /\ \A c \in Calls : pc[c] = "counting" => ticket[c].bucket # b

KeyCounts ==
    \A b \in Windows : shared[b] <= MaxRequests /\ (shared[b] <= remote[b] \/ Closed(b))

\* Calls of a replica that are numbered within the budget of a window.
Numbered(r, b) ==
    {c \in Calls : /\ Home[c] = r /\ pc[c] = "counting"
                   /\ ticket[c].bucket = b /\ ticket[c].count <= MaxRequests}

\* The numbers given out for a window since the replica last forgot.
Given(r, b) ==
    IF local[r].bucket = b
    THEN IF local[r].count <= MaxRequests THEN local[r].count ELSE MaxRequests
    ELSE IF local[r].bucket < b THEN 0 ELSE MaxRequests

Times(f) == MaxRequests * f

NumbersCount ==
    \A r \in Replicas, b \in Windows :
        alone[r][b] + Cardinality(Numbered(r, b)) <= Times(forgets[r]) + Given(r, b)

Forward == \A r \in Replicas : local[r].bucket <= clock[r]

-----------------------------------------------------------------------------
LEMMA Numbers ==
    /\ MaxRequests \in Nat /\ MaxRequests > 0
    /\ MaxWindow \in Nat /\ MaxForgets \in Nat
    /\ Home \in [Calls -> Replicas]
BY BudgetAssumption DEF BudgetAssumption

LEMMA TimesStep ==
    \A f \in Nat : /\ Times(f) \in Nat
                   /\ Times(f + 1) = Times(f) + MaxRequests
BY Numbers, SMT DEF Times

LEMMA InitType == Init => TypeOK
<1> SUFFICES ASSUME Init PROVE TypeOK OBVIOUS
<1>1. 0 \in Windows /\ 0 \in Counts /\ 0 \in 0 .. MaxForgets
  BY Numbers, SMT DEF Windows, Counts
<1>2. NoTicket \in Count BY <1>1 DEF NoTicket, Count
<1>3. QED BY <1>1, <1>2 DEF Init, TypeOK

LEMMA CountTypes ==
    ASSUME TypeOK
    PROVE  /\ \A n \in Counts : Another(n) \in Counts
           /\ \A r \in Replicas : LocalCount(r) \in Count
           /\ NoTicket \in Count
<1>1. 0 \in Windows /\ 0 \in Counts /\ 1 \in Counts
  BY Numbers, SMT DEF Windows, Counts
<1>2. ASSUME NEW n \in Counts PROVE Another(n) \in Counts
  BY Numbers, SMT DEF Counts, Another
<1>3. ASSUME NEW r \in Replicas PROVE LocalCount(r) \in Count
  <2>1. clock[r] \in Windows /\ local[r].count \in Counts BY DEF TypeOK, Count
  <2>2. QED BY <1>1, <1>2, <2>1 DEF LocalCount, Count
<1>4. QED BY <1>1, <1>2, <1>3 DEF NoTicket, Count

LEMMA AdmittedType ==
    ASSUME TypeOK, NEW r \in Replicas, NEW b \in Windows, NEW a \in BOOLEAN,
           Admitted(r, b, a)
    PROVE  alone' \in [Replicas -> [Windows -> Nat]]
<1>1. alone[r][b] + 1 \in Nat BY SMT DEF TypeOK
<1>2. [alone[r] EXCEPT ![b] = @ + 1] \in [Windows -> Nat] BY <1>1, SMT DEF TypeOK
<1>3. QED BY <1>2, SMT DEF TypeOK, Admitted

\* Every variable keeps its type.
LEMMA NextType == TypeOK /\ [Next]_vars => TypeOK'
<1> SUFFICES ASSUME TypeOK, [Next]_vars PROVE TypeOK' OBVIOUS
<1> USE Numbers, CountTypes
<1>1. ASSUME NEW c \in Calls, Ask(c) PROVE TypeOK'
  <2> DEFINE r == Home[c]  mine == LocalCount(r)
  <2>1. r \in Replicas OBVIOUS
  <2>2. mine \in Count /\ mine.bucket \in Windows /\ mine.count \in Counts
    BY <2>1, SMT DEF Count
  <2>3. Within(mine.count) \in BOOLEAN BY DEF Within
  <2>4. alone' \in [Replicas -> [Windows -> Nat]]
    <3>1. CASE Admitted(r, mine.bucket, Within(mine.count))
      BY <3>1, <2>1, <2>2, <2>3, AdmittedType
    <3>2. CASE UNCHANGED alone BY <3>2 DEF TypeOK
    <3>3. QED BY <1>1, <3>1, <3>2 DEF Ask
  <2>5. local' = [local EXCEPT ![r] = mine] BY <1>1 DEF Ask
  <2>6. local' \in [Replicas -> Count] BY <2>1, <2>2, <2>5 DEF TypeOK
  <2>7. /\ pc' \in [Calls -> {"idle", "counting"}]
        /\ ticket' \in [Calls -> Count]
    <3>1. CASE /\ pc' = [pc EXCEPT ![c] = "counting"]
               /\ ticket' = [ticket EXCEPT ![c] = mine]
      BY <3>1, <2>2 DEF TypeOK
    <3>2. CASE UNCHANGED <<pc, ticket>> BY <3>2 DEF TypeOK
    <3>3. QED BY <1>1, <3>1, <3>2 DEF Ask
  <2>8. QED BY <1>1, <2>4, <2>6, <2>7 DEF Ask, TypeOK
<1>2. ASSUME NEW c \in Calls, RemoteCount(c) PROVE TypeOK'
  <2> DEFINE b == ticket[c].bucket  n == Another(remote[b])  a == BothAllow(c, n)
  <2>1. b \in Windows BY SMT DEF TypeOK, Count
  <2>2. n \in Counts BY <2>1 DEF TypeOK
  <2>3. a \in BOOLEAN BY DEF BothAllow, Within
  <2>4. Home[c] \in Replicas OBVIOUS
  <2>5. alone' \in [Replicas -> [Windows -> Nat]]
    BY <1>2, <2>1, <2>3, <2>4, AdmittedType DEF RemoteCount
  <2>6. shared' \in [Windows -> Nat]
    BY <1>2, <2>1, SMT DEF RemoteCount, TypeOK
  <2>7. remote' \in [Windows -> Counts] BY <1>2, <2>1, <2>2 DEF RemoteCount, TypeOK
  <2>8. QED BY <1>2, <2>5, <2>6, <2>7 DEF RemoteCount, Answered, TypeOK
<1>3. ASSUME NEW c \in Calls, RemoteRaised(c) PROVE TypeOK'
  <2> DEFINE b == ticket[c].bucket
  <2>1. b \in Windows BY SMT DEF TypeOK, Count
  <2>2. remote' \in [Windows -> Counts] BY <1>3, <2>1 DEF RemoteRaised, TypeOK
  <2>3. Home[c] \in Replicas /\ Within(ticket[c].count) \in BOOLEAN
    BY DEF Within
  <2>4. alone' \in [Replicas -> [Windows -> Nat]]
    BY <1>3, <2>1, <2>3, AdmittedType DEF RemoteRaised
  <2>5. QED BY <1>3, <2>2, <2>4 DEF RemoteRaised, Answered, TypeOK
<1>4. ASSUME NEW c \in Calls, Cancel(c) PROVE TypeOK'
  <2>1. ticket[c].bucket \in Windows BY SMT DEF TypeOK, Count
  <2>2. remote' \in [Windows -> Counts] BY <1>4, <2>1 DEF Cancel, TypeOK
  <2>3. QED BY <1>4, <2>2 DEF Cancel, Answered, TypeOK
<1>5. ASSUME NEW r \in Replicas, Tick(r) PROVE TypeOK'
  <2>1. clock[r] \in Windows /\ clock[r] < MaxWindow BY <1>5 DEF Tick, TypeOK
  <2>2. clock[r] + 1 \in Windows BY <2>1, SMT DEF Windows
  <2>3. QED BY <1>5, <2>2 DEF Tick, TypeOK
<1>6. ASSUME NEW r \in Replicas, Forget(r)
      PROVE  /\ local' \in [Replicas -> Count]
             /\ forgets' \in [Replicas -> 0 .. MaxForgets]
  <2>1. local' \in [Replicas -> Count] BY <1>6 DEF Forget, TypeOK
  <2>2. forgets' \in [Replicas -> 0 .. MaxForgets]
    BY <1>6, SMT DEF Forget, TypeOK
  <2>3. QED BY <2>1, <2>2
<1>7. ASSUME NEW r \in Replicas, Reset(r) PROVE TypeOK'
  BY <1>6, <1>7 DEF Reset, TypeOK
<1>8. ASSUME NEW r \in Replicas, Restart(r) PROVE TypeOK'
  BY <1>6, <1>8 DEF Restart, TypeOK
<1>9. ASSUME NEW b \in Windows, Expire(b) PROVE TypeOK'
  BY <1>9, SMT DEF Expire, TypeOK, Counts
<1>10. CASE UNCHANGED vars BY <1>10 DEF vars, TypeOK
<1>11. QED
  BY <1>1, <1>2, <1>3, <1>4, <1>5, <1>7, <1>8, <1>9, <1>10 DEF Next

\* The counters of the rate budget keep their types.
THEOREM BudgetTypeCorrect == Spec => []TypeOK
<1>1. Init => TypeOK BY InitType
<1>2. TypeOK /\ [Next]_vars => TypeOK' BY NextType
<1>3. QED BY <1>1, <1>2, PTL DEF Spec

-----------------------------------------------------------------------------
LEMMA GivenType ==
    ASSUME TypeOK, NEW r \in Replicas, NEW b \in Windows
    PROVE  Given(r, b) \in 0 .. MaxRequests
<1>1. local[r].bucket \in Nat /\ local[r].count \in Nat /\ b \in Nat
  BY Numbers, SMT DEF TypeOK, Count, Counts, Windows
<1>2. QED BY <1>1, Numbers, SMT DEF Given

LEMMA NumberedFinite ==
    \A r, b : /\ IsFiniteSet(Numbered(r, b))
              /\ Cardinality(Numbered(r, b)) \in Nat
BY BudgetAssumption, FS_Subset, FS_CardinalityType DEF BudgetAssumption, Numbered

\* A call that is answered gives its number up.
LEMMA AnsweredNumbered ==
    ASSUME TypeOK, NEW c \in Calls, pc[c] = "counting", Answered(c), NEW r, NEW b
    PROVE  Numbered(r, b)' = Numbered(r, b) \ {c}
BY DEF TypeOK, Answered, Numbered

\* What the admission of an answered call adds, its number had already counted.
LEMMA AnsweredCounts ==
    ASSUME TypeOK, NumbersCount, NEW c \in Calls, pc[c] = "counting", Answered(c),
           UNCHANGED <<local, forgets>>,
           NEW a \in BOOLEAN, a => Within(ticket[c].count),
           Admitted(Home[c], ticket[c].bucket, a)
    PROVE  NumbersCount'
<1> SUFFICES ASSUME NEW r \in Replicas, NEW b \in Windows
             PROVE  alone'[r][b] + Cardinality(Numbered(r, b)')
                      <= Times(forgets[r]) + Given(r, b)
  BY DEF NumbersCount, Given, Times
<1> DEFINE N == Numbered(r, b)  hit == a /\ r = Home[c] /\ b = ticket[c].bucket
<1>1. alone[r][b] + Cardinality(N) <= Times(forgets[r]) + Given(r, b)
  BY DEF NumbersCount
<1>2. /\ alone[r][b] \in Nat /\ forgets[r] \in Nat /\ Times(forgets[r]) \in Nat
      /\ Given(r, b) \in Nat
  BY GivenType, TimesStep, Numbers, SMT DEF TypeOK
<1>3. /\ Cardinality(N) \in Nat /\ Cardinality(Numbered(r, b)') \in Nat
      /\ IsFiniteSet(N)
  BY NumberedFinite, AnsweredNumbered, FS_RemoveElement, FS_CardinalityType
<1>4. Numbered(r, b)' = N \ {c} BY AnsweredNumbered
<1>5. Cardinality(Numbered(r, b)') = IF c \in N THEN Cardinality(N) - 1 ELSE Cardinality(N)
  BY <1>3, <1>4, FS_RemoveElement
<1>6. alone'[r][b] = IF hit THEN alone[r][b] + 1 ELSE alone[r][b]
  <2>1. Home[c] \in Replicas /\ ticket[c].bucket \in Windows
    BY Numbers, SMT DEF TypeOK, Count
  <2>2. QED BY <2>1 DEF Admitted, TypeOK
<1>7. hit => c \in N BY DEF Numbered, Within
<1>8. QED
  <2> DEFINE x == alone[r][b]  y == alone'[r][b]  n == Cardinality(N)
             m == Cardinality(Numbered(r, b)')
             bound == Times(forgets[r]) + Given(r, b)
  <2>1. bound \in Nat /\ x \in Nat /\ n \in Nat /\ m \in Nat
    BY <1>2, <1>3
  <2>2. x + n <= bound BY <1>1
  <2>3. m = IF c \in N THEN n - 1 ELSE n BY <1>5
  <2>4. y = IF hit THEN x + 1 ELSE x BY <1>6
  <2> HIDE DEF x, y, n, m, bound, hit, N
  <2>5. y + m <= bound BY <2>1, <2>2, <2>3, <2>4, <1>7, SMT
  <2>6. QED BY <2>5 DEF y, m, bound

\* A call is numbered in its replica: the number it is given was free.
LEMMA AskCounts ==
    ASSUME TypeOK, Forward, NumbersCount, NEW c \in Calls, Ask(c)
    PROVE  NumbersCount'
<1> SUFFICES ASSUME NEW r \in Replicas, NEW b \in Windows
             PROVE  alone'[r][b] + Cardinality(Numbered(r, b)')
                      <= Times(forgets[r]) + Given(r, b)'
  BY DEF NumbersCount, Ask, Times
<1> DEFINE mine == LocalCount(Home[c])  N == Numbered(r, b)
           here == r = Home[c] /\ b = mine.bucket
           within == mine.count <= MaxRequests
<1>1. alone[r][b] + Cardinality(N) <= Times(forgets[r]) + Given(r, b)
  BY DEF NumbersCount
<1>2. /\ alone[r][b] \in Nat /\ forgets[r] \in Nat /\ Times(forgets[r]) \in Nat
      /\ Given(r, b) \in 0 .. MaxRequests
  BY GivenType, TimesStep, Numbers, SMT DEF TypeOK
<1>3. /\ Home[c] \in Replicas /\ mine \in Count
      /\ mine.bucket \in Windows /\ mine.count \in Counts
  BY Numbers, CountTypes, SMT DEF Count
<1>4. /\ local' = [local EXCEPT ![Home[c]] = mine] /\ pc[c] = "idle"
  BY DEF Ask
<1>5. c \notin N /\ IsFiniteSet(N) /\ Cardinality(N) \in Nat
  BY <1>4, NumberedFinite DEF Numbered
<1>6. /\ \/ /\ Numbered(r, b)' = IF here /\ within THEN N \cup {c} ELSE N
            /\ alone'[r][b] = alone[r][b]
         \/ /\ Numbered(r, b)' = N
            /\ alone'[r][b] = IF here /\ within THEN alone[r][b] + 1 ELSE alone[r][b]
  <2>1. CASE /\ pc' = [pc EXCEPT ![c] = "counting"]
             /\ ticket' = [ticket EXCEPT ![c] = mine] /\ UNCHANGED alone
    BY <2>1, <1>4 DEF Numbered, TypeOK
  <2>2. CASE /\ Admitted(Home[c], mine.bucket, Within(mine.count))
             /\ UNCHANGED <<pc, ticket>>
    <3>1. Numbered(r, b)' = N BY <2>2 DEF Numbered
    <3>2. alone'[r][b] = IF here /\ within THEN alone[r][b] + 1 ELSE alone[r][b]
      BY <2>2, <1>3 DEF Admitted, TypeOK, Within
    <3>3. QED BY <3>1, <3>2
  <2>3. QED BY <2>1, <2>2 DEF Ask
<1>7. alone'[r][b] + Cardinality(Numbered(r, b)')
        = alone[r][b] + Cardinality(N) + IF here /\ within THEN 1 ELSE 0
  <2>1. Cardinality(N \cup {c}) = Cardinality(N) + 1 BY <1>5, FS_AddElement
  <2> DEFINE x == alone[r][b]  n == Cardinality(N)
  <2>2. x \in Nat /\ n \in Nat BY <1>2, <1>5
  <2>3. CASE here /\ within
    <3>1. alone'[r][b] + Cardinality(Numbered(r, b)') \in {x + (n + 1), (x + 1) + n}
      BY <1>6, <2>1, <2>3
    <3>2. QED BY <2>2, <2>3, <3>1, SMT
  <2>4. CASE ~(here /\ within)
    <3>1. alone'[r][b] + Cardinality(Numbered(r, b)') = x + n BY <1>6, <2>4
    <3>2. QED BY <2>2, <2>4, <3>1, SMT
  <2>5. QED BY <2>3, <2>4
<1>8. /\ Given(r, b)' \in Nat
      /\ Given(r, b) + (IF here /\ within THEN 1 ELSE 0) <= Given(r, b)'
  <2>1. CASE r # Home[c]
    <3>1. local'[r] = local[r] BY <2>1, <1>4 DEF TypeOK
    <3>2. QED BY <2>1, <3>1, <1>2, SMT DEF Given
  <2>2. CASE r = Home[c]
    <3> DEFINE l == local[r]
    <3>1. local'[r] = mine BY <2>2, <1>3, <1>4 DEF TypeOK
    <3>2. /\ l.bucket \in Nat /\ l.count \in 0 .. MaxRequests + 1
          /\ clock[r] \in Nat /\ b \in Nat /\ l.bucket <= clock[r]
      <4>1. /\ l \in Count /\ clock[r] \in Windows /\ l.bucket <= clock[r]
        BY DEF TypeOK, Forward
      <4>2. QED BY <4>1, Numbers, SMT DEF Count, Counts, Windows
    <3>3. /\ mine.bucket = clock[r]
          /\ mine.count = IF l.bucket = clock[r] THEN Another(l.count) ELSE 1
      BY <2>2 DEF LocalCount
    <3>4. Given(r, b)' = IF mine.bucket = b
                         THEN IF within THEN mine.count ELSE MaxRequests
                         ELSE IF mine.bucket < b THEN 0 ELSE MaxRequests
      BY <3>1 DEF Given
    <3> HIDE DEF mine
    <3>5. CASE clock[r] = b
      BY <2>2, <3>2, <3>3, <3>4, <3>5, Numbers, SMT DEF Given, Another
    <3>6. CASE clock[r] # b
      BY <2>2, <3>2, <3>3, <3>4, <3>6, Numbers, SMT DEF Given
    <3>7. QED BY <3>5, <3>6
  <2>3. QED BY <2>1, <2>2
<1>9. QED
  <2> DEFINE p == alone[r][b] + Cardinality(N)  q == Times(forgets[r])
             d == IF here /\ within THEN 1 ELSE 0
             g == Given(r, b)  h == Given(r, b)'
  <2>1. /\ p \in Nat /\ q \in Nat /\ g \in Nat /\ h \in Nat /\ d \in {0, 1}
    BY <1>2, <1>5, <1>8, Numbers, SMT
  <2>2. p <= q + g /\ g + d <= h BY <1>1, <1>8
  <2>3. p + d <= q + h
    <3> HIDE DEF p, q, d, g, h
    <3>1. QED BY <2>1, <2>2, SMT
  <2>4. QED BY <1>7, <2>3

\* A replica that forgets is granted its budget anew.
LEMMA ForgetCounts ==
    ASSUME TypeOK, NumbersCount, NEW s \in Replicas, Forget(s), UNCHANGED alone,
           \A r, b : Numbered(r, b)' \subseteq Numbered(r, b)
    PROVE  NumbersCount'
<1> SUFFICES ASSUME NEW r \in Replicas, NEW b \in Windows
             PROVE  alone[r][b] + Cardinality(Numbered(r, b)')
                      <= Times(forgets'[r]) + Given(r, b)'
  BY DEF NumbersCount, Times
<1>1. alone[r][b] + Cardinality(Numbered(r, b)) <= Times(forgets[r]) + Given(r, b)
  BY DEF NumbersCount
<1>2. /\ alone[r][b] \in Nat /\ forgets[r] \in Nat /\ Times(forgets[r]) \in Nat
      /\ Given(r, b) \in 0 .. MaxRequests
  BY GivenType, TimesStep, Numbers, SMT DEF TypeOK
<1>3. /\ Cardinality(Numbered(r, b)) \in Nat /\ Cardinality(Numbered(r, b)') \in Nat
      /\ Cardinality(Numbered(r, b)') <= Cardinality(Numbered(r, b))
  BY NumberedFinite, FS_Subset, FS_CardinalityType
<1>4. CASE r # s
  <2>1. local'[r] = local[r] /\ forgets'[r] = forgets[r] BY <1>4 DEF Forget, TypeOK
  <2>2. Given(r, b)' = Given(r, b) BY <2>1 DEF Given
  <2> HIDE DEF Given
  <2>3. QED BY <1>1, <1>2, <1>3, <2>1, <2>2, SMT
<1>5. CASE r = s
  <2>1. local'[r] = NoTicket /\ forgets'[r] = forgets[r] + 1
    BY <1>5, SMT DEF Forget, TypeOK
  <2>2. Given(r, b)' = 0
    <3>1. b \in Nat BY Numbers, SMT DEF Windows
    <3>2. QED BY <2>1, <3>1, Numbers, SMT DEF Given, NoTicket
  <2>3. Times(forgets'[r]) = Times(forgets[r]) + MaxRequests
    BY <1>2, <2>1, TimesStep
  <2>4. QED BY <1>1, <1>2, <1>3, <2>2, <2>3, Numbers, SMT
<1>6. QED BY <1>4, <1>5

-----------------------------------------------------------------------------
IInv == TypeOK /\ Forward /\ KeyCounts /\ NumbersCount

LEMMA InitIInv == Init => IInv
<1> SUFFICES ASSUME Init PROVE IInv OBVIOUS
<1>1. TypeOK BY InitType
<1>2. Forward BY SMT DEF Init, Forward, NoTicket
<1>3. KeyCounts BY Numbers, SMT DEF Init, KeyCounts
<1>4. NumbersCount
  <2> SUFFICES ASSUME NEW r \in Replicas, NEW b \in Windows
               PROVE  alone[r][b] + Cardinality(Numbered(r, b))
                        <= Times(forgets[r]) + Given(r, b)
    BY DEF NumbersCount
  <2>1. Numbered(r, b) = {} BY DEF Init, Numbered
  <2>2. Cardinality(Numbered(r, b)) = 0 BY <2>1, FS_EmptySet
  <2>3. alone[r][b] = 0 BY DEF Init
  <2>4. Times(forgets[r]) \in Nat /\ Given(r, b) \in 0 .. MaxRequests
    BY <1>1, GivenType, TimesStep, SMT DEF TypeOK
  <2>5. QED BY <2>2, <2>3, <2>4, Numbers, SMT
<1>5. QED BY <1>1, <1>2, <1>3, <1>4 DEF IInv

\* No replica counts in a window its clock has not reached.
LEMMA NextForward == TypeOK /\ Forward /\ [Next]_vars => Forward'
<1> SUFFICES ASSUME TypeOK, Forward, [Next]_vars PROVE Forward' OBVIOUS
<1>1. ASSUME NEW c \in Calls, Ask(c) PROVE Forward'
  <2>1. Home[c] \in Replicas /\ LocalCount(Home[c]).bucket = clock[Home[c]]
    BY Numbers DEF LocalCount
  <2>2. \A r \in Replicas : clock[r] <= clock[r]
    BY Numbers, SMT DEF TypeOK, Windows
  <2>3. QED BY <1>1, <2>1, <2>2 DEF Ask, Forward, TypeOK
<1>2. ASSUME NEW r \in Replicas, Forget(r), UNCHANGED clock PROVE Forward'
  <2>1. \A s \in Replicas : 0 <= clock[s] BY Numbers, SMT DEF TypeOK, Windows
  <2>2. QED BY <1>2, <2>1 DEF Forget, Forward, TypeOK, NoTicket
<1>3. ASSUME NEW r \in Replicas, Tick(r) PROVE Forward'
  <2> SUFFICES ASSUME NEW s \in Replicas PROVE local[s].bucket <= clock'[s]
    BY <1>3 DEF Tick, Forward
  <2>1. local[s].bucket \in Windows /\ clock[s] \in Windows /\ local[s].bucket <= clock[s]
    BY DEF TypeOK, Forward, Count
  <2>2. clock'[s] \in {clock[s], clock[s] + 1} BY <1>3 DEF Tick, TypeOK
  <2>3. QED BY <2>1, <2>2, Numbers, SMT DEF Windows
<1>4. CASE UNCHANGED <<local, clock>> BY <1>4 DEF Forward
<1>5. QED
  BY <1>1, <1>2, <1>3, <1>4
     DEF Next, RemoteCount, RemoteRaised, Cancel, Reset, Restart, Expire, vars

\* Whoever is still to count in a window finds what was admitted in it counted.
LEMMA NextKeyCounts == TypeOK /\ Forward /\ KeyCounts /\ [Next]_vars => KeyCounts'
<1> SUFFICES ASSUME TypeOK, Forward, KeyCounts, [Next]_vars,
                    NEW b \in Windows
             PROVE  shared'[b] <= MaxRequests /\ (shared'[b] <= remote'[b] \/ Closed(b)')
  BY DEF KeyCounts
<1>1. /\ shared[b] \in Nat /\ remote[b] \in Nat /\ b \in Nat
      /\ \A r \in Replicas : clock[r] \in Nat
  BY Numbers, SMT DEF TypeOK, Counts, Windows
<1>2. shared[b] <= MaxRequests /\ (shared[b] <= remote[b] \/ Closed(b))
  BY DEF KeyCounts
<1>3. ASSUME NEW c \in Calls, Ask(c)
      PROVE  shared'[b] <= MaxRequests /\ (shared'[b] <= remote'[b] \/ Closed(b)')
  <2>1. ASSUME Closed(b) PROVE Closed(b)'
    <3>1. Home[c] \in Replicas /\ LocalCount(Home[c]).bucket = clock[Home[c]]
      BY Numbers DEF LocalCount
    <3>2. clock[Home[c]] # b BY <1>1, <2>1, <3>1, SMT DEF Closed
    <3>3. QED BY <1>3, <2>1, <3>1, <3>2 DEF Ask, Closed, TypeOK
  <2>2. QED BY <1>2, <1>3, <2>1 DEF Ask
<1>4. ASSUME NEW c \in Calls, pc[c] = "counting", Answered(c), UNCHANGED clock, Closed(b)
      PROVE  Closed(b)'
  BY <1>4 DEF Closed, Answered, TypeOK
<1>5. ASSUME NEW c \in Calls, pc[c] = "counting", Closed(b)
      PROVE  ticket[c].bucket # b
  BY <1>5 DEF Closed
<1>6. ASSUME NEW c \in Calls, RemoteCount(c)
      PROVE  shared'[b] <= MaxRequests /\ (shared'[b] <= remote'[b] \/ Closed(b)')
  <2>1. ticket[c].bucket \in Windows BY SMT DEF TypeOK, Count
  <2>2. CASE ticket[c].bucket # b
    <3>1. shared'[b] = shared[b] /\ remote'[b] = remote[b]
      BY <1>6, <2>1, <2>2 DEF RemoteCount, TypeOK
    <3>2. QED BY <1>2, <1>4, <1>6, <3>1 DEF RemoteCount
  <2>3. CASE ticket[c].bucket = b
    <3>1. shared[b] <= remote[b] BY <1>2, <1>5, <1>6, <2>3 DEF RemoteCount
    <3>2. /\ remote'[b] = Another(remote[b])
          /\ shared'[b] = IF BothAllow(c, Another(remote[b]))
                          THEN shared[b] + 1 ELSE shared[b]
      BY <1>6, <2>1, <2>3 DEF RemoteCount, TypeOK
    <3>3. BothAllow(c, Another(remote[b])) => Another(remote[b]) <= MaxRequests
      BY DEF BothAllow, Within
    <3>4. QED BY <1>1, <1>2, <3>1, <3>2, <3>3, Numbers, SMT DEF Another
  <2>4. QED BY <2>2, <2>3
<1>7. ASSUME NEW c \in Calls, pc[c] = "counting", Answered(c), UNCHANGED <<clock, shared>>,
             \/ UNCHANGED remote
             \/ remote' = [remote EXCEPT ![ticket[c].bucket] = Another(@)]
      PROVE  shared'[b] <= MaxRequests /\ (shared'[b] <= remote'[b] \/ Closed(b)')
  <2>1. remote'[b] \in {remote[b], Another(remote[b])} BY <1>7 DEF TypeOK
  <2>2. remote[b] <= Another(remote[b]) BY <1>1, Numbers, SMT DEF Another
  <2>3. remote[b] <= remote'[b] BY <1>1, <2>1, <2>2, SMT
  <2>4. remote'[b] \in Nat BY <1>1, <2>1, Numbers, SMT DEF Another
  <2>5. CASE Closed(b) BY <1>2, <1>4, <1>7, <2>5
  <2>6. CASE shared[b] <= remote[b] BY <1>1, <1>2, <1>7, <2>3, <2>4, <2>6, SMT
  <2>7. QED BY <1>2, <2>5, <2>6
<1>8. ASSUME NEW r \in Replicas, Tick(r)
      PROVE  shared'[b] <= MaxRequests /\ (shared'[b] <= remote'[b] \/ Closed(b)')
  <2>1. ASSUME Closed(b) PROVE Closed(b)'
    <3>1. \A s \in Replicas : clock'[s] \in {clock[s], clock[s] + 1}
      BY <1>8 DEF Tick, TypeOK
    <3>2. \A s \in Replicas : clock'[s] > b BY <1>1, <2>1, <3>1, SMT DEF Closed
    <3>3. QED BY <1>8, <2>1, <3>2 DEF Tick, Closed
  <2>2. QED BY <1>2, <1>8, <2>1 DEF Tick
<1>9. ASSUME NEW d \in Windows, Expire(d)
      PROVE  shared'[b] <= MaxRequests /\ (shared'[b] <= remote'[b] \/ Closed(b)')
  <2>1. CASE b = d BY <1>2, <1>9, <2>1 DEF Expire, KeyOver, Closed
  <2>2. CASE b # d BY <1>2, <1>9, <2>2 DEF Expire, Closed, TypeOK
  <2>3. QED BY <2>1, <2>2
<1>10. ASSUME NEW r \in Replicas, Reset(r)
       PROVE  shared'[b] <= MaxRequests /\ (shared'[b] <= remote'[b] \/ Closed(b)')
  BY <1>2, <1>10 DEF Reset, Closed
<1>11. ASSUME NEW r \in Replicas, Restart(r)
       PROVE  shared'[b] <= MaxRequests /\ (shared'[b] <= remote'[b] \/ Closed(b)')
  BY <1>2, <1>11 DEF Restart, Closed, TypeOK
<1>12. CASE UNCHANGED vars BY <1>2, <1>12 DEF vars, Closed
<1>13. QED
  BY <1>3, <1>6, <1>7, <1>8, <1>9, <1>10, <1>11, <1>12
     DEF Next, RemoteRaised, Cancel

\* Every admission of a replica carries a number of its own.
LEMMA NextNumbers == TypeOK /\ Forward /\ NumbersCount /\ [Next]_vars => NumbersCount'
<1> SUFFICES ASSUME TypeOK, Forward, NumbersCount, [Next]_vars PROVE NumbersCount'
  OBVIOUS
<1>1. ASSUME NEW c \in Calls, Ask(c) PROVE NumbersCount' BY <1>1, AskCounts
<1>2. ASSUME NEW c \in Calls, RemoteCount(c) PROVE NumbersCount'
  <2> DEFINE a == BothAllow(c, Another(remote[ticket[c].bucket]))
  <2>1. a \in BOOLEAN /\ (a => Within(ticket[c].count)) BY DEF BothAllow, Within
  <2>2. QED BY <1>2, <2>1, AnsweredCounts DEF RemoteCount
<1>3. ASSUME NEW c \in Calls, RemoteRaised(c) PROVE NumbersCount'
  <2>1. Within(ticket[c].count) \in BOOLEAN BY DEF Within
  <2>2. QED BY <1>3, <2>1, AnsweredCounts DEF RemoteRaised
<1>4. ASSUME NEW c \in Calls, Cancel(c) PROVE NumbersCount'
  <2>1. Admitted(Home[c], ticket[c].bucket, FALSE) BY <1>4 DEF Cancel, Admitted
  <2>2. QED BY <1>4, <2>1, AnsweredCounts DEF Cancel
<1>5. ASSUME NEW r \in Replicas, Reset(r) PROVE NumbersCount'
  <2>1. \A s, b : Numbered(s, b)' \subseteq Numbered(s, b)
    BY <1>5 DEF Reset, Numbered
  <2>2. QED BY <1>5, <2>1, ForgetCounts DEF Reset
<1>6. ASSUME NEW r \in Replicas, Restart(r) PROVE NumbersCount'
  <2>1. \A s, b : Numbered(s, b)' \subseteq Numbered(s, b)
    BY <1>6 DEF Restart, Numbered, TypeOK
  <2>2. QED BY <1>6, <2>1, ForgetCounts DEF Restart
<1>7. CASE UNCHANGED <<local, pc, ticket, alone, forgets>>
  BY <1>7 DEF NumbersCount, Numbered, Given
<1>8. QED
  BY <1>1, <1>2, <1>3, <1>4, <1>5, <1>6, <1>7 DEF Next, Tick, Expire, vars

LEMMA NextIInv == IInv /\ [Next]_vars => IInv'
BY NextType, NextForward, NextKeyCounts, NextNumbers DEF IInv

LEMMA KeptByIInv == IInv => BudgetKept
<1> SUFFICES ASSUME IInv PROVE BudgetKept OBVIOUS
<1>1. SharedBudgetKept BY DEF IInv, KeyCounts, SharedBudgetKept
<1>2. ASSUME NEW r \in Replicas, NEW b \in Windows
      PROVE  alone[r][b] <= MaxRequests * (1 + forgets[r])
  <2>1. alone[r][b] + Cardinality(Numbered(r, b)) <= Times(forgets[r]) + Given(r, b)
    BY DEF IInv, NumbersCount
  <2>2. /\ alone[r][b] \in Nat /\ forgets[r] \in Nat /\ Times(forgets[r]) \in Nat
        /\ Given(r, b) \in 0 .. MaxRequests /\ Cardinality(Numbered(r, b)) \in Nat
    BY GivenType, TimesStep, NumberedFinite, Numbers, SMT DEF IInv, TypeOK
  <2>3. Times(forgets[r] + 1) = Times(forgets[r]) + MaxRequests BY <2>2, TimesStep
  <2>4. alone[r][b] <= Times(forgets[r] + 1) BY <2>1, <2>2, <2>3, Numbers, SMT
  <2>5. forgets[r] + 1 = 1 + forgets[r] BY <2>2, SMT
  <2>6. QED BY <2>4, <2>5 DEF Times
<1>3. QED BY <1>1, <1>2 DEF BudgetKept, ReplicaBudgetKept

\* A provider is asked no more than its budget allows: by all replicas together
\* while Redis decides, by each of them for every time it forgot.
THEOREM BudgetIsKept == Spec => []BudgetKept
<1>1. Init => IInv BY InitIInv
<1>2. IInv /\ [Next]_vars => IInv' BY NextIInv
<1>3. IInv => BudgetKept BY KeptByIInv
<1>4. QED BY <1>1, <1>2, <1>3, PTL DEF Spec

-----------------------------------------------------------------------------
(***************************************************************************)
(* Notes.  A request that nobody has overtaken carries the row itself.     *)
(***************************************************************************)
CopyHeld == \A q \in Requests : request[q] \in Note!Changes => copy[q] \in Note!Row

CopyTrue ==
    \A q \in Requests :
        request[q] \in Note!Changes /\ q \notin overtaken => copy[q] = row

TableTypes ==
    /\ row \in Note!Row \cup {NoRow}
    /\ request \in [Requests -> Note!Changes \cup {"idle", "enqueue"}]
    /\ copy \in [Requests -> Note!Row \cup {NoRow}]
    /\ overtaken \subseteq Requests

TableInv == TableTypes /\ CopyHeld /\ CopyTrue

LEMMA NoteNumbers ==
    /\ Texts # {} /\ NoRow \notin Note!Row /\ NoJob \notin Nat
    /\ MaxJobs \in Nat /\ MaxTroubles \in Nat
BY ServicesAssumption DEF Note!NotesAssumption

\* A payload is text and completed; what the change does not name is the copy's.
LEMMA PayloadKeeps ==
    ASSUME NEW q \in Requests, request[q] \in {"edit", "toggle", "update"},
           copy[q] \in Note!Row, NEW payload \in Note!Payloads(q)
    PROVE  /\ payload.text \in Texts /\ payload.completed \in BOOLEAN
           /\ request[q] = "edit"   => payload.completed = copy[q].completed
           /\ request[q] = "toggle" => payload.text = copy[q].text
<1>1. CASE request[q] = "edit"
  BY <1>1 DEF Note!Payloads, Note!Row
<1>2. CASE request[q] = "toggle"
  BY <1>2 DEF Note!Payloads, Note!Row
<1>3. CASE request[q] = "update"
  BY <1>3 DEF Note!Payloads, Note!Row
<1> QED BY <1>1, <1>2, <1>3

\* What one statement leaves of the row.
LEMMA WrittenRow ==
    ASSUME TableInv, NEW q \in Requests, request[q] \in Note!Changes, Note!Written(q)
    PROVE  /\ row' \in Note!Row \cup {NoRow}
           /\ row = NoRow => row' = NoRow
           /\ row' # NoRow => row'.created = row.created
           /\ row' # NoRow /\ request[q] = "edit"   => row'.completed = copy[q].completed
           /\ row' # NoRow /\ request[q] = "toggle" => row'.text = copy[q].text
<1>1. CASE request[q] = "delete"
  BY <1>1 DEF Note!Written
<1>2. CASE request[q] # "delete"
  <2>1. PICK payload \in Note!Payloads(q) : row' = Note!Put(payload)
    BY <1>2 DEF Note!Written
  <2>2. request[q] \in {"edit", "toggle", "update"} /\ copy[q] \in Note!Row
    BY <1>2 DEF Note!Changes, TableInv, CopyHeld
  <2>3. CASE row = NoRow
    BY <2>1, <2>3 DEF Note!Put
  <2>4. CASE row # NoRow
    <3>1. row \in Note!Row BY <2>4 DEF TableInv, TableTypes
    <3>2. row' = [text |-> payload.text, completed |-> payload.completed,
                  created |-> row.created]
      BY <2>1, <2>4 DEF Note!Put
    <3> QED BY <2>2, <2>4, <3>1, <3>2, PayloadKeeps DEF Note!Row
  <2> QED BY <2>3, <2>4
<1> QED BY <1>1, <1>2

\* One request's step, seen from the table.
LEMMA OneRequest ==
    ASSUME TableInv, NEW q \in Requests, request[q] \in Note!Changes,
           row' \in Note!Row \cup {NoRow}, Note!Overtakes(q),
           NEW to \in {"idle", "enqueue"}, request' = [request EXCEPT ![q] = to],
           copy' = [copy EXCEPT ![q] = NoRow]
    PROVE  TableInv'
<1>1. TableTypes'
  BY DEF TableInv, TableTypes, Note!Overtakes
<1>2. \A p \in Requests : request'[p] \in Note!Changes =>
         p # q /\ request[p] = request'[p] /\ copy'[p] = copy[p]
  BY DEF TableInv, TableTypes, Note!Changes
<1>3. CopyHeld'
  BY <1>2 DEF TableInv, CopyHeld
<1>4. CopyTrue'
  <2> SUFFICES ASSUME NEW p \in Requests, request'[p] \in Note!Changes, p \notin overtaken'
               PROVE  copy'[p] = row'
    BY DEF CopyTrue
  <2>1. p # q /\ request[p] = request'[p] /\ copy'[p] = copy[p] BY <1>2
  <2>2. row' = row /\ p \notin overtaken BY <2>1 DEF Note!Overtakes
  <2> QED BY <2>1, <2>2 DEF TableInv, CopyTrue
<1> QED BY <1>1, <1>3, <1>4 DEF TableInv

LEMMA TableInit == Note!Init => TableInv
BY NoteNumbers DEF Note!Init, TableInv, TableTypes, CopyHeld, CopyTrue, Note!Row, Note!Changes

LEMMA TableStep == TableInv /\ [Note!Next]_(Note!vars) => TableInv'
<1> SUFFICES ASSUME TableInv, [Note!Next]_(Note!vars) PROVE TableInv' OBVIOUS
<1>1. ASSUME NEW q \in Requests, Note!Read(q) PROVE TableInv'
  <2>1. /\ row \in Note!Row /\ row' = row /\ overtaken' = overtaken
        /\ copy' = [copy EXCEPT ![q] = row]
    BY <1>1 DEF Note!Read, TableInv, TableTypes
  <2>2. PICK change \in Note!Changes : request' = [request EXCEPT ![q] = change]
    BY <1>1 DEF Note!Read
  <2> QED BY <2>1, <2>2 DEF TableInv, TableTypes, CopyHeld, CopyTrue
<1>2. ASSUME NEW q \in Requests, Note!Write(q) PROVE TableInv'
  <2>1. request[q] \in Note!Changes /\ Note!Written(q) /\ Note!Overtakes(q)
    BY <1>2 DEF Note!Write
  <2>2. row' \in Note!Row \cup {NoRow} BY <2>1, WrittenRow
  <2>3. PICK to \in {"idle", "enqueue"} : request' = [request EXCEPT ![q] = to]
    BY <1>2 DEF Note!Write, Note!End
  <2>4. copy' = [copy EXCEPT ![q] = NoRow] BY <1>2 DEF Note!Write, Note!End
  <2> QED BY <2>1, <2>2, <2>3, <2>4, OneRequest
<1>3. ASSUME NEW q \in Requests, Note!WriteRaised(q) PROVE TableInv'
  <2>1. /\ request[q] \in Note!Changes /\ Note!Overtakes(q) /\ Note!End(q)
        /\ Note!Written(q) \/ row' = row
    BY <1>3 DEF Note!WriteRaised
  <2>2. row' \in Note!Row \cup {NoRow} BY <2>1, WrittenRow DEF TableInv, TableTypes
  <2> QED BY <2>1, <2>2, OneRequest DEF Note!End
<1>4. ASSUME NEW q \in Requests, Note!Enqueue(q) PROVE TableInv'
  <2>1. /\ request' = [request EXCEPT ![q] = "idle"] /\ copy' = [copy EXCEPT ![q] = NoRow]
        /\ row' = row /\ overtaken' = overtaken
    BY <1>4 DEF Note!Enqueue, Note!End
  <2> QED BY <2>1 DEF TableInv, TableTypes, CopyHeld, CopyTrue, Note!Changes
<1>5. ASSUME UNCHANGED Note!table PROVE TableInv'
  BY <1>5 DEF Note!table, TableInv, TableTypes, CopyHeld, CopyTrue
<1>6. ASSUME NEW w \in Workers,
             Note!Work(w) \/ Note!TakeRaised(w) \/ Note!RetryRaised(w) \/ Note!Crash(w)
      PROVE  TableInv'
  BY <1>5, <1>6 DEF Note!Work, Note!Take, Note!Handled, Note!Failed, Note!TakeRaised,
     Note!RetryRaised, Note!Crash
<1>7. ASSUME Note!RunWorkers PROVE TableInv'
  BY <1>5, <1>7 DEF Note!RunWorkers
<1>8. ASSUME UNCHANGED Note!vars PROVE TableInv'
  BY <1>5, <1>8 DEF Note!vars, Note!table
<1> QED BY <1>1, <1>2, <1>3, <1>4, <1>6, <1>7, <1>8 DEF Note!Next

\* A change that nobody has overtaken keeps what it does not name, and no change
\* brings a deleted note back or makes it look newer: update_note, toggle and the
\* form edits of notes.py over the one statement of crud.put.
THEOREM ChangesKeepTheRest == Note!Spec => RestKept
<1>1. ASSUME TableInv PROVE Note!KeepsRest
  <2> SUFFICES ASSUME NEW q \in Requests, Note!Write(q)
               PROVE  /\ row = NoRow => row' = NoRow
                      /\ row' # NoRow => row'.created = row.created
                      /\ row' # NoRow /\ q \notin overtaken =>
                            /\ request[q] = "edit"   => row'.completed = row.completed
                            /\ request[q] = "toggle" => row'.text = row.text
    BY DEF Note!KeepsRest
  <2>1. request[q] \in Note!Changes /\ Note!Written(q)
    BY DEF Note!Write
  <2>2. q \notin overtaken => copy[q] = row
    BY <1>1, <2>1 DEF TableInv, CopyTrue
  <2> QED BY <1>1, <2>1, <2>2, WrittenRow
<1> QED BY TableInit, TableStep, <1>1, PTL DEF Note!Spec, RestKept, Note!RestKept

-----------------------------------------------------------------------------
(***************************************************************************)
(* Where an update is, counted: in a list, with a worker, handled.         *)
(***************************************************************************)
Occ(list, j) == {i \in DOMAIN list : list[i] = j}
TimesIn(list, j) == Cardinality(Occ(list, j))
Held(j) == {w \in Workers : job[w] = j}

LEMMA OccFinite ==
    ASSUME NEW S, NEW list \in Seq(S), NEW j
    PROVE  IsFiniteSet(Occ(list, j)) /\ TimesIn(list, j) \in Nat
<1>1. IsFiniteSet(1 .. Len(list)) BY LenProperties, FS_Interval
<1>2. Occ(list, j) \in SUBSET (1 .. Len(list)) BY LenProperties DEF Occ
<1> QED BY <1>1, <1>2, FS_Subset, FS_CardinalityType DEF TimesIn

LEMMA OccAppend ==
    ASSUME NEW S, NEW list \in Seq(S), NEW x \in S, NEW j
    PROVE  TimesIn(Append(list, x), j) = TimesIn(list, j) + IF x = j THEN 1 ELSE 0
<1> DEFINE n == Len(list) + 1
<1>1. /\ Len(list) \in Nat /\ DOMAIN list = 1 .. Len(list)
      /\ DOMAIN Append(list, x) = (1 .. Len(list)) \cup {n}
      /\ \A i \in 1 .. Len(list) : Append(list, x)[i] = list[i]
      /\ Append(list, x)[n] = x
  BY LenProperties, AppendProperties
<1>2. n \notin Occ(list, j) BY <1>1 DEF Occ
<1>3. Occ(Append(list, x), j) = IF x = j THEN Occ(list, j) \cup {n} ELSE Occ(list, j)
  BY <1>1 DEF Occ
<1>4. IsFiniteSet(Occ(list, j)) /\ Cardinality(Occ(list, j)) \in Nat
  BY OccFinite DEF TimesIn
<1>5. Cardinality(Occ(list, j) \cup {n}) = Cardinality(Occ(list, j)) + 1
  BY <1>2, <1>4, FS_AddElement
<1> QED BY <1>3, <1>4, <1>5 DEF TimesIn

LEMMA OccTail ==
    ASSUME NEW S, NEW list \in Seq(S), list # <<>>, NEW j
    PROVE  TimesIn(list, j) = TimesIn(Tail(list), j) + IF Head(list) = j THEN 1 ELSE 0
<1> DEFINE rest == Occ(list, j) \ {1}
           move == [i \in Occ(Tail(list), j) |-> i + 1]
<1>1. /\ Len(list) \in Nat /\ Len(list) > 0 /\ DOMAIN list = 1 .. Len(list)
      /\ Tail(list) \in Seq(S) /\ DOMAIN Tail(list) = 1 .. Len(list) - 1
      /\ \A i \in 1 .. Len(list) - 1 : Tail(list)[i] = list[i + 1]
      /\ Head(list) = list[1]
  BY LenProperties, HeadTailProperties, EmptySeq
<1>2. move \in Bijection(Occ(Tail(list), j), rest)
  <2>1. move \in [Occ(Tail(list), j) -> rest]
    BY <1>1 DEF Occ
  <2>2. \A a, b \in Occ(Tail(list), j) : move[a] = move[b] => a = b
    BY <1>1 DEF Occ
  <2>3. ASSUME NEW t \in rest PROVE \E a \in Occ(Tail(list), j) : move[a] = t
    <3>1. t - 1 \in Occ(Tail(list), j) /\ (t - 1) + 1 = t
      BY <1>1, <2>3 DEF Occ
    <3> QED BY <3>1
  <2> QED BY <2>1, <2>2, <2>3, Fun_IsBij
<1>3. Cardinality(rest) = TimesIn(Tail(list), j)
  <2>1. ExistsBijection(Occ(Tail(list), j), rest)
    BY <1>2, Fun_ExistsBij
  <2>2. IsFiniteSet(Occ(Tail(list), j)) BY <1>1, OccFinite
  <2> HIDE DEF rest
  <2> QED BY <2>1, <2>2, FS_Bijection DEF TimesIn
<1>4. 1 \in Occ(list, j) <=> Head(list) = j
  BY <1>1 DEF Occ
<1>5. IsFiniteSet(Occ(list, j)) /\ Cardinality(Occ(list, j)) \in Nat
  BY OccFinite DEF TimesIn
<1>6. Cardinality(rest) = IF 1 \in Occ(list, j) THEN Cardinality(Occ(list, j)) - 1
                                               ELSE Cardinality(Occ(list, j))
  BY <1>5, FS_RemoveElement
<1>7. TimesIn(list, j) = Cardinality(Occ(list, j)) BY DEF TimesIn
<1> HIDE DEF rest
<1> QED BY <1>3, <1>4, <1>5, <1>6, <1>7

JobTypes ==
    /\ jobs \in 0 .. MaxJobs
    /\ queue \in Seq(Note!Jobs) /\ retry \in Seq(Note!Jobs)
    /\ stage \in [Workers -> {"waiting", "handling", "ended"}]
    /\ job \in [Workers -> Note!Jobs \cup {NoJob}]
    /\ done \in [Note!Jobs -> Nat]
    /\ faults \in Nat

\* Exactly a worker that handles has a job; no worker has two, nor two the same.
Holding == \A w \in Workers : stage[w] = "handling" <=> job[w] # NoJob
HeldFew == \A j \in Note!Jobs : IsFiniteSet(Held(j))

\* An update is in one place from when it is handed over, and in none before.
Placed ==
    \A j \in Note!Jobs :
        /\ j <= jobs => Note!Places(j) <= 1 /\ (Note!Places(j) = 0 => faults > 0)
        /\ j > jobs  => Note!Places(j) = 0

JobInv == JobTypes /\ Holding /\ HeldFew /\ Placed

LEMMA SameCardinality == \A S : Note!Cardinality(S) = Cardinality(S)
BY DEF Note!Cardinality, Cardinality

\* Places is the sum of four counts, in the next state as in this one.
Sums ==
    \A j \in Note!Jobs :
        /\ TimesIn(queue, j) \in Nat /\ TimesIn(retry, j) \in Nat
        /\ Cardinality(Held(j)) \in Nat /\ done[j] \in Nat
        /\ Note!Places(j) = TimesIn(queue, j) + TimesIn(retry, j)
                            + Cardinality(Held(j)) + done[j]

LEMMA PlacesSum == JobTypes /\ HeldFew => Sums
<1> SUFFICES ASSUME JobTypes, HeldFew, NEW j \in Note!Jobs
             PROVE  /\ TimesIn(queue, j) \in Nat /\ TimesIn(retry, j) \in Nat
                    /\ Cardinality(Held(j)) \in Nat /\ done[j] \in Nat
                    /\ Note!Places(j) = TimesIn(queue, j) + TimesIn(retry, j)
                                        + Cardinality(Held(j)) + done[j]
  BY DEF Sums
<1>1. TimesIn(queue, j) \in Nat /\ TimesIn(retry, j) \in Nat
  BY OccFinite DEF JobTypes
<1>2. Cardinality(Held(j)) \in Nat /\ done[j] \in Nat
  BY FS_CardinalityType DEF HeldFew, JobTypes
<1>3. Note!Places(j) = TimesIn(queue, j) + TimesIn(retry, j)
                       + Cardinality(Held(j)) + done[j]
  BY SameCardinality DEF Note!Places, TimesIn, Occ, Held
<1> QED BY <1>1, <1>2, <1>3

LEMMA PlacesSumNext == (JobTypes /\ HeldFew)' => Sums'
BY PlacesSum, PTL

\* A worker takes a job, or is rid of the one it has.
LEMMA HeldGains ==
    ASSUME JobTypes, HeldFew, NEW w \in Workers, job[w] = NoJob, NEW x \in Note!Jobs,
           job' = [job EXCEPT ![w] = x], NEW j \in Note!Jobs
    PROVE  /\ IsFiniteSet(Held(j)')
           /\ Cardinality(Held(j)') = Cardinality(Held(j)) + IF x = j THEN 1 ELSE 0
<1>1. IsFiniteSet(Held(j)) /\ Cardinality(Held(j)) \in Nat
  BY FS_CardinalityType DEF HeldFew
<1>2. w \notin Held(j) /\ j # NoJob
  BY NoteNumbers DEF Held, Note!Jobs
<1>3. Held(j)' = IF x = j THEN Held(j) \cup {w} ELSE Held(j)
  BY <1>2 DEF Held, JobTypes
<1>4. IsFiniteSet(Held(j) \cup {w}) /\ Cardinality(Held(j) \cup {w}) = Cardinality(Held(j)) + 1
  BY <1>1, <1>2, FS_AddElement
<1> QED BY <1>1, <1>3, <1>4

LEMMA HeldLoses ==
    ASSUME JobTypes, HeldFew, NEW w \in Workers, job' = [job EXCEPT ![w] = NoJob],
           NEW j \in Note!Jobs
    PROVE  /\ IsFiniteSet(Held(j)')
           /\ Cardinality(Held(j)) = Cardinality(Held(j)') + IF job[w] = j THEN 1 ELSE 0
<1>1. IsFiniteSet(Held(j)) /\ Cardinality(Held(j)) \in Nat
  BY FS_CardinalityType DEF HeldFew
<1>2. j # NoJob
  BY NoteNumbers DEF Note!Jobs
<1>3. Held(j)' = Held(j) \ {w} /\ (w \in Held(j) <=> job[w] = j)
  BY <1>2 DEF Held, JobTypes
<1>4. /\ IsFiniteSet(Held(j) \ {w})
      /\ Cardinality(Held(j) \ {w}) = IF w \in Held(j) THEN Cardinality(Held(j)) - 1
                                                      ELSE Cardinality(Held(j))
  BY <1>1, FS_RemoveElement
<1> QED BY <1>1, <1>3, <1>4

LEMMA JobInit == Note!Init => JobInv
<1> SUFFICES ASSUME Note!Init PROVE JobInv OBVIOUS
<1>1. /\ jobs = 0 /\ queue = <<>> /\ retry = <<>> /\ faults = 0
      /\ stage = [w \in Workers |-> "waiting"] /\ job = [w \in Workers |-> NoJob]
      /\ done = [j \in Note!Jobs |-> 0]
  BY DEF Note!Init
<1>2. JobTypes /\ Holding
  BY <1>1, NoteNumbers DEF JobTypes, Holding
<1>3. \A j \in Note!Jobs : Held(j) = {} /\ Occ(queue, j) = {} /\ Occ(retry, j) = {}
  BY <1>1, NoteNumbers DEF Held, Occ, Note!Jobs
<1>4. HeldFew
  BY <1>3, FS_EmptySet DEF HeldFew
<1>5. \A j \in Note!Jobs : Note!Places(j) = 0
  <2> TAKE j \in Note!Jobs
  <2>1. TimesIn(queue, j) = 0 /\ TimesIn(retry, j) = 0 /\ Cardinality(Held(j)) = 0
    BY <1>3, FS_EmptySet DEF TimesIn
  <2>2. done[j] = 0 BY <1>1
  <2>3. Sums BY <1>2, <1>4, PlacesSum
  <2> QED BY <2>1, <2>2, <2>3 DEF Sums
<1>6. Placed
  BY <1>1, <1>5 DEF Placed, Note!Jobs
<1> QED BY <1>2, <1>4, <1>6 DEF JobInv

\* A step that hands nothing over keeps each update where it is, moves it, or
\* loses it to a failure.
LEMMA Conserved ==
    ASSUME JobInv, JobTypes', HeldFew', jobs' = jobs, faults' >= faults,
           \A j \in Note!Jobs : \/ Note!Places(j)' = Note!Places(j)
                                \/ Note!Places(j)' = Note!Places(j) - 1 /\ faults' > 0
    PROVE  Placed'
<1> SUFFICES ASSUME NEW j \in Note!Jobs
             PROVE  /\ j <= jobs' => /\ Note!Places(j)' <= 1
                                     /\ Note!Places(j)' = 0 => faults' > 0
                    /\ j > jobs'  => Note!Places(j)' = 0
  BY DEF Placed
<1>1. Note!Places(j) \in Nat /\ Note!Places(j)' \in Nat
  BY PlacesSum, PlacesSumNext DEF JobInv, Sums
<1>2. faults \in Nat /\ faults' \in Nat
  BY DEF JobInv, JobTypes
<1> QED BY <1>1, <1>2 DEF JobInv, Placed

\* What a worker leaves behind that is rid of its job.
LEMMA Freed ==
    ASSUME JobInv, NEW w \in Workers, NEW to \in {"waiting", "ended"}, Note!Free(w, to)
    PROVE  /\ stage' \in [Workers -> {"waiting", "handling", "ended"}]
           /\ job' \in [Workers -> Note!Jobs \cup {NoJob}]
           /\ Holding' /\ HeldFew'
           /\ \A j \in Note!Jobs : Cardinality(Held(j)) = Cardinality(Held(j)')
                                                          + IF job[w] = j THEN 1 ELSE 0
<1>1. /\ stage' = [stage EXCEPT ![w] = to] /\ job' = [job EXCEPT ![w] = NoJob]
      /\ JobTypes /\ HeldFew /\ Holding
  BY DEF Note!Free, JobInv
<1>2. Holding'
  BY <1>1 DEF JobTypes, Holding
<1>3. \A j \in Note!Jobs :
         /\ IsFiniteSet(Held(j)')
         /\ Cardinality(Held(j)) = Cardinality(Held(j)') + IF job[w] = j THEN 1 ELSE 0
  BY <1>1, HeldLoses
<1> QED BY <1>1, <1>2, <1>3 DEF JobTypes, HeldFew

LEMMA TakePlaces == ASSUME JobInv, NEW w \in Workers, Note!Take(w) PROVE JobInv'
<1>1. /\ stage[w] = "waiting" /\ queue # <<>> /\ queue' = Tail(queue)
      /\ job' = [job EXCEPT ![w] = Head(queue)] /\ stage' = [stage EXCEPT ![w] = "handling"]
      /\ UNCHANGED <<jobs, retry, done, faults>>
  BY DEF Note!Take
<1>2. JobTypes /\ HeldFew /\ job[w] = NoJob
  BY <1>1 DEF JobInv, Holding
<1>3. Head(queue) \in Note!Jobs /\ Tail(queue) \in Seq(Note!Jobs)
  BY <1>1, <1>2, HeadTailProperties DEF JobTypes
<1>4. JobTypes' BY <1>1, <1>2, <1>3 DEF JobTypes
<1>5. Holding'
  BY <1>1, <1>2, <1>3, NoteNumbers DEF JobInv, JobTypes, Holding, Note!Jobs
<1>6. \A j \in Note!Jobs :
         /\ IsFiniteSet(Held(j)')
         /\ Cardinality(Held(j)') = Cardinality(Held(j)) + IF Head(queue) = j THEN 1 ELSE 0
  BY <1>1, <1>2, <1>3, HeldGains
<1>7. HeldFew' BY <1>6 DEF HeldFew
<1>8. ASSUME NEW j \in Note!Jobs PROVE Note!Places(j)' = Note!Places(j)
  <2>1. TimesIn(queue, j) = TimesIn(queue', j) + IF Head(queue) = j THEN 1 ELSE 0
    BY <1>1, <1>2, OccTail DEF JobTypes
  <2>2. TimesIn(retry', j) = TimesIn(retry, j) /\ done'[j] = done[j] BY <1>1
  <2> QED BY <1>2, <1>4, <1>6, <1>7, <2>1, <2>2, PlacesSum, PlacesSumNext DEF Sums
<1>9. Placed' BY <1>1, <1>4, <1>7, <1>8, <1>2, Conserved DEF JobTypes
<1> QED BY <1>4, <1>5, <1>7, <1>9 DEF JobInv

LEMMA TakeRaisedPlaces == ASSUME JobInv, NEW w \in Workers, Note!TakeRaised(w) PROVE JobInv'
<1>1. /\ stage[w] = "waiting" /\ stage' = [stage EXCEPT ![w] = "ended"]
      /\ faults' = faults + 1 /\ UNCHANGED <<jobs, retry, job, done>>
      /\ queue' = queue \/ (queue # <<>> /\ queue' = Tail(queue))
  BY DEF Note!TakeRaised, Note!Trouble
<1>2. JobTypes /\ HeldFew /\ faults' \in Nat /\ faults' > 0
  BY <1>1 DEF JobInv, JobTypes
<1>3. queue' \in Seq(Note!Jobs)
  BY <1>1, <1>2, HeadTailProperties DEF JobTypes
<1>4. JobTypes' BY <1>1, <1>2, <1>3 DEF JobTypes
<1>5. Holding' BY <1>1 DEF JobInv, JobTypes, Holding
<1>6. \A j : Held(j)' = Held(j) BY <1>1 DEF Held
<1>7. HeldFew' BY <1>2, <1>6 DEF HeldFew
<1>8. ASSUME NEW j \in Note!Jobs
      PROVE  Note!Places(j)' \in {Note!Places(j), Note!Places(j) - 1}
  <2>1. TimesIn(queue', j) \in {TimesIn(queue, j), TimesIn(queue, j) - 1}
    <3>1. CASE queue' = queue BY <3>1
    <3>2. CASE queue # <<>> /\ queue' = Tail(queue)
      <4>1. TimesIn(queue, j) = TimesIn(queue', j) + IF Head(queue) = j THEN 1 ELSE 0
        BY <1>2, <3>2, OccTail DEF JobTypes
      <4> QED BY <1>2, <1>4, <1>7, <4>1, PlacesSum, PlacesSumNext DEF Sums
    <3> QED BY <1>1, <3>1, <3>2
  <2>2. TimesIn(retry', j) = TimesIn(retry, j) /\ done'[j] = done[j] BY <1>1
  <2> QED BY <1>2, <1>4, <1>6, <1>7, <2>1, <2>2, PlacesSum, PlacesSumNext DEF Sums
<1>9. Placed' BY <1>1, <1>2, <1>4, <1>7, <1>8, Conserved DEF JobTypes
<1> QED BY <1>4, <1>5, <1>7, <1>9 DEF JobInv

\* A job leaves its worker: handled, set aside, or lost to a failure.
LEMMA LeavesWorker ==
    ASSUME JobInv, NEW w \in Workers, NEW to \in {"waiting", "ended"}, Note!Free(w, to),
           jobs' = jobs, queue' = queue,
           \/ faults' = faults
           \/ faults' = faults + 1,
           \/ stage[w] = "handling" /\ done' = [done EXCEPT ![job[w]] = @ + 1] /\ retry' = retry
           \/ stage[w] = "handling" /\ retry' = Append(retry, job[w]) /\ done' = done
           \/ faults' > 0 /\ retry' = retry /\ done' = done
    PROVE  JobInv'
<1>1. JobTypes /\ HeldFew /\ faults' \in Nat /\ faults' >= faults
  BY DEF JobInv, JobTypes
<1>2. stage[w] = "handling" => job[w] \in Note!Jobs
  BY DEF JobInv, JobTypes, Holding
<1>3. retry' \in Seq(Note!Jobs)
  <2>1. stage[w] = "handling" => Append(retry, job[w]) \in Seq(Note!Jobs)
    BY <1>1, <1>2, AppendProperties DEF JobTypes
  <2> QED BY <1>1, <2>1 DEF JobTypes
<1>4. done' \in [Note!Jobs -> Nat]
  BY <1>1, <1>2 DEF JobTypes
<1>5. JobTypes' /\ Holding' /\ HeldFew'
  <2>1. /\ stage' \in [Workers -> {"waiting", "handling", "ended"}]
        /\ job' \in [Workers -> Note!Jobs \cup {NoJob}]
        /\ Holding' /\ HeldFew'
    BY Freed
  <2> QED BY <1>1, <1>3, <1>4, <2>1 DEF JobTypes
<1>6. ASSUME NEW j \in Note!Jobs
      PROVE  \/ Note!Places(j)' = Note!Places(j)
             \/ Note!Places(j)' = Note!Places(j) - 1 /\ faults' > 0
  <2>1. Cardinality(Held(j)) = Cardinality(Held(j)') + IF job[w] = j THEN 1 ELSE 0
    BY Freed
  <2>2. CASE stage[w] = "handling" /\ done' = [done EXCEPT ![job[w]] = @ + 1] /\ retry' = retry
    <3>1. done'[j] = done[j] + IF job[w] = j THEN 1 ELSE 0
      BY <1>1, <1>2, <2>2 DEF JobTypes
    <3>2. TimesIn(retry', j) = TimesIn(retry, j) /\ TimesIn(queue', j) = TimesIn(queue, j)
      BY <2>2
    <3> QED BY <1>1, <1>5, <2>1, <3>1, <3>2, PlacesSum, PlacesSumNext DEF Sums
  <2>3. CASE stage[w] = "handling" /\ retry' = Append(retry, job[w]) /\ done' = done
    <3>1. TimesIn(retry', j) = TimesIn(retry, j) + IF job[w] = j THEN 1 ELSE 0
      BY <1>1, <1>2, <2>3, OccAppend DEF JobTypes
    <3>2. done'[j] = done[j] /\ TimesIn(queue', j) = TimesIn(queue, j)
      BY <2>3
    <3> QED BY <1>1, <1>5, <2>1, <3>1, <3>2, PlacesSum, PlacesSumNext DEF Sums
  <2>4. CASE faults' > 0 /\ retry' = retry /\ done' = done
    <3>1. /\ TimesIn(retry', j) = TimesIn(retry, j) /\ TimesIn(queue', j) = TimesIn(queue, j)
          /\ done'[j] = done[j]
      BY <2>4
    <3> QED BY <1>1, <1>5, <2>1, <2>4, <3>1, PlacesSum, PlacesSumNext DEF Sums
  <2> QED BY <2>2, <2>3, <2>4
<1>7. Placed' BY <1>1, <1>5, <1>6, Conserved
<1> QED BY <1>5, <1>7 DEF JobInv

LEMMA EnqueuePlaces == ASSUME JobInv, NEW q \in Requests, Note!Enqueue(q) PROVE JobInv'
<1>1. /\ jobs < MaxJobs /\ jobs' = jobs + 1 /\ UNCHANGED <<retry, stage, job, done>>
      /\ \/ queue' = Append(queue, jobs') /\ faults' = faults
         \/ queue' \in {queue, Append(queue, jobs')} /\ faults' = faults + 1
  BY DEF Note!Enqueue, Note!Trouble, Note!crew
<1>2. JobTypes /\ HeldFew /\ faults' \in Nat /\ faults' >= faults
  BY <1>1 DEF JobInv, JobTypes
<1>3. jobs' \in Note!Jobs /\ jobs \in Nat
  BY <1>1, <1>2, NoteNumbers DEF JobTypes, Note!Jobs
<1>4. Append(queue, jobs') \in Seq(Note!Jobs)
  BY <1>2, <1>3, AppendProperties DEF JobTypes
<1>5. JobTypes'
  <2>1. queue' \in Seq(Note!Jobs) BY <1>1, <1>2, <1>4 DEF JobTypes
  <2>2. jobs' \in 0 .. MaxJobs BY <1>1, <1>3, NoteNumbers
  <2>3. /\ retry' \in Seq(Note!Jobs) /\ done' \in [Note!Jobs -> Nat]
        /\ stage' \in [Workers -> {"waiting", "handling", "ended"}]
        /\ job' \in [Workers -> Note!Jobs \cup {NoJob}]
    BY <1>1, <1>2 DEF JobTypes
  <2> QED BY <1>2, <2>1, <2>2, <2>3 DEF JobTypes
<1>6. \A j : Held(j)' = Held(j) BY <1>1 DEF Held
<1>7. Holding' /\ HeldFew'
  BY <1>1, <1>6 DEF JobInv, Holding, HeldFew
<1>8. ASSUME NEW j \in Note!Jobs
      PROVE  /\ j # jobs' => Note!Places(j)' = Note!Places(j)
             /\ j = jobs' => \/ Note!Places(j)' = Note!Places(j) + 1
                             \/ Note!Places(j)' = Note!Places(j) /\ faults' > 0
  <2>1. TimesIn(Append(queue, jobs'), j) = TimesIn(queue, j) + IF jobs' = j THEN 1 ELSE 0
    BY <1>2, <1>3, OccAppend DEF JobTypes
  <2>2. /\ TimesIn(retry', j) = TimesIn(retry, j) /\ done'[j] = done[j]
        /\ Cardinality(Held(j)') = Cardinality(Held(j))
    BY <1>1, <1>6
  <2>3. /\ TimesIn(queue, j) \in Nat /\ TimesIn(retry, j) \in Nat
        /\ Cardinality(Held(j)) \in Nat /\ done[j] \in Nat
        /\ Note!Places(j) = TimesIn(queue, j) + TimesIn(retry, j)
                            + Cardinality(Held(j)) + done[j]
        /\ Note!Places(j)' = TimesIn(queue', j) + TimesIn(retry', j)
                             + Cardinality(Held(j)') + done'[j]
    BY <1>2, <1>5, <1>7, PlacesSum, PlacesSumNext DEF Sums
  <2>4. CASE queue' = Append(queue, jobs') BY <2>1, <2>2, <2>3, <2>4
  <2>5. CASE queue' = queue /\ faults' = faults + 1
    <3>1. faults' > 0 BY <1>2, <2>5 DEF JobTypes
    <3> QED BY <2>2, <2>3, <2>5, <3>1
  <2> QED BY <1>1, <2>4, <2>5
<1>9. Placed'
  <2> SUFFICES ASSUME NEW j \in Note!Jobs
               PROVE  /\ j <= jobs' => /\ Note!Places(j)' <= 1
                                       /\ Note!Places(j)' = 0 => faults' > 0
                      /\ j > jobs'  => Note!Places(j)' = 0
    BY DEF Placed
  <2>1. Note!Places(j) \in Nat /\ j \in Nat
    BY <1>2, PlacesSum DEF Sums, Note!Jobs
  <2>2. /\ j <= jobs => Note!Places(j) <= 1 /\ (Note!Places(j) = 0 => faults > 0)
        /\ j > jobs  => Note!Places(j) = 0
    BY DEF JobInv, Placed
  <2>3. faults \in Nat BY <1>2 DEF JobTypes
  <2>4. CASE j = jobs' BY <1>1, <1>2, <1>3, <1>8, <2>1, <2>2, <2>3, <2>4
  <2>5. CASE j # jobs' BY <1>1, <1>2, <1>3, <1>8, <2>1, <2>2, <2>3, <2>5
  <2> QED BY <2>4, <2>5
<1> QED BY <1>5, <1>7, <1>9 DEF JobInv

\* A step that leaves the lists and the workers' jobs alone.
LEMMA PlacesKept ==
    ASSUME JobInv, UNCHANGED <<jobs, queue, retry, job, done>>, Holding',
           stage' \in [Workers -> {"waiting", "handling", "ended"}],
           faults' = faults \/ faults' = faults + 1
    PROVE  JobInv'
<1>1. JobTypes /\ HeldFew /\ faults' \in Nat /\ faults' >= faults
  BY DEF JobInv, JobTypes
<1>2. JobTypes' BY <1>1 DEF JobTypes
<1>3. \A j : Held(j)' = Held(j) BY DEF Held
<1>4. HeldFew' BY <1>1, <1>3 DEF HeldFew
<1>5. \A j \in Note!Jobs : Note!Places(j)' = Note!Places(j)
  BY <1>1, <1>2, <1>3, <1>4, PlacesSum, PlacesSumNext DEF Sums
<1>6. Placed' BY <1>1, <1>2, <1>4, <1>5, Conserved
<1> QED BY <1>2, <1>4, <1>6 DEF JobInv

LEMMA JobStep == JobInv /\ [Note!Next]_(Note!vars) => JobInv'
<1> SUFFICES ASSUME JobInv, [Note!Next]_(Note!vars) PROVE JobInv' OBVIOUS
<1>1. ASSUME UNCHANGED <<jobs, queue, retry, stage, job, done>>,
             faults' = faults \/ faults' = faults + 1
      PROVE  JobInv'
  BY <1>1, PlacesKept DEF JobInv, JobTypes, Holding
<1>2. ASSUME NEW q \in Requests, Note!Read(q) \/ Note!Write(q) \/ Note!WriteRaised(q)
      PROVE  JobInv'
  BY <1>1, <1>2 DEF Note!Read, Note!Write, Note!WriteRaised, Note!Trouble, Note!lists, Note!crew
<1>3. ASSUME NEW q \in Requests, Note!Enqueue(q) PROVE JobInv'
  BY <1>3, EnqueuePlaces
<1>4. ASSUME NEW w \in Workers, Note!Take(w) PROVE JobInv'
  BY <1>4, TakePlaces
<1>5. ASSUME NEW w \in Workers, Note!Handled(w) PROVE JobInv'
  BY <1>5, LeavesWorker DEF Note!Handled, Note!lists
<1>6. ASSUME NEW w \in Workers, Note!Failed(w) PROVE JobInv'
  BY <1>6, LeavesWorker DEF Note!Failed, Note!SetAside
<1>7. ASSUME NEW w \in Workers, Note!TakeRaised(w) PROVE JobInv'
  BY <1>7, TakeRaisedPlaces
<1>8. ASSUME NEW w \in Workers, Note!RetryRaised(w) PROVE JobInv'
  <2>1. faults' = faults + 1 /\ faults' > 0
    BY <1>8 DEF Note!RetryRaised, Note!Trouble, JobInv, JobTypes
  <2> QED BY <1>8, <2>1, LeavesWorker DEF Note!RetryRaised, Note!SetAside
<1>9. ASSUME NEW w \in Workers, Note!Crash(w) PROVE JobInv'
  <2>1. faults' = faults + 1 /\ faults' > 0
    BY <1>9 DEF Note!Crash, Note!Trouble, JobInv, JobTypes
  <2> QED BY <1>9, <2>1, LeavesWorker DEF Note!Crash, Note!lists
<1>10. ASSUME Note!RunWorkers PROVE JobInv'
  <2>1. /\ UNCHANGED <<jobs, queue, retry, job, done, faults>>
        /\ stage' = [w \in Workers |-> "waiting"]
        /\ \A w \in Workers : stage[w] = "ended"
    BY <1>10 DEF Note!RunWorkers, Note!lists
  <2>2. Holding' BY <2>1 DEF JobInv, Holding
  <2> QED BY <2>1, <2>2, PlacesKept
<1>11. ASSUME UNCHANGED Note!vars PROVE JobInv'
  BY <1>1, <1>11 DEF Note!vars
<1> QED BY <1>2, <1>3, <1>4, <1>5, <1>6, <1>7, <1>8, <1>9, <1>10, <1>11 DEF Note!Next, Note!Work

\* Every update handed to the workers is in one place, so none is handled twice,
\* and none is lost without a failure: enqueue_note, BLPOP and the retry list of
\* worker_loop, with workers that crash and pushes whose answer is lost.
THEOREM UpdatesAreAccounted == Note!Spec => []JobsAccounted
<1>1. JobInv => JobsAccounted
  <2> SUFFICES ASSUME JobInv, NEW j \in 1 .. jobs
               PROVE  Note!Places(j) <= 1 /\ (Note!Places(j) = 0 => faults > 0)
    BY DEF JobsAccounted, Note!JobsAccounted
  <2>1. j \in Note!Jobs /\ j <= jobs
    BY NoteNumbers DEF JobInv, JobTypes, Note!Jobs
  <2> QED BY <2>1 DEF JobInv, Placed
<1> QED BY JobInit, JobStep, <1>1, PTL DEF Note!Spec

-----------------------------------------------------------------------------
(***************************************************************************)
(* Events.  While an event is broadcast, whoever the iteration has yet to  *)
(* reach has been sent older events only.                                  *)
(***************************************************************************)
Ascending(list) == \A i, k \in DOMAIN list : i < k => list[i] < list[k]
UpTo(box, list)   == \A i \in DOMAIN box, k \in DOMAIN list : box[i] <= list[k]
Before(box, list) == \A i \in DOMAIN box, k \in DOMAIN list : box[i] < list[k]

EventTypes ==
    /\ conns \in Seq(Sockets)
    /\ peer \in [Sockets -> {"new", "open", "left", "closed", "broken"}]
    /\ listener \in {"off", "listening", "sending", "ended"}
    /\ published \in Nat
    /\ pending \in Seq(Nat)
    /\ at \in Nat
    /\ target \in Sockets \cup {NoSocket}
    /\ inbox \in [Sockets -> Seq(Nat)]
    /\ owed \subseteq Sockets
    /\ shifted \in BOOLEAN

\* Who is listed is so once, from the connection to the disconnection.
Listed ==
    /\ \A i, k \in DOMAIN conns : conns[i] = conns[k] => i = k
    /\ \A i \in DOMAIN conns : peer[conns[i]] # "new"
    /\ \A s \in Sockets : peer[s] \in {"open", "left"} => \E i \in DOMAIN conns : conns[i] = s

\* The subscription holds what is published next, in order.
Awaiting ==
    /\ Ascending(pending) /\ \A k \in DOMAIN pending : pending[k] <= published
    /\ listener \in {"off", "ended"} => pending = <<>>
    /\ listener = "sending" => pending # <<>>
    /\ target # NoSocket => listener = "sending" /\ peer[target] # "new"

Received ==
    \A s \in Sockets :
        /\ Ascending(inbox[s]) /\ \A i \in DOMAIN inbox[s] : inbox[s][i] <= published
        /\ UpTo(inbox[s], pending)
        /\ listener # "sending" => Before(inbox[s], pending)
        /\ peer[s] = "new" => inbox[s] = <<>>

\* The iteration is before it, or its send is in progress.
Ahead ==
    listener = "sending" =>
        /\ \A i \in DOMAIN conns : i >= at => Before(inbox[conns[i]], pending)
        /\ target # NoSocket => /\ Before(inbox[target], pending)
                                /\ \A i \in DOMAIN conns : conns[i] = target => i < at

Started == listener = "sending" => at >= 1

EventInv == EventTypes /\ Listed /\ Awaiting /\ Received /\ Ahead /\ Started

\* Who is owed the event is still ahead, or has it.
Covered ==
    listener = "sending" /\ ~shifted =>
        \A s \in owed :
            \/ \E i \in DOMAIN conns : i >= at /\ conns[i] = s
            \/ s = target
            \/ \E i \in DOMAIN inbox[s] : inbox[s][i] = Head(pending)

LEMMA EventNumbers == NoSocket \notin Sockets /\ MaxEvents \in Nat
BY ServicesAssumption DEF Events!EventsAssumption

\* A connection is removed: those after it move up by one.
LEMMA Removed ==
    ASSUME EventTypes, Listed, NEW s \in Sockets, NEW n \in DOMAIN conns, conns[n] = s
    PROVE  /\ Events!IndexOf(s) = n
           /\ Events!Without(s) \in Seq(Sockets)
           /\ DOMAIN Events!Without(s) = 1 .. Len(conns) - 1
           /\ \A i \in 1 .. Len(conns) - 1 :
                 Events!Without(s)[i] = IF i < n THEN conns[i] ELSE conns[i + 1]
<1>1. Events!IndexOf(s) = n
  BY DEF Events!IndexOf, Listed
<1> DEFINE a == SubSeq(conns, 1, n - 1)
           b == SubSeq(conns, n + 1, Len(conns))
<1>2. conns \in Seq(Sockets) /\ Len(conns) \in Nat /\ n \in 1 .. Len(conns)
      /\ \A i \in 1 .. Len(conns) : conns[i] \in Sockets
  BY LenProperties, ElementOfSeq DEF EventTypes
<1>3. /\ a \in Seq(Sockets) /\ Len(a) = n - 1
      /\ \A i \in 1 .. n - 1 : a[i] = conns[i]
  <2>1. \A i \in 1 .. n - 1 : conns[i] \in Sockets BY <1>2
  <2> QED BY <1>2, <2>1, SubSeqProperties
<1>4. /\ b \in Seq(Sockets) /\ Len(b) = Len(conns) - n
      /\ \A i \in 1 .. Len(conns) - n : b[i] = conns[n + i]
  <2>1. \A i \in n + 1 .. Len(conns) : conns[i] \in Sockets BY <1>2
  <2> QED BY <1>2, <2>1, SubSeqProperties
<1>5. Events!Without(s) = a \o b
  BY <1>1 DEF Events!Without
<1> HIDE DEF a, b
<1>6. /\ a \o b \in Seq(Sockets) /\ Len(a \o b) = Len(conns) - 1
      /\ \A i \in 1 .. Len(conns) - 1 :
            (a \o b)[i] = IF i <= n - 1 THEN a[i] ELSE b[i - (n - 1)]
  BY <1>2, <1>3, <1>4, ConcatProperties
<1>7. ASSUME NEW i \in 1 .. Len(conns) - 1
      PROVE  (a \o b)[i] = IF i < n THEN conns[i] ELSE conns[i + 1]
  <2>1. CASE i < n BY <1>2, <1>3, <1>6, <2>1
  <2>2. CASE ~(i < n)
    <3>1. i - (n - 1) \in 1 .. Len(conns) - n /\ n + (i - (n - 1)) = i + 1
      BY <1>2, <2>2
    <3> QED BY <1>2, <1>4, <1>6, <2>2, <3>1
  <2> QED BY <2>1, <2>2
<1> QED BY <1>1, <1>5, <1>6, <1>7, LenProperties

LEMMA EventInit == Events!Init => EventInv /\ Covered
<1> SUFFICES ASSUME Events!Init PROVE EventInv /\ Covered OBVIOUS
<1>1. /\ conns = <<>> /\ pending = <<>> /\ published = 0 /\ at = 0 /\ listener = "off"
      /\ peer = [s \in Sockets |-> "new"] /\ inbox = [s \in Sockets |-> <<>>]
      /\ target = NoSocket /\ owed = {} /\ shifted = FALSE
  BY DEF Events!Init
<1>2. EventTypes
  <2>1. <<>> \in Seq(Nat) /\ <<>> \in Seq(Sockets) /\ 0 \in Nat BY EmptySeq
  <2> QED BY <1>1, <2>1 DEF EventTypes
<1>3. Listed /\ Awaiting BY <1>1 DEF Listed, Awaiting, Ascending
<1>4. Received BY <1>1 DEF Received, Ascending, UpTo, Before
<1>5. Ahead /\ Covered /\ Started BY <1>1 DEF Ahead, Covered, Started
<1> QED BY <1>2, <1>3, <1>4, <1>5 DEF EventInv

LEMMA ConnectEvents ==
    ASSUME EventInv, Covered, NEW s \in Sockets, Events!Connect(s)
    PROVE  EventInv' /\ Covered'
<1>1. /\ peer[s] = "new" /\ peer' = [peer EXCEPT ![s] = "open"] /\ conns' = Append(conns, s)
      /\ UNCHANGED <<listener, published, pending, at, target, owed, shifted, inbox>>
  BY DEF Events!Connect, Events!Appended, Events!loop
<1>2. EventTypes BY DEF EventInv
<1>3. /\ Len(conns) \in Nat /\ DOMAIN conns = 1 .. Len(conns) /\ conns' \in Seq(Sockets)
      /\ DOMAIN conns' = 1 .. Len(conns) + 1
      /\ \A i \in 1 .. Len(conns) : conns'[i] = conns[i] /\ conns[i] \in Sockets
      /\ conns'[Len(conns) + 1] = s
  BY <1>1, <1>2, LenProperties, AppendProperties, ElementOfSeq DEF EventTypes
<1>4. \A i \in DOMAIN conns : conns[i] # s
  BY <1>1 DEF EventInv, Listed
<1>5. EventTypes' BY <1>1, <1>2, <1>3 DEF EventTypes
<1>6. Listed'
  BY <1>1, <1>2, <1>3, <1>4 DEF EventInv, EventTypes, Listed
<1>7. Awaiting' BY <1>1, <1>2 DEF EventInv, EventTypes, Awaiting
<1>8. Received' BY <1>1, <1>2 DEF EventInv, EventTypes, Received, UpTo, Before
<1>9. Ahead'
  <2>1. inbox[s] = <<>> BY <1>1 DEF EventInv, Received
  <2>2. Before(inbox[s], pending) BY <2>1 DEF Before
  <2>3. target # NoSocket => target # s
    BY <1>1 DEF EventInv, Awaiting
  <2> QED BY <1>1, <1>3, <2>2, <2>3 DEF EventInv, Ahead
<1>10. Covered'
  BY <1>1, <1>3 DEF Covered
<1>11. Started' BY <1>1 DEF EventInv, Started
<1> QED BY <1>5, <1>6, <1>7, <1>8, <1>9, <1>10, <1>11 DEF EventInv

LEMMA DisconnectEvents ==
    ASSUME EventInv, Covered, NEW s \in Sockets, Events!Disconnect(s)
    PROVE  EventInv' /\ Covered'
<1>1. /\ peer[s] = "left" /\ peer' = [peer EXCEPT ![s] = "closed"]
      /\ shifted' = (shifted \/ (listener = "sending" /\ Events!IndexOf(s) < at))
      /\ conns' = Events!Without(s) /\ owed' = owed \ {s}
      /\ UNCHANGED <<listener, published, pending, at, target, inbox>>
  BY DEF Events!Disconnect
<1>2. EventTypes /\ Listed BY DEF EventInv
<1>3. PICK n \in DOMAIN conns : conns[n] = s
  BY <1>1, <1>2 DEF Listed
<1>4. /\ Events!IndexOf(s) = n /\ conns' \in Seq(Sockets)
      /\ DOMAIN conns' = 1 .. Len(conns) - 1
      /\ \A i \in 1 .. Len(conns) - 1 : conns'[i] = IF i < n THEN conns[i] ELSE conns[i + 1]
  BY <1>1, <1>2, <1>3, Removed
<1>5. /\ Len(conns) \in Nat /\ DOMAIN conns = 1 .. Len(conns) /\ n \in 1 .. Len(conns)
      /\ \A i \in 1 .. Len(conns) : conns[i] \in Sockets
  BY <1>2, <1>3, LenProperties, ElementOfSeq DEF EventTypes
<1>6. /\ \A i \in DOMAIN conns' : \E k \in DOMAIN conns :
            /\ conns'[i] = conns[k] /\ k >= i /\ k # n
            /\ k = i \/ k = i + 1
      /\ \A k \in DOMAIN conns \ {n} : \E i \in DOMAIN conns' :
            conns'[i] = conns[k] /\ (k < n => i = k) /\ (k > n => i = k - 1)
  <2>1. ASSUME NEW i \in DOMAIN conns'
        PROVE  \E k \in DOMAIN conns : /\ conns'[i] = conns[k] /\ k >= i /\ k # n
                                       /\ k = i \/ k = i + 1
    <3>1. CASE i < n BY <1>4, <1>5, <2>1, <3>1
    <3>2. CASE ~(i < n)
      <4>1. i + 1 \in DOMAIN conns /\ i + 1 # n /\ i + 1 >= i BY <1>4, <1>5, <2>1, <3>2
      <4> QED BY <1>4, <2>1, <3>2, <4>1
    <3> QED BY <3>1, <3>2
  <2>2. ASSUME NEW k \in DOMAIN conns \ {n}
        PROVE  \E i \in DOMAIN conns' :
                  conns'[i] = conns[k] /\ (k < n => i = k) /\ (k > n => i = k - 1)
    <3>1. CASE k < n BY <1>4, <1>5, <2>2, <3>1
    <3>2. CASE k > n
      <4>1. k - 1 \in DOMAIN conns' /\ ~(k - 1 < n) /\ (k - 1) + 1 = k
        BY <1>4, <1>5, <2>2, <3>2
      <4> QED BY <1>4, <1>5, <2>2, <3>2, <4>1
    <3> QED BY <1>5, <2>2, <3>1, <3>2
  <2> QED BY <2>1, <2>2
<1>7. EventTypes' BY <1>1, <1>2, <1>4 DEF EventTypes
<1>8. Listed'
  <2>1. \A i, k \in DOMAIN conns' : conns'[i] = conns'[k] => i = k
    BY <1>2, <1>4, <1>5 DEF Listed
  <2>2. \A i \in DOMAIN conns' : peer'[conns'[i]] # "new"
    BY <1>1, <1>2, <1>5, <1>6 DEF Listed, EventTypes
  <2>3. ASSUME NEW t \in Sockets, peer'[t] \in {"open", "left"}
        PROVE  \E i \in DOMAIN conns' : conns'[i] = t
    <3>1. t # s /\ peer[t] \in {"open", "left"} BY <1>1, <1>2, <2>3 DEF EventTypes
    <3>2. PICK k \in DOMAIN conns : conns[k] = t BY <1>2, <3>1 DEF Listed
    <3> QED BY <1>3, <1>6, <3>1, <3>2
  <2> QED BY <2>1, <2>2, <2>3 DEF Listed
<1>9. Awaiting' BY <1>1, <1>2 DEF EventInv, EventTypes, Awaiting
<1>10. Received' BY <1>1, <1>2 DEF EventInv, EventTypes, Received, UpTo, Before
<1>11. Ahead'
  <2> SUFFICES ASSUME listener = "sending"
               PROVE  /\ \A i \in DOMAIN conns' : i >= at => Before(inbox[conns'[i]], pending)
                      /\ target # NoSocket =>
                            /\ Before(inbox[target], pending)
                            /\ \A i \in DOMAIN conns' : conns'[i] = target => i < at
    BY <1>1 DEF Ahead
  <2>1. \A i \in DOMAIN conns : i >= at => Before(inbox[conns[i]], pending)
    BY DEF EventInv, Ahead
  <2>2. target # NoSocket => /\ Before(inbox[target], pending)
                             /\ \A i \in DOMAIN conns : conns[i] = target => i < at
    BY DEF EventInv, Ahead
  <2>3. at \in Nat BY <1>2 DEF EventTypes
  <2>4. ASSUME NEW i \in DOMAIN conns', i >= at PROVE Before(inbox[conns'[i]], pending)
    <3>1. PICK k \in DOMAIN conns : conns'[i] = conns[k] /\ k >= i BY <1>6, <2>4
    <3>2. Before(inbox[conns[k]], pending) BY <1>4, <1>5, <2>1, <2>3, <2>4, <3>1
    <3> QED BY <3>1, <3>2
  <2>5. ASSUME target # NoSocket, NEW i \in DOMAIN conns', conns'[i] = target PROVE i < at
    <3>1. PICK k \in DOMAIN conns : conns'[i] = conns[k] /\ k >= i BY <1>6, <2>5
    <3>2. k < at BY <2>2, <2>5, <3>1
    <3> QED BY <1>4, <1>5, <2>3, <2>5, <3>1, <3>2
  <2> QED BY <2>2, <2>4, <2>5
<1>12. Covered'
  <2> SUFFICES ASSUME listener = "sending", ~shifted', NEW t \in owed \ {s}
               PROVE  \/ \E i \in DOMAIN conns' : i >= at /\ conns'[i] = t
                      \/ t = target
                      \/ \E i \in DOMAIN inbox[t] : inbox[t][i] = Head(pending)
    BY <1>1 DEF Covered
  <2>1. ~shifted /\ ~(n < at) BY <1>1, <1>4
  <2>2. ASSUME NEW k \in DOMAIN conns, k >= at, conns[k] = t
        PROVE  \E i \in DOMAIN conns' : i >= at /\ conns'[i] = t
    <3>1. k # n /\ at \in Nat BY <1>2, <1>3, <2>2 DEF EventTypes
    <3>2. PICK i \in DOMAIN conns' :
             conns'[i] = conns[k] /\ (k < n => i = k) /\ (k > n => i = k - 1)
      BY <1>6, <2>2, <3>1
    <3>3. i >= at BY <1>5, <2>1, <2>2, <3>1, <3>2
    <3> QED BY <2>2, <3>2, <3>3
  <2> QED BY <2>1, <2>2 DEF Covered
<1>13. Started' BY <1>1 DEF EventInv, Started
<1> QED BY <1>7, <1>8, <1>9, <1>10, <1>11, <1>12, <1>13 DEF EventInv

\* The browser goes away, or the endpoint ends with an error: still listed.
LEMMA PeerEvents ==
    ASSUME EventInv, Covered, NEW s \in Sockets, Events!Leave(s) \/ Events!Break(s)
    PROVE  EventInv' /\ Covered'
<1>1. /\ peer[s] \in {"open", "left"}
      /\ \/ peer' = [peer EXCEPT ![s] = "left"]
         \/ peer' = [peer EXCEPT ![s] = "broken"]
      /\ owed' \subseteq owed
      /\ UNCHANGED <<conns, listener, published, pending, at, target, inbox, shifted>>
  BY DEF Events!Leave, Events!Break, Events!loop
<1>2. EventTypes BY DEF EventInv
<1>3. \A t \in Sockets : /\ peer'[t] # "new" <=> peer[t] # "new"
                         /\ peer'[t] \in {"open", "left"} => peer[t] \in {"open", "left"}
  BY <1>1, <1>2 DEF EventTypes
<1>4. \A i \in DOMAIN conns : conns[i] \in Sockets
  BY <1>2, ElementOfSeq, LenProperties DEF EventTypes
<1>5. EventTypes' BY <1>1, <1>2 DEF EventTypes
<1>6. Listed' BY <1>1, <1>3, <1>4 DEF EventInv, Listed
<1>7. Awaiting'
  <2>1. target # NoSocket => target \in Sockets BY <1>2 DEF EventTypes
  <2> QED BY <1>1, <1>3, <2>1 DEF EventInv, Awaiting
<1>8. Received' BY <1>1, <1>3 DEF EventInv, Received
<1>9. Ahead' BY <1>1 DEF EventInv, Ahead
<1>10. Covered' BY <1>1 DEF Covered
<1>11. Started' BY <1>1 DEF EventInv, Started
<1> QED BY <1>5, <1>6, <1>7, <1>8, <1>9, <1>10, <1>11 DEF EventInv

LEMMA PublishEvents ==
    ASSUME EventInv, Covered, Events!Publish
    PROVE  EventInv' /\ Covered'
<1>1. /\ published' = published + 1
      /\ pending' = IF listener \in {"listening", "sending"}
                    THEN Append(pending, published') ELSE pending
      /\ UNCHANGED <<conns, peer, listener, at, target, owed, shifted, inbox>>
  BY DEF Events!Publish, Events!loop
<1>2. EventTypes BY DEF EventInv
<1>3. published \in Nat /\ published' \in Nat BY <1>1, <1>2 DEF EventTypes
<1>4. /\ Len(pending) \in Nat /\ DOMAIN pending = 1 .. Len(pending)
      /\ \A i \in DOMAIN pending : pending[i] \in Nat
  BY <1>2, LenProperties, ElementOfSeq DEF EventTypes
<1>5. \A s \in Sockets : /\ inbox[s] \in Seq(Nat)
                         /\ \A i \in DOMAIN inbox[s] : inbox[s][i] \in Nat
  BY <1>2, LenProperties, ElementOfSeq DEF EventTypes
<1>6. CASE listener \in {"listening", "sending"}
  <2>1. /\ pending' \in Seq(Nat) /\ DOMAIN pending' = (DOMAIN pending) \cup {Len(pending) + 1}
        /\ \A k \in DOMAIN pending : pending'[k] = pending[k]
        /\ pending'[Len(pending) + 1] = published + 1 /\ pending' # <<>>
    <3>1. pending' = Append(pending, published + 1) BY <1>1, <1>6
    <3> QED BY <1>1, <1>2, <1>3, <1>4, <3>1, AppendProperties, LenProperties DEF EventTypes
  <2>2. EventTypes' BY <1>1, <1>2, <1>3, <2>1 DEF EventTypes
  <2>3. Listed' BY <1>1 DEF EventInv, Listed
  <2>4. \A k \in DOMAIN pending : pending[k] <= published BY DEF EventInv, Awaiting
  <2>5. Awaiting'
    <3>1. Ascending(pending)'
      BY <1>3, <1>4, <2>1, <2>4 DEF EventInv, Awaiting, Ascending
    <3>2. \A k \in DOMAIN pending' : pending'[k] <= published'
      BY <1>1, <1>3, <1>4, <2>1, <2>4
    <3> QED BY <1>1, <1>6, <2>1, <3>1, <3>2 DEF EventInv, Awaiting
  <2>6. ASSUME NEW s \in Sockets
        PROVE  /\ UpTo(inbox[s], pending') /\ \A i \in DOMAIN inbox[s] : inbox[s][i] <= published'
               /\ Before(inbox[s], pending) => Before(inbox[s], pending')
    <3>1. \A i \in DOMAIN inbox[s] : inbox[s][i] <= published BY DEF EventInv, Received
    <3>2. UpTo(inbox[s], pending) BY DEF EventInv, Received
    <3>3. \A i \in DOMAIN inbox[s] : inbox[s][i] \in Nat BY <1>5
    <3>4. \A i \in DOMAIN inbox[s], k \in DOMAIN pending' :
             \/ k \in DOMAIN pending /\ pending'[k] = pending[k]
             \/ inbox[s][i] < pending'[k]
      BY <1>3, <2>1, <3>1, <3>3
    <3>5. \A i \in DOMAIN inbox[s], k \in DOMAIN pending' : pending'[k] \in Nat
      BY <1>3, <1>4, <2>1
    <3>6. UpTo(inbox[s], pending') BY <3>2, <3>3, <3>4, <3>5 DEF UpTo
    <3>7. Before(inbox[s], pending) => Before(inbox[s], pending') BY <3>4 DEF Before
    <3>8. \A i \in DOMAIN inbox[s] : inbox[s][i] <= published'
      BY <1>1, <1>3, <3>1, <3>3
    <3> QED BY <3>6, <3>7, <3>8
  <2>7. Received' BY <1>1, <2>6 DEF EventInv, Received
  <2>8. Ahead'
    <3>1. \A i \in DOMAIN conns : conns[i] \in Sockets
      BY <1>2, ElementOfSeq, LenProperties DEF EventTypes
    <3>2. target # NoSocket => target \in Sockets BY <1>2 DEF EventTypes
    <3> QED BY <1>1, <2>6, <3>1, <3>2 DEF EventInv, Ahead
  <2>9. Covered'
    <3>1. listener = "sending" => Head(pending') = Head(pending)
      <4>1. listener = "sending" => pending # <<>> BY DEF EventInv, Awaiting
      <4>2. pending' = Append(pending, published + 1) BY <1>1, <1>6
      <4> QED BY <1>2, <4>1, <4>2, HeadTailAppend DEF EventTypes
    <3> QED BY <1>1, <3>1 DEF Covered
  <2>10. Started' BY <1>1 DEF EventInv, Started
  <2> QED BY <2>2, <2>3, <2>5, <2>7, <2>8, <2>9, <2>10 DEF EventInv
<1>7. CASE listener \notin {"listening", "sending"}
  <2>1. pending' = pending BY <1>1, <1>7
  <2>2. EventTypes' BY <1>1, <1>2, <1>3, <2>1 DEF EventTypes
  <2>3. Listed' /\ Ahead' /\ Covered' /\ Started'
    BY <1>1, <1>7, <2>1 DEF EventInv, Listed, Ahead, Covered, Started
  <2>4. Awaiting'
    <3>1. \A k \in DOMAIN pending : pending[k] <= published BY DEF EventInv, Awaiting
    <3>2. \A k \in DOMAIN pending : pending[k] <= published + 1
      BY <1>3, <1>4, <3>1
    <3>3. published' = published + 1 BY <1>1
    <3> QED BY <1>1, <2>1, <3>2, <3>3 DEF EventInv, Awaiting
  <2>5. Received'
    BY <1>1, <1>3, <1>5, <2>1 DEF EventInv, Received
  <2> QED BY <2>2, <2>3, <2>4, <2>5 DEF EventInv
<1> QED BY <1>6, <1>7

LEMMA ReceiveEvents ==
    ASSUME EventInv, Covered, Events!Receive
    PROVE  EventInv' /\ Covered'
<1>1. /\ listener = "listening" /\ pending # <<>> /\ listener' = "sending" /\ at' = 1
      /\ owed' = {s \in Events!Members : peer[s] # "broken"} /\ shifted' = FALSE
      /\ UNCHANGED <<conns, peer, published, pending, target, inbox>>
  BY DEF Events!Receive
<1>2. EventTypes /\ target = NoSocket BY <1>1 DEF EventInv, Awaiting
<1>3. /\ DOMAIN conns = 1 .. Len(conns)
      /\ \A i \in DOMAIN conns : conns[i] \in Sockets
      /\ \A i \in DOMAIN conns : i >= 1
  BY <1>2, ElementOfSeq, LenProperties DEF EventTypes
<1>4. EventTypes' BY <1>1, <1>2, <1>3 DEF EventTypes, Events!Members
<1>5. Listed' /\ Awaiting' /\ Received'
  BY <1>1, <1>2 DEF EventInv, Listed, Awaiting, Received
<1>6. Ahead' BY <1>1, <1>2, <1>3 DEF EventInv, Received, Ahead
<1>7. Covered' /\ Started' BY <1>1, <1>3 DEF Covered, Started, Events!Members
<1> QED BY <1>4, <1>5, <1>6, <1>7 DEF EventInv
LEMMA TurnEvents ==
    ASSUME EventInv, Covered, Events!Turn
    PROVE  EventInv' /\ Covered'
<1>1. /\ listener = "sending" /\ target = NoSocket /\ at <= Len(conns)
      /\ target' = conns[at] /\ at' = at + 1
      /\ UNCHANGED <<conns, peer, listener, published, pending, owed, shifted, inbox>>
  BY DEF Events!Turn
<1>2. EventTypes /\ Listed BY DEF EventInv
<1>3. /\ Len(conns) \in Nat /\ DOMAIN conns = 1 .. Len(conns) /\ at \in Nat
      /\ \A i \in DOMAIN conns : conns[i] \in Sockets
  BY <1>2, LenProperties, ElementOfSeq DEF EventTypes
<1>4. at \in DOMAIN conns /\ target' \in Sockets
  BY <1>1, <1>3 DEF EventInv, Started
<1>5. EventTypes' BY <1>1, <1>2, <1>3, <1>4 DEF EventTypes
<1>6. Listed' BY <1>1, <1>2 DEF Listed
<1>7. Awaiting' BY <1>1, <1>2, <1>4 DEF EventInv, Awaiting, Listed
<1>8. Received' BY <1>1 DEF EventInv, Received
<1>9. Ahead'
  <2>1. \A i \in DOMAIN conns : i >= at => Before(inbox[conns[i]], pending)
    BY <1>1 DEF EventInv, Ahead
  <2>2. Before(inbox[target'], pending) BY <1>1, <1>3, <1>4, <2>1
  <2>3. \A i \in DOMAIN conns : conns[i] = target' => i = at
    BY <1>1, <1>2, <1>4 DEF Listed
  <2>4. \A i \in DOMAIN conns : i >= at + 1 => i >= at BY <1>3
  <2>5. at < at + 1 BY <1>3
  <2> QED BY <1>1, <2>1, <2>2, <2>3, <2>4, <2>5 DEF Ahead
<1>10. Covered'
  <2> SUFFICES ASSUME ~shifted, NEW s \in owed
               PROVE  \/ \E i \in DOMAIN conns : i >= at + 1 /\ conns[i] = s
                      \/ s = target'
                      \/ \E i \in DOMAIN inbox[s] : inbox[s][i] = Head(pending)
    BY <1>1 DEF Covered
  <2>1. \A i \in DOMAIN conns : i >= at => i >= at + 1 \/ conns[i] = target'
    BY <1>1, <1>3
  <2>2. s \in Sockets /\ s # NoSocket
    BY <1>2, EventNumbers DEF EventTypes
  <2> QED BY <1>1, <2>1, <2>2 DEF Covered
<1>11. Started' BY <1>1, <1>3 DEF EventInv, Started
<1> QED BY <1>5, <1>6, <1>7, <1>8, <1>9, <1>10, <1>11 DEF EventInv

LEMMA SentEvents ==
    ASSUME EventInv, Covered, Events!Sent
    PROVE  EventInv' /\ Covered'
<1>1. /\ target # NoSocket /\ inbox' = [inbox EXCEPT ![target] = Append(@, Head(pending))]
      /\ target' = NoSocket
      /\ UNCHANGED <<conns, peer, listener, published, pending, at, owed, shifted>>
  BY DEF Events!Sent
<1>2. EventTypes /\ target \in Sockets BY <1>1 DEF EventInv, EventTypes
<1>3. /\ listener = "sending" /\ peer[target] # "new" /\ pending # <<>>
  BY <1>1 DEF EventInv, Awaiting
<1>4. /\ Head(pending) = pending[1] /\ pending[1] \in Nat /\ 1 \in DOMAIN pending
      /\ \A k \in DOMAIN pending : pending[k] \in Nat /\ k \in Nat /\ k >= 1
  BY <1>2, <1>3, LenProperties, ElementOfSeq, EmptySeq, HeadTailProperties DEF EventTypes
<1>5. /\ inbox[target] \in Seq(Nat)
      /\ DOMAIN inbox[target] = 1 .. Len(inbox[target]) /\ Len(inbox[target]) \in Nat
      /\ \A i \in DOMAIN inbox[target] : inbox[target][i] \in Nat
  BY <1>2, LenProperties, ElementOfSeq DEF EventTypes
<1> DEFINE n == Len(inbox[target]) + 1
<1>6. /\ inbox'[target] \in Seq(Nat) /\ DOMAIN inbox'[target] = 1 .. n
      /\ \A i \in DOMAIN inbox[target] : inbox'[target][i] = inbox[target][i]
      /\ inbox'[target][n] = pending[1]
  <2>1. inbox'[target] = Append(inbox[target], pending[1])
    BY <1>1, <1>2, <1>4 DEF EventTypes
  <2> QED BY <1>4, <1>5, <2>1, AppendProperties, LenProperties
<1>7. \A s \in Sockets \ {target} : inbox'[s] = inbox[s]
  BY <1>1, <1>2 DEF EventTypes
<1>8. \A i \in DOMAIN inbox[target] : inbox[target][i] < pending[1]
  BY <1>1, <1>3, <1>4 DEF EventInv, Ahead, Before
<1>9. EventTypes'
  <2>1. inbox' \in [Sockets -> Seq(Nat)] BY <1>1, <1>2, <1>6 DEF EventTypes
  <2> QED BY <1>1, <1>2, <2>1 DEF EventTypes
<1>10. Listed' /\ Awaiting' /\ Started'
  BY <1>1 DEF EventInv, Listed, Awaiting, Started
<1>11. /\ Ascending(inbox'[target])
       /\ \A i \in DOMAIN inbox'[target] : inbox'[target][i] <= published
       /\ UpTo(inbox'[target], pending)
  <2>1. \A i \in DOMAIN inbox'[target] :
           \/ i \in DOMAIN inbox[target] /\ inbox'[target][i] = inbox[target][i]
           \/ i = n /\ inbox'[target][i] = pending[1]
    BY <1>5, <1>6
  <2>2. \A i \in DOMAIN inbox[target] : i < n BY <1>5
  <2>3. Ascending(inbox'[target])
    <3>1. Ascending(inbox[target]) BY <1>2 DEF EventInv, Received
    <3> SUFFICES ASSUME NEW i \in DOMAIN inbox'[target], NEW k \in DOMAIN inbox'[target], i < k
                 PROVE  inbox'[target][i] < inbox'[target][k]
      BY DEF Ascending
    <3>2. i \in DOMAIN inbox[target] BY <1>5, <1>6
    <3>3. CASE k \in DOMAIN inbox[target] BY <1>6, <3>1, <3>2, <3>3 DEF Ascending
    <3>4. CASE k = n BY <1>6, <1>8, <3>2, <3>4
    <3> QED BY <2>1, <3>3, <3>4
  <2>4. /\ \A i \in DOMAIN inbox[target] : inbox[target][i] <= published
        /\ pending[1] <= published
    BY <1>2, <1>4 DEF EventInv, Received, Awaiting
  <2>5. \A k \in DOMAIN pending : pending[1] <= pending[k]
    BY <1>4 DEF EventInv, Awaiting, Ascending
  <2>6. UpTo(inbox[target], pending) BY <1>2 DEF EventInv, Received
  <2>7. UpTo(inbox'[target], pending) BY <2>1, <2>5, <2>6 DEF UpTo
  <2> QED BY <2>1, <2>3, <2>4, <2>7
<1>12. Received'
  <2> SUFFICES ASSUME NEW s \in Sockets
               PROVE  /\ Ascending(inbox'[s])
                      /\ \A i \in DOMAIN inbox'[s] : inbox'[s][i] <= published
                      /\ UpTo(inbox'[s], pending)
                      /\ peer[s] = "new" => inbox'[s] = <<>>
    BY <1>1, <1>3 DEF Received
  <2>1. CASE s = target BY <1>3, <1>11, <2>1
  <2>2. CASE s # target BY <1>7, <2>2 DEF EventInv, Received
  <2> QED BY <2>1, <2>2
<1>13. Ahead'
  <2>1. \A i \in DOMAIN conns : conns[i] \in Sockets
    BY <1>2, ElementOfSeq, LenProperties DEF EventTypes
  <2>2. at \in Nat /\ \A i \in DOMAIN conns : i \in Nat
    BY <1>2, LenProperties DEF EventTypes
  <2>3. \A i \in DOMAIN conns : i >= at => conns[i] # target /\ Before(inbox[conns[i]], pending)
    BY <1>1, <1>3, <2>2 DEF EventInv, Ahead
  <2> QED BY <1>1, <1>7, <2>1, <2>3 DEF Ahead
<1>14. Covered'
  <2>1. n \in DOMAIN inbox'[target] /\ inbox'[target][n] = Head(pending)
    BY <1>4, <1>5, <1>6
  <2> HIDE DEF n
  <2>2. owed \subseteq Sockets BY <1>2 DEF EventTypes
  <2> QED BY <1>1, <1>7, <2>1, <2>2 DEF Covered
<1> QED BY <1>9, <1>10, <1>12, <1>13, <1>14 DEF EventInv

\* The listener is over: nothing is awaited any more.
LEMMA EndedEvents ==
    ASSUME EventInv, Covered, Events!SendRaised \/ Events!ListenRaised
    PROVE  EventInv' /\ Covered'
<1>1. /\ listener' = "ended" /\ pending' = <<>> /\ at' = 0 /\ target' = NoSocket
      /\ owed' = {} /\ shifted' = FALSE /\ UNCHANGED <<conns, peer, published, inbox>>
  BY DEF Events!SendRaised, Events!ListenRaised, Events!Over
<1>2. EventTypes' BY <1>1, EmptySeq DEF EventInv, EventTypes
<1>3. Listed' BY <1>1 DEF EventInv, Listed
<1>4. Awaiting' BY <1>1 DEF Awaiting, Ascending
<1>5. Received' BY <1>1 DEF EventInv, Received, UpTo, Before
<1>6. Ahead' /\ Covered' /\ Started' BY <1>1 DEF Ahead, Covered, Started
<1> QED BY <1>2, <1>3, <1>4, <1>5, <1>6 DEF EventInv

\* The event is done with: what follows it is newer than all that was sent.
LEMMA BroadcastEvents ==
    ASSUME EventInv, Covered, Events!Broadcast
    PROVE  EventInv' /\ Covered'
<1>1. /\ listener = "sending" /\ target = NoSocket /\ listener' = "listening"
      /\ pending' = Tail(pending) /\ at' = 0
      /\ UNCHANGED <<conns, peer, published, target, owed, shifted, inbox>>
  BY DEF Events!Broadcast
<1>2. EventTypes /\ pending # <<>> BY <1>1 DEF EventInv, Awaiting
<1>3. /\ Len(pending) \in Nat /\ Len(pending) > 0 /\ DOMAIN pending = 1 .. Len(pending)
      /\ pending' \in Seq(Nat) /\ DOMAIN pending' = 1 .. Len(pending) - 1
      /\ \A k \in DOMAIN pending' : pending'[k] = pending[k + 1]
      /\ \A k \in DOMAIN pending : pending[k] \in Nat
  BY <1>1, <1>2, LenProperties, EmptySeq, ElementOfSeq, HeadTailProperties DEF EventTypes
<1>4. \A k \in DOMAIN pending' : k + 1 \in DOMAIN pending /\ 1 \in DOMAIN pending /\ 1 < k + 1
  BY <1>3
<1>5. EventTypes' BY <1>1, <1>2, <1>3 DEF EventTypes
<1>6. Listed' BY <1>1 DEF EventInv, Listed
<1>7. Awaiting'
  <2>1. Ascending(pending)'
    <3>1. \A i, k \in DOMAIN pending' : i < k => i + 1 < k + 1 BY <1>3
    <3> QED BY <1>3, <1>4, <3>1 DEF EventInv, Awaiting, Ascending
  <2>2. \A k \in DOMAIN pending' : pending'[k] <= published
    BY <1>3, <1>4 DEF EventInv, Awaiting
  <2> QED BY <1>1, <2>1, <2>2 DEF EventInv, Awaiting
<1>8. ASSUME NEW s \in Sockets PROVE Before(inbox[s], pending') /\ UpTo(inbox[s], pending')
  <2>1. \A i \in DOMAIN inbox[s] : inbox[s][i] \in Nat
    BY <1>2, LenProperties, ElementOfSeq DEF EventTypes
  <2>2. \A i \in DOMAIN inbox[s], k \in DOMAIN pending' : inbox[s][i] <= pending[1]
    BY <1>4 DEF EventInv, Received, UpTo
  <2>3. \A k \in DOMAIN pending' : pending[1] < pending'[k] /\ pending[1] \in Nat /\ pending'[k] \in Nat
    BY <1>3, <1>4 DEF EventInv, Awaiting, Ascending
  <2>4. \A i \in DOMAIN inbox[s], k \in DOMAIN pending' : inbox[s][i] < pending'[k]
    BY <2>1, <2>2, <2>3
  <2>5. \A i \in DOMAIN inbox[s], k \in DOMAIN pending' : inbox[s][i] <= pending'[k]
    BY <2>1, <2>3, <2>4
  <2> QED BY <2>4, <2>5 DEF Before, UpTo
<1>9. Received' BY <1>1, <1>8 DEF EventInv, Received
<1>10. Ahead' /\ Covered' /\ Started' BY <1>1 DEF Ahead, Covered, Started
<1> QED BY <1>5, <1>6, <1>7, <1>9, <1>10 DEF EventInv

LEMMA EventStep == EventInv /\ Covered /\ [Events!Next]_(Events!vars) => EventInv' /\ Covered'
<1> SUFFICES ASSUME EventInv, Covered, [Events!Next]_(Events!vars)
             PROVE  EventInv' /\ Covered'
  OBVIOUS
<1>1. CASE UNCHANGED Events!vars
  BY <1>1 DEF Events!vars, EventInv, Covered, EventTypes, Listed, Awaiting, Received, Ahead,
     Started
<1>2. CASE Events!Subscribe
  <2>1. /\ listener = "off" /\ listener' = "listening"
        /\ UNCHANGED <<conns, peer, published, pending, at, target, owed, shifted, inbox>>
    BY <1>2 DEF Events!Subscribe, Events!loop
  <2> QED BY <2>1 DEF EventInv, Covered, EventTypes, Listed, Awaiting, Received, Ahead, Started
<1> QED BY <1>1, <1>2, ConnectEvents, DisconnectEvents, PeerEvents, PublishEvents, ReceiveEvents,
     TurnEvents, SentEvents, EndedEvents, BroadcastEvents DEF Events!Next

\* A socket is sent each event once at most and in the order of publication,
\* whoever connects, leaves or breaks while broadcast() of ws_manager.py goes
\* through the list.
THEOREM EventsKeepOrder == Events!Spec => []EventsInOrder
<1>1. EventInv => EventsInOrder
  BY DEF EventInv, Received, Ascending, EventsInOrder, Events!EventsInOrder
<1> QED BY EventInit, EventStep, <1>1, PTL DEF Events!Spec

\* A broadcast that comes to its end has reached everyone who was connected when
\* it began and still is, unless a connection served before has left meanwhile.
THEOREM BroadcastsReachAll == Events!Spec => NobodySkipped
<1>1. ASSUME EventInv, Covered PROVE Events!ReachesAll
  <2> SUFFICES ASSUME Events!Broadcast, ~shifted, NEW s \in owed
               PROVE  \E i \in DOMAIN inbox[s] : inbox[s][i] = Head(pending)
    BY DEF Events!ReachesAll
  <2>1. /\ listener = "sending" /\ target = NoSocket /\ at > Len(conns)
        /\ at \in Nat /\ Len(conns) \in Nat /\ DOMAIN conns = 1 .. Len(conns)
    BY <1>1, LenProperties DEF Events!Broadcast, EventInv, EventTypes
  <2>2. s # NoSocket BY <1>1, EventNumbers DEF EventInv, EventTypes
  <2>3. ~ \E i \in DOMAIN conns : i >= at BY <2>1
  <2> QED BY <1>1, <2>1, <2>2, <2>3 DEF Covered
<1> QED BY EventInit, EventStep, <1>1, PTL DEF Events!Spec, NobodySkipped, Events!NobodySkipped

-----------------------------------------------------------------------------
(***************************************************************************)
(* The lifespan.  What is open has its release on the stack, or was left   *)
(* open by one; the workers are above all they use.                        *)
(***************************************************************************)
Releases == {"pool", "redis", "database", "mcp", "workers"}
Early    == {"begin", "database", "schema", "flags", "mcp", "entered", "opened", "workers"}
Ready    == {"flags", "mcp", "entered", "opened", "workers", "serving"}
Phases   == Early \cup {"serving", "unwinding", "gathering", "closing", "ended"}
Active   == {"running", "stopping"}

LifeTypes ==
    /\ features \subseteq App!Subsystems /\ required \in BOOLEAN
    /\ phase \in Phases
    /\ resources \in Seq(Releases)
    /\ attempt \in {<<>>, <<"database">>}
    /\ open \subseteq {"pool", "redis", "database"}
    /\ available \in BOOLEAN
    /\ next \in 0 .. Len(Servers)
    /\ contexts \in Seq(App!Links)
    /\ sessions \subseteq App!Links
    /\ task \in [App!BackgroundTasks -> {"none", "running", "stopping", "ended"}]

\* The release of the workers is the last one pushed, the first one run.
Stacked ==
    /\ "workers" \in Range(resources) =>
          Head(resources) = "workers" /\ "workers" \notin Range(Tail(resources))
    /\ phase \in Early => "workers" \notin Range(resources)
    /\ phase = "gathering" => resources # <<>> /\ Head(resources) = "workers"
    /\ phase = "closing" => resources # <<>> /\ Head(resources) = "mcp"
    /\ phase \in {"mcp", "entered", "opened"} => "mcp" \in Range(resources)
    /\ phase \in {"begin", "ended"} => resources = <<>>

\* What is open is going to be closed, unless a release raised.
OpenHeld ==
    /\ \A x \in open : \/ phase = "begin" \/ x \in Range(resources)
                       \/ attempt # <<>> /\ x = "database"
                       \/ x \in left
                       \/ x = "pool" /\ "database" \notin features
    /\ phase = "begin" => open = {"pool"} \cup ({"redis"} \cap features)
    /\ attempt # <<>> => phase = "schema"

TasksHeld ==
    /\ \A w \in App!BackgroundTasks : task[w] \in Active => "workers" \in Range(resources)
    /\ phase = "gathering" => \A w \in App!BackgroundTasks : task[w] # "running"
    /\ \A w \in App!BackgroundTasks \ {"system-metrics"} : task[w] \in Active => "redis" \in open
    /\ phase \in Early \cup {"serving"} /\ "redis" \in features => "redis" \in open

SessionsHeld ==
    /\ contexts # <<>> \/ sessions # {} => "mcp" \in Range(resources)
    /\ phase = "closing" => sessions = {}
    /\ sessions \subseteq Range(contexts)
    /\ phase \in {"entered", "opened"} => next < Len(Servers)
    /\ phase = "opened" => App!Server \in Range(contexts)

Told ==
    /\ available => "database" \in open
    /\ "database" \in open => available \/ "database" \in left
    /\ "database" \in features /\ required => available

DatabaseKnown ==
    /\ phase \in {"begin", "database"} => ~available /\ "database" \notin open
    /\ phase \in {"database", "schema"} => "database" \in features
    /\ phase = "schema" => /\ ~available /\ "database" \in open
                           /\ IF required THEN attempt = <<>> /\ "database" \in Range(resources)
                                          ELSE attempt = <<"database">>
    /\ phase \in Ready => Told

LifeInv == LifeTypes /\ Stacked /\ OpenHeld /\ TasksHeld /\ SessionsHeld /\ DatabaseKnown

LEMMA LifeNumbers ==
    /\ Servers \in Seq(App!Links) /\ MaxTroubles \in Nat
    /\ Len(Servers) \in Nat
    /\ \A i \in 1 .. Len(Servers) : Servers[i] \in App!Links
BY ServicesAssumption, LenProperties, ElementOfSeq DEF App!LifespanAssumption

\* What is pushed on a stack, or popped from it.
LEMMA PushedOn ==
    ASSUME NEW S, NEW list \in Seq(S), NEW r \in S
    PROVE  /\ <<r>> \o list \in Seq(S) /\ <<r>> \o list # <<>>
           /\ Range(<<r>> \o list) = {r} \cup Range(list)
           /\ Head(<<r>> \o list) = r /\ Tail(<<r>> \o list) = list
<1>1. <<r>> \in Seq(S) /\ Len(<<r>>) = 1 /\ <<r>>[1] = r OBVIOUS
<1>2. /\ <<r>> \o list \in Seq(S) /\ Len(<<r>> \o list) = 1 + Len(list)
      /\ \A i \in 1 .. 1 + Len(list) :
            (<<r>> \o list)[i] = IF i <= 1 THEN <<r>>[i] ELSE list[i - 1]
  BY <1>1, ConcatProperties
<1>3. Range(<<r>>) = {r}
  BY <1>1, LenProperties DEF Range
<1>4. Range(<<r>> \o list) = {r} \cup Range(list)
  <2> DEFINE one == <<r>>
  <2>1. one \in Seq(S) /\ Range(one) = {r} BY <1>1, <1>3
  <2> HIDE DEF one
  <2>2. Range(one \o list) = Range(one) \cup Range(list) BY <2>1, RangeConcatenation
  <2> QED BY <2>1, <2>2 DEF one
<1>5. Len(list) \in Nat /\ <<r>> \o list # <<>> BY <1>2, LenProperties, EmptySeq
<1>6. Head(<<r>> \o list) = r BY <1>1, <1>2, <1>5
<1>7. Tail(<<r>> \o list) = list
  <2>1. /\ Tail(<<r>> \o list) \in Seq(S) /\ Len(Tail(<<r>> \o list)) = Len(list)
        /\ \A i \in 1 .. Len(list) : Tail(<<r>> \o list)[i] = (<<r>> \o list)[i + 1]
    BY <1>2, <1>5, HeadTailProperties
  <2>2. \A i \in 1 .. Len(list) : Tail(<<r>> \o list)[i] = list[i]
    BY <1>2, <1>5, <2>1
  <2> QED BY <2>1, <2>2, SeqEqual
<1> QED BY <1>2, <1>4, <1>5, <1>6, <1>7

LEMMA PoppedFrom ==
    ASSUME NEW S, NEW list \in Seq(S), list # <<>>
    PROVE  /\ Tail(list) \in Seq(S) /\ Head(list) \in S
           /\ Range(list) = {Head(list)} \cup Range(Tail(list))
<1>1. /\ Len(list) \in Nat /\ Len(list) > 0 /\ DOMAIN list = 1 .. Len(list)
      /\ Tail(list) \in Seq(S) /\ DOMAIN Tail(list) = 1 .. Len(list) - 1
      /\ \A i \in 1 .. Len(list) - 1 : Tail(list)[i] = list[i + 1]
      /\ Head(list) = list[1] /\ Head(list) \in S
  BY LenProperties, HeadTailProperties, EmptySeq
<1>2. ASSUME NEW i \in DOMAIN list PROVE list[i] \in {Head(list)} \cup Range(Tail(list))
  <2>1. CASE i = 1 BY <1>1, <2>1
  <2>2. CASE i # 1
    <3>1. i - 1 \in DOMAIN Tail(list) /\ Tail(list)[i - 1] = list[i] BY <1>1, <1>2, <2>2
    <3> QED BY <3>1 DEF Range
  <2> QED BY <2>1, <2>2
<1>3. \A i \in DOMAIN Tail(list) : i + 1 \in DOMAIN list /\ Tail(list)[i] = list[i + 1]
  BY <1>1
<1>4. 1 \in DOMAIN list BY <1>1
<1>5. Range(list) \subseteq {Head(list)} \cup Range(Tail(list))
  BY <1>2 DEF Range
<1>6. Head(list) \in Range(list) BY <1>1, <1>4 DEF Range
<1>7. Range(Tail(list)) \subseteq Range(list)
  BY <1>3 DEF Range
<1> QED BY <1>1, <1>5, <1>6, <1>7

LEMMA NothingOn == Range(<<>>) = {}
BY DEF Range

LEMMA LifeInit == App!Init => LifeInv
<1> SUFFICES ASSUME App!Init PROVE LifeInv OBVIOUS
<1>1. /\ features \in SUBSET App!Subsystems /\ required \in BOOLEAN /\ phase = "begin"
      /\ resources = <<>> /\ attempt = <<>> /\ open = {"pool"} \cup ({"redis"} \cap features)
      /\ available = FALSE /\ next = 0 /\ contexts = <<>> /\ sessions = {}
      /\ task = [w \in App!BackgroundTasks |-> "none"]
  BY DEF App!Init
<1>2. LifeTypes
  <2>1. <<>> \in Seq(Releases) /\ <<>> \in Seq(App!Links) BY EmptySeq
  <2>2. 0 \in 0 .. Len(Servers) BY LifeNumbers
  <2>3. phase \in Phases BY <1>1 DEF Phases, Early
  <2>4. open \subseteq {"pool", "redis", "database"} BY <1>1
  <2> QED BY <1>1, <2>1, <2>2, <2>3, <2>4 DEF LifeTypes
<1>3. Stacked /\ OpenHeld
  BY <1>1, NothingOn DEF Stacked, OpenHeld
<1>4. TasksHeld /\ SessionsHeld /\ DatabaseKnown
  BY <1>1 DEF TasksHeld, SessionsHeld, DatabaseKnown, Ready, Active
<1> QED BY <1>2, <1>3, <1>4 DEF LifeInv

LEMMA BeginLife == ASSUME LifeInv, App!Begin PROVE LifeInv'
<1>1. /\ phase = "begin"
      /\ resources' = (IF "redis" \in features THEN <<"redis">> ELSE <<>>)
                      \o (IF "database" \in features THEN <<"pool">> ELSE <<>>)
      /\ phase' = (IF "database" \in features THEN "database" ELSE "flags")
      /\ UNCHANGED <<features, required, attempt, open, available, next, contexts, sessions,
                     task, left>>
  BY DEF App!Begin, App!Goto, App!fixed, App!mcp
<1> DEFINE high == IF "redis" \in features THEN <<"redis">> ELSE <<>>
           low  == IF "database" \in features THEN <<"pool">> ELSE <<>>
<1>2. /\ low \in Seq(Releases)
      /\ Range(low) = IF "database" \in features THEN {"pool"} ELSE {}
  <2> DEFINE one == <<"pool">>
  <2>1. <<>> \in Seq(Releases) /\ "pool" \in Releases /\ one \in Seq(Releases)
    BY EmptySeq DEF Releases
  <2>2. Range(one \o <<>>) = {"pool"} \cup Range(<<>>) BY <2>1, PushedOn
  <2>3. one \o <<>> = one BY <2>1, ConcatEmptySeq
  <2>4. Range(one) = {"pool"} BY <2>2, <2>3, NothingOn
  <2>5. low = IF "database" \in features THEN one ELSE <<>> OBVIOUS
  <2> HIDE DEF low, one
  <2> QED BY <2>1, <2>4, <2>5, NothingOn
<1>3. /\ resources' \in Seq(Releases)
      /\ Range(resources') = ({"redis"} \cap features)
                             \cup IF "database" \in features THEN {"pool"} ELSE {}
  <2> HIDE DEF low
  <2>1. "redis" \in Releases /\ <<>> \o low = low
    BY <1>2, ConcatEmptySeq DEF Releases
  <2>2. resources' = IF "redis" \in features THEN <<"redis">> \o low ELSE low
    BY <1>1, <2>1 DEF low
  <2> QED BY <1>2, <2>1, <2>2, PushedOn
<1> HIDE DEF high, low
<1>4. LifeTypes' BY <1>1, <1>3 DEF LifeInv, LifeTypes, Phases, Early
<1>5. Stacked' BY <1>1, <1>3 DEF Stacked
<1>6. OpenHeld' BY <1>1, <1>3 DEF LifeInv, OpenHeld
<1>7. TasksHeld' BY <1>1 DEF LifeInv, OpenHeld, TasksHeld, Stacked, Early
<1>8. SessionsHeld' BY <1>1, NothingOn DEF LifeInv, Stacked, SessionsHeld
<1>9. DatabaseKnown'
  BY <1>1 DEF LifeInv, DatabaseKnown, Told, Ready
<1> QED BY <1>4, <1>5, <1>6, <1>7, <1>8, <1>9 DEF LifeInv

LEMMA ConnectLife == ASSUME LifeInv, App!Connect PROVE LifeInv'
<1>1. /\ phase = "database" /\ phase' = "schema" /\ open' = open \cup {"database"}
      /\ IF required THEN resources' = <<"database">> \o resources /\ attempt' = attempt
                     ELSE attempt' = <<"database">> /\ resources' = resources
      /\ UNCHANGED <<features, required, available, next, contexts, sessions, task, left>>
  BY DEF App!Connect, App!PushedTo, App!Push, App!Goto, App!fixed, App!mcp
<1>2. LifeTypes /\ resources \in Seq(Releases) /\ "database" \in Releases
  BY DEF LifeInv, LifeTypes, Releases
<1>3. attempt = <<>> BY <1>1 DEF LifeInv, OpenHeld
<1>4. "workers" \notin Range(resources) BY <1>1 DEF LifeInv, Stacked, Early
<1>5. /\ resources' \in Seq(Releases) /\ "workers" \notin Range(resources')
      /\ Range(resources) \subseteq Range(resources')
      /\ required => "database" \in Range(resources') /\ attempt' = <<>>
      /\ ~required => attempt' = <<"database">>
  <2>1. CASE required
    <3>1. resources' = <<"database">> \o resources /\ attempt' = <<>>
      BY <1>1, <1>3, <2>1
    <3>2. resources' \in Seq(Releases) /\ Range(resources') = {"database"} \cup Range(resources)
      BY <1>2, <3>1, PushedOn
    <3> QED BY <1>4, <2>1, <3>1, <3>2
  <2>2. CASE ~required
    BY <1>1, <1>2, <1>4, <2>2
  <2> QED BY <2>1, <2>2
<1>6. LifeTypes' BY <1>1, <1>2, <1>3, <1>5 DEF LifeTypes, Phases, Early
<1>7. Stacked' BY <1>1, <1>5 DEF Stacked
<1>8. OpenHeld' BY <1>1, <1>5 DEF LifeInv, OpenHeld
<1>9. TasksHeld' BY <1>1, <1>4, <1>5 DEF LifeInv, TasksHeld, Early
<1>10. SessionsHeld' BY <1>1, <1>5 DEF LifeInv, SessionsHeld
<1>11. DatabaseKnown'
  BY <1>1, <1>5 DEF LifeInv, DatabaseKnown, Ready
<1> QED BY <1>6, <1>7, <1>8, <1>9, <1>10, <1>11 DEF LifeInv

LEMMA SchemaLife == ASSUME LifeInv, App!Schema PROVE LifeInv'
<1>1. /\ phase = "schema" /\ phase' = "flags" /\ resources' = attempt \o resources
      /\ attempt' = <<>> /\ available' = TRUE
      /\ UNCHANGED <<features, required, open, next, contexts, sessions, task, left>>
  BY DEF App!Schema, App!HandedOver, App!Goto, App!fixed, App!mcp
<1>2. LifeTypes /\ resources \in Seq(Releases) /\ "database" \in Releases
  BY DEF LifeInv, LifeTypes, Releases
<1>3. "workers" \notin Range(resources) BY <1>1 DEF LifeInv, Stacked, Early
<1>4. /\ resources' \in Seq(Releases) /\ "workers" \notin Range(resources')
      /\ Range(resources) \subseteq Range(resources')
      /\ attempt # <<>> => "database" \in Range(resources')
  <2>1. CASE attempt = <<>> BY <1>1, <1>2, <1>3, <2>1, ConcatEmptySeq
  <2>2. CASE attempt = <<"database">> BY <1>1, <1>2, <1>3, <2>2, PushedOn
  <2> QED BY <1>2, <2>1, <2>2 DEF LifeTypes
<1>5. LifeTypes' BY <1>1, <1>2, <1>4 DEF LifeTypes, Phases, Early
<1>6. Stacked' BY <1>1, <1>4 DEF Stacked
<1>7. OpenHeld' BY <1>1, <1>4 DEF LifeInv, OpenHeld
<1>8. TasksHeld' BY <1>1, <1>3, <1>4 DEF LifeInv, TasksHeld, Early
<1>9. SessionsHeld' BY <1>1, <1>4 DEF LifeInv, SessionsHeld
<1>10. DatabaseKnown' BY <1>1 DEF LifeInv, DatabaseKnown, Told
<1> QED BY <1>5, <1>6, <1>7, <1>8, <1>9, <1>10 DEF LifeInv

\* The attempt is closed; what it opened is closed with it, or left.
LEMMA AttemptClosedHolds ==
    ASSUME LifeInv, App!AttemptClosed, resources' = resources, features' = features,
           phase # "begin", phase' # "begin"
    PROVE  /\ OpenHeld' /\ open' \subseteq open /\ open \ {"database"} \subseteq open'
           /\ attempt' = <<>> /\ left \subseteq left'
           /\ attempt = <<>> => open' = open
           /\ attempt # <<>> => "database" \notin open' \/ "database" \in left'
BY DEF LifeInv, OpenHeld, App!AttemptClosed

LEMMA DatabaseRaisedLife == ASSUME LifeInv, App!DatabaseRaised PROVE LifeInv'
<1>1. /\ phase \in {"database", "schema"} /\ App!AttemptClosed
      /\ phase' = (IF required THEN "unwinding" ELSE "flags")
      /\ UNCHANGED <<features, required, resources, available, next, contexts, sessions, task>>
  BY DEF App!DatabaseRaised, App!Goto, App!fixed, App!mcp
<1>2. /\ OpenHeld' /\ open' \subseteq open /\ open \ {"database"} \subseteq open'
      /\ attempt' = <<>> /\ left \subseteq left'
      /\ attempt = <<>> => open' = open
      /\ attempt # <<>> => "database" \notin open' \/ "database" \in left'
  BY <1>1, AttemptClosedHolds
<1>3. LifeTypes' BY <1>1, <1>2 DEF LifeInv, LifeTypes, Phases, Early
<1>4. Stacked' BY <1>1 DEF LifeInv, Stacked, Early
<1>5. TasksHeld' BY <1>1, <1>2 DEF LifeInv, TasksHeld, Early, Stacked
<1>6. SessionsHeld' BY <1>1 DEF LifeInv, SessionsHeld
<1>7. DatabaseKnown'
  <2>1. ~available BY <1>1 DEF LifeInv, DatabaseKnown
  <2>2. ~required => attempt # <<>> \/ "database" \notin open
    BY <1>1 DEF LifeInv, DatabaseKnown
  <2> QED BY <1>1, <1>2, <2>1, <2>2 DEF DatabaseKnown, Told, Ready
<1> QED BY <1>2, <1>3, <1>4, <1>5, <1>6, <1>7 DEF LifeInv

LEMMA CancelledLife == ASSUME LifeInv, App!Cancelled PROVE LifeInv'
<1>1. /\ phase \in {"database", "schema", "mcp", "entered", "opened"} /\ App!AttemptClosed
      /\ phase' = "unwinding"
      /\ UNCHANGED <<features, required, resources, available, next, contexts, sessions, task>>
  BY DEF App!Cancelled, App!Goto, App!fixed, App!mcp
<1>2. /\ OpenHeld' /\ open' \subseteq open /\ open \ {"database"} \subseteq open'
      /\ attempt' = <<>>
  BY <1>1, AttemptClosedHolds
<1>3. LifeTypes' BY <1>1, <1>2 DEF LifeInv, LifeTypes, Phases
<1>4. Stacked' BY <1>1 DEF LifeInv, Stacked, Early
<1>5. TasksHeld' BY <1>1, <1>2 DEF LifeInv, TasksHeld, Early, Stacked
<1>6. SessionsHeld' BY <1>1 DEF LifeInv, SessionsHeld
<1>7. DatabaseKnown' BY <1>1 DEF DatabaseKnown, Ready
<1> QED BY <1>2, <1>3, <1>4, <1>5, <1>6, <1>7 DEF LifeInv

LEMMA FlagsLife == ASSUME LifeInv, App!Flags PROVE LifeInv'
<1>1. /\ phase = "flags"
      /\ \/ /\ "mcp" \in features /\ resources' = <<"mcp">> \o resources /\ phase' = "mcp"
         \/ resources' = resources /\ phase' = "workers"
         \/ resources' = resources /\ phase' = "unwinding"
      /\ UNCHANGED <<features, required, attempt, open, available, next, contexts, sessions,
                     task, left>>
  BY DEF App!Flags, App!Push, App!Goto, App!fixed, App!mcp
<1>2. LifeTypes /\ resources \in Seq(Releases) /\ "mcp" \in Releases
  BY DEF LifeInv, LifeTypes, Releases
<1>3. "workers" \notin Range(resources) BY <1>1 DEF LifeInv, Stacked, Early
<1>4. /\ resources' \in Seq(Releases) /\ "workers" \notin Range(resources')
      /\ Range(resources) \subseteq Range(resources')
      /\ phase' = "mcp" => "mcp" \in Range(resources')
  <2>1. CASE resources' = <<"mcp">> \o resources BY <1>2, <1>3, <2>1, PushedOn
  <2>2. CASE resources' = resources /\ phase' # "mcp" BY <1>2, <1>3, <2>2
  <2> QED BY <1>1, <2>1, <2>2
<1>5. LifeTypes' BY <1>1, <1>2, <1>4 DEF LifeTypes, Phases, Early
<1>6. Stacked' BY <1>1, <1>4 DEF Stacked
<1>7. OpenHeld' BY <1>1, <1>4 DEF LifeInv, OpenHeld
<1>8. TasksHeld' BY <1>1, <1>3, <1>4 DEF LifeInv, TasksHeld, Early
<1>9. SessionsHeld' BY <1>1, <1>4 DEF LifeInv, SessionsHeld
<1>10. DatabaseKnown' BY <1>1 DEF LifeInv, DatabaseKnown, Told, Ready
<1> QED BY <1>5, <1>6, <1>7, <1>8, <1>9, <1>10 DEF LifeInv

\* The MCP servers are connected one after the other: only the sessions change.
LEMMA McpLife ==
    ASSUME LifeInv,
           \/ App!Enter \/ App!OpenSession \/ App!Initialized \/ App!ServerRaised
           \/ App!Connected
    PROVE  LifeInv'
<1>1. /\ phase \in {"mcp", "entered", "opened"}
      /\ phase' \in {"mcp", "entered", "opened", "workers"}
      /\ UNCHANGED <<features, required, resources, attempt, open, available, task, left>>
  BY DEF App!Enter, App!OpenSession, App!Initialized, App!ServerRaised, App!Connected,
     App!Goto, App!fixed, App!state, App!mcp
<1>2. LifeTypes /\ contexts \in Seq(App!Links) /\ next \in 0 .. Len(Servers) /\ Len(Servers) \in Nat
  BY LifeNumbers DEF LifeInv, LifeTypes
<1>3. next < Len(Servers) => App!Server \in App!Links /\ next + 1 \in 0 .. Len(Servers)
  BY <1>2, LifeNumbers DEF App!Server
<1>4. /\ next' \in 0 .. Len(Servers) /\ contexts' \in Seq(App!Links)
      /\ sessions' \subseteq App!Links /\ sessions' \subseteq Range(contexts')
      /\ phase' \in {"entered", "opened"} => next' < Len(Servers)
      /\ phase' = "opened" => App!Server' \in Range(contexts')
  <2>1. sessions \subseteq App!Links /\ sessions \subseteq Range(contexts)
    BY <1>2 DEF LifeInv, LifeTypes, SessionsHeld
  <2>2. CASE App!Enter \/ App!OpenSession
    <3>1. /\ next < Len(Servers) /\ contexts' = <<App!Server>> \o contexts
          /\ next' = next /\ sessions' = sessions
      BY <1>1, <2>2 DEF App!Enter, App!OpenSession, App!Push, LifeInv, SessionsHeld
    <3>2. /\ contexts' \in Seq(App!Links)
          /\ Range(contexts') = {App!Server} \cup Range(contexts)
      BY <1>2, <1>3, <3>1, PushedOn
    <3>3. App!Server' = App!Server BY <3>1 DEF App!Server
    <3> QED BY <1>2, <2>1, <3>1, <3>2, <3>3
  <2>3. CASE App!Initialized
    <3>1. /\ phase = "opened" /\ phase' = "mcp" /\ sessions' = sessions \cup {App!Server}
          /\ next' = next + 1 /\ contexts' = contexts
      BY <2>3 DEF App!Initialized, App!Goto
    <3>2. next < Len(Servers) /\ App!Server \in Range(contexts)
      BY <3>1 DEF LifeInv, SessionsHeld
    <3> QED BY <1>2, <1>3, <2>1, <3>1, <3>2
  <2>4. CASE App!ServerRaised
    BY <1>2, <1>3, <2>1, <2>4 DEF App!ServerRaised, App!Goto
  <2>5. CASE App!Connected
    BY <1>2, <2>1, <2>5 DEF App!Connected, App!Goto, App!mcp
  <2> QED BY <2>2, <2>3, <2>4, <2>5
<1>5. LifeTypes' BY <1>1, <1>2, <1>4 DEF LifeTypes, Phases, Early
<1>6. Stacked' BY <1>1 DEF LifeInv, Stacked, Early
<1>7. OpenHeld' BY <1>1 DEF LifeInv, OpenHeld
<1>8. TasksHeld' BY <1>1 DEF LifeInv, TasksHeld, Early
<1>9. SessionsHeld' BY <1>1, <1>4 DEF LifeInv, SessionsHeld, Stacked
<1>10. DatabaseKnown' BY <1>1 DEF LifeInv, DatabaseKnown, Told, Ready
<1> QED BY <1>5, <1>6, <1>7, <1>8, <1>9, <1>10 DEF LifeInv

LEMMA StartLife == ASSUME LifeInv, App!Start PROVE LifeInv'
<1>1. /\ phase = "workers" /\ phase' = "serving" /\ resources' = <<"workers">> \o resources
      /\ task' = [w \in App!BackgroundTasks |->
                    IF w = "system-metrics"
                    THEN IF "metrics" \in features THEN "running" ELSE "none"
                    ELSE IF "redis" \in features THEN "running" ELSE "none"]
      /\ UNCHANGED <<features, required, attempt, open, available, next, contexts, sessions, left>>
  BY DEF App!Start, App!PushedLast, App!Push, App!Goto, App!fixed, App!mcp
<1>2. LifeTypes /\ resources \in Seq(Releases) /\ "workers" \in Releases
  BY DEF LifeInv, LifeTypes, Releases
<1>3. "workers" \notin Range(resources) BY <1>1 DEF LifeInv, Stacked, Early
<1>4. /\ resources' \in Seq(Releases) /\ Range(resources') = {"workers"} \cup Range(resources)
      /\ Head(resources') = "workers" /\ "workers" \notin Range(Tail(resources'))
  BY <1>1, <1>2, <1>3, PushedOn
<1>5. LifeTypes' BY <1>1, <1>2, <1>4 DEF LifeTypes, Phases
<1>6. Stacked' BY <1>1, <1>4 DEF Stacked, Early
<1>7. OpenHeld' BY <1>1, <1>4 DEF LifeInv, OpenHeld
<1>8. TasksHeld'
  <2>1. "redis" \in features => "redis" \in open
    BY <1>1 DEF LifeInv, TasksHeld, Early
  <2>2. \A w \in App!BackgroundTasks \ {"system-metrics"} :
           task'[w] \in Active => "redis" \in features
    BY <1>1 DEF Active
  <2> QED BY <1>1, <1>4, <2>1, <2>2 DEF TasksHeld, Early
<1>9. SessionsHeld' BY <1>1, <1>4 DEF LifeInv, SessionsHeld
<1>10. DatabaseKnown' BY <1>1 DEF LifeInv, DatabaseKnown, Told, Ready
<1> QED BY <1>5, <1>6, <1>7, <1>8, <1>9, <1>10 DEF LifeInv

\* Tasks end, or requests do: nothing is opened or closed.
LEMMA QuietLife ==
    ASSUME LifeInv,
           \/ \E w \in App!BackgroundTasks : App!TaskEnds(w)
           \/ App!Shutdown \/ App!End \/ UNCHANGED App!vars
    PROVE  LifeInv'
<1>1. /\ UNCHANGED <<features, required, resources, attempt, open, available, next, contexts,
                     sessions, left>>
      /\ \/ phase' = phase
         \/ phase = "serving" /\ phase' = "unwinding"
         \/ phase = "unwinding" /\ phase' = "ended" /\ resources = <<>>
      /\ \/ task' = task
         \/ \E w \in App!BackgroundTasks : task' = [task EXCEPT ![w] = "ended"]
  BY DEF App!TaskEnds, App!Shutdown, App!End, App!vars, App!Goto, App!fixed, App!state, App!mcp
<1>2. /\ task' \in [App!BackgroundTasks -> {"none", "running", "stopping", "ended"}]
      /\ \A w \in App!BackgroundTasks : task'[w] # task[w] => task'[w] = "ended"
  BY <1>1 DEF LifeInv, LifeTypes
<1>3. LifeTypes' BY <1>1, <1>2 DEF LifeInv, LifeTypes, Phases
<1>4. Stacked' BY <1>1 DEF LifeInv, Stacked, Early
<1>5. OpenHeld' BY <1>1 DEF LifeInv, OpenHeld
<1>6. TasksHeld' BY <1>1, <1>2 DEF LifeInv, TasksHeld, Early, Active
<1>7. SessionsHeld'
  <2>1. App!Server' = App!Server BY <1>1 DEF App!Server
  <2> QED BY <1>1, <2>1 DEF LifeInv, SessionsHeld
<1>8. DatabaseKnown' BY <1>1 DEF LifeInv, DatabaseKnown, Told, Ready
<1> QED BY <1>3, <1>4, <1>5, <1>6, <1>7, <1>8 DEF LifeInv

\* A release of a client or the database: it closes, or raises and leaves it.
LEMMA ReleaseLife == ASSUME LifeInv, NEW x \in open, App!Release(x) PROVE LifeInv'
<1>1. /\ phase = "unwinding" /\ resources # <<>> /\ Head(resources) = x
      /\ x \in {"pool", "redis", "database"} /\ resources' = Tail(resources)
      /\ \/ open' = open \ {x} /\ left' = left
         \/ open' = open /\ left' = left \cup {x}
      /\ UNCHANGED <<features, required, phase, attempt, available, next, contexts, sessions, task>>
  BY DEF App!Release, App!Top, App!fixed, App!mcp
<1>2. LifeTypes /\ resources \in Seq(Releases) BY DEF LifeInv, LifeTypes
<1>3. resources' \in Seq(Releases) /\ Range(resources) = {x} \cup Range(resources')
  BY <1>1, <1>2, PoppedFrom
<1>4. "workers" \notin Range(resources) /\ "workers" \notin Range(resources')
  BY <1>1, <1>3 DEF LifeInv, Stacked
<1>5. \A w \in App!BackgroundTasks : task[w] \notin Active
  BY <1>4 DEF LifeInv, TasksHeld
<1>6. LifeTypes' BY <1>1, <1>2, <1>3 DEF LifeTypes
<1>7. Stacked' BY <1>1, <1>4 DEF Stacked, Early
<1>8. OpenHeld' BY <1>1, <1>3 DEF LifeInv, OpenHeld
<1>9. TasksHeld' BY <1>1, <1>5 DEF TasksHeld, Early
<1>10. SessionsHeld' BY <1>1, <1>3 DEF LifeInv, SessionsHeld
<1>11. DatabaseKnown' BY <1>1 DEF DatabaseKnown, Ready
<1> QED BY <1>6, <1>7, <1>8, <1>9, <1>10, <1>11 DEF LifeInv

LEMMA WorkersLife == ASSUME LifeInv, App!CancelWorkers \/ App!Gathered PROVE LifeInv'
<1>1. CASE App!CancelWorkers
  <2>1. /\ phase = "unwinding" /\ resources # <<>> /\ Head(resources) = "workers"
        /\ phase' = "gathering"
        /\ task' = [w \in App!BackgroundTasks |->
                      IF task[w] = "running" THEN "stopping" ELSE task[w]]
        /\ UNCHANGED <<features, required, resources, attempt, open, available, next, contexts,
                       sessions, left>>
    BY <1>1 DEF App!CancelWorkers, App!Top, App!Goto, App!fixed, App!state, App!mcp
  <2>2. \A w \in App!BackgroundTasks :
           task'[w] # "running" /\ (task'[w] \in Active => task[w] \in Active)
    BY <2>1 DEF Active
  <2>3. LifeTypes' BY <2>1 DEF LifeInv, LifeTypes, Phases
  <2>4. Stacked' /\ OpenHeld' BY <2>1 DEF LifeInv, Stacked, OpenHeld, Early
  <2>5. TasksHeld' BY <2>1, <2>2 DEF LifeInv, TasksHeld, Early
  <2>6. SessionsHeld' BY <2>1 DEF LifeInv, SessionsHeld
  <2>7. DatabaseKnown' BY <2>1 DEF DatabaseKnown, Ready
  <2> QED BY <2>3, <2>4, <2>5, <2>6, <2>7 DEF LifeInv
<1>2. CASE App!Gathered
  <2>1. /\ phase = "gathering" /\ phase' = "unwinding" /\ resources' = Tail(resources)
        /\ \A w \in App!BackgroundTasks : task[w] # "stopping"
        /\ UNCHANGED <<features, required, attempt, open, available, next, contexts, sessions,
                       task, left>>
    BY <1>2 DEF App!Gathered, App!AllEnded, App!Goto, App!fixed, App!mcp
  <2>2. /\ LifeTypes /\ resources \in Seq(Releases) /\ resources # <<>>
        /\ Head(resources) = "workers"
    BY <2>1 DEF LifeInv, LifeTypes, Stacked
  <2>3. resources' \in Seq(Releases) /\ Range(resources) = {"workers"} \cup Range(resources')
    BY <2>1, <2>2, PoppedFrom
  <2>4. "workers" \notin Range(resources') BY <2>1, <2>3 DEF LifeInv, Stacked
  <2>5. \A w \in App!BackgroundTasks : task[w] \notin Active
    BY <2>1 DEF LifeInv, TasksHeld, Active
  <2>6. LifeTypes' BY <2>1, <2>2, <2>3 DEF LifeTypes, Phases
  <2>7. Stacked' BY <2>1, <2>4 DEF Stacked, Early
  <2>8. OpenHeld' BY <2>1, <2>3 DEF LifeInv, OpenHeld, LifeTypes
  <2>9. TasksHeld' BY <2>1, <2>5 DEF TasksHeld, Early
  <2>10. SessionsHeld' BY <2>1, <2>3 DEF LifeInv, SessionsHeld
  <2>11. DatabaseKnown' BY <2>1 DEF DatabaseKnown, Ready
  <2> QED BY <2>6, <2>7, <2>8, <2>9, <2>10, <2>11 DEF LifeInv
<1> QED BY <1>1, <1>2

\* close_mcp_clients: it is off the stack when every context has been left.
LEMMA CloseLife == ASSUME LifeInv, App!CloseMcp \/ App!LeaveContext \/ App!Closed PROVE LifeInv'
<1>1. CASE App!CloseMcp
  <2>1. /\ phase = "unwinding" /\ resources # <<>> /\ Head(resources) = "mcp"
        /\ phase' = "closing" /\ sessions' = {}
        /\ UNCHANGED <<features, required, resources, attempt, open, available, next, contexts,
                       task, left>>
    BY <1>1 DEF App!CloseMcp, App!Top, App!Goto, App!fixed, App!state
  <2>2. LifeTypes' BY <2>1 DEF LifeInv, LifeTypes, Phases
  <2>3. Stacked' /\ OpenHeld' /\ TasksHeld'
    BY <2>1 DEF LifeInv, Stacked, OpenHeld, TasksHeld, Early
  <2>4. SessionsHeld' BY <2>1 DEF LifeInv, SessionsHeld
  <2>5. DatabaseKnown' BY <2>1 DEF DatabaseKnown, Ready
  <2> QED BY <2>2, <2>3, <2>4, <2>5 DEF LifeInv
<1>2. CASE App!LeaveContext
  <2>1. /\ phase = "closing" /\ phase' = phase /\ contexts # <<>> /\ contexts' = Tail(contexts)
        /\ left \subseteq left'
        /\ UNCHANGED <<features, required, resources, attempt, open, available, next, sessions,
                       task>>
    BY <1>2 DEF App!LeaveContext, App!fixed, App!state
  <2>2. contexts' \in Seq(App!Links)
    BY <2>1, HeadTailProperties DEF LifeInv, LifeTypes
  <2>3. LifeTypes' BY <2>1, <2>2 DEF LifeInv, LifeTypes
  <2>4. Stacked' /\ OpenHeld' /\ TasksHeld'
    BY <2>1 DEF LifeInv, Stacked, OpenHeld, TasksHeld
  <2>5. SessionsHeld' BY <2>1 DEF LifeInv, SessionsHeld
  <2>6. DatabaseKnown' BY <2>1 DEF DatabaseKnown, Ready
  <2> QED BY <2>3, <2>4, <2>5, <2>6 DEF LifeInv
<1>3. CASE App!Closed
  <2>1. /\ phase = "closing" /\ phase' = "unwinding" /\ contexts = <<>>
        /\ resources' = Tail(resources)
        /\ UNCHANGED <<features, required, attempt, open, available, next, contexts, sessions,
                       task, left>>
    BY <1>3 DEF App!Closed, App!Goto, App!fixed, App!mcp
  <2>2. /\ LifeTypes /\ resources \in Seq(Releases) /\ resources # <<>>
        /\ Head(resources) = "mcp" /\ sessions = {}
    BY <2>1 DEF LifeInv, LifeTypes, Stacked, SessionsHeld
  <2>3. resources' \in Seq(Releases) /\ Range(resources) = {"mcp"} \cup Range(resources')
    BY <2>1, <2>2, PoppedFrom
  <2>4. "workers" \notin Range(resources) BY <2>2 DEF LifeInv, Stacked
  <2>5. LifeTypes' BY <2>1, <2>2, <2>3 DEF LifeTypes, Phases
  <2>6. Stacked' BY <2>1, <2>3, <2>4 DEF Stacked, Early
  <2>7. OpenHeld' BY <2>1, <2>3 DEF LifeInv, OpenHeld, LifeTypes
  <2>8. TasksHeld' BY <2>1, <2>4 DEF LifeInv, TasksHeld, Early
  <2>9. SessionsHeld' BY <2>1, <2>2 DEF SessionsHeld
  <2>10. DatabaseKnown' BY <2>1 DEF DatabaseKnown, Ready
  <2> QED BY <2>5, <2>6, <2>7, <2>8, <2>9, <2>10 DEF LifeInv
<1> QED BY <1>1, <1>2, <1>3

LEMMA LifeStep == LifeInv /\ [App!Next]_(App!vars) => LifeInv'
BY BeginLife, ConnectLife, SchemaLife, DatabaseRaisedLife, CancelledLife, FlagsLife, McpLife,
   StartLife, QuietLife, ReleaseLife, WorkersLife, CloseLife DEF App!Next, App!Progress

\* However far the startup of lifespan.py came and whatever raised or was
\* cancelled: nothing stays open but what a release left open, the tasks end before
\* the clients they use are closed, a session has its contexts, and while requests
\* are served app.state tells whether the database is connected.
THEOREM LifespansAreOrdered == App!Spec => []LifespanOrdered
<1>1. LifeInv => LifespanOrdered
  <2> SUFFICES ASSUME LifeInv
               PROVE  App!NothingLeftOpen /\ App!UsersEndFirst /\ App!AvailabilityTrue
    BY DEF LifespanOrdered, App!LifespanOrdered
  <2>1. App!NothingLeftOpen
    <3> SUFFICES ASSUME phase = "ended"
                 PROVE  /\ \A w \in App!BackgroundTasks : task[w] \notin {"running", "stopping"}
                        /\ contexts = <<>> /\ sessions = {}
                        /\ open \subseteq IF "database" \in features THEN left
                                                                    ELSE left \cup {"pool"}
      BY DEF App!NothingLeftOpen
    <3>1. resources = <<>> /\ Range(resources) = {} /\ attempt = <<>>
      BY NothingOn DEF LifeInv, Stacked, OpenHeld
    <3>2. \A w \in App!BackgroundTasks : task[w] \notin {"running", "stopping"}
      BY <3>1 DEF LifeInv, TasksHeld, Active
    <3>3. contexts = <<>> /\ sessions = {} BY <3>1 DEF LifeInv, SessionsHeld
    <3>4. \A x \in open : x \in left \/ (x = "pool" /\ "database" \notin features)
      BY <3>1 DEF LifeInv, OpenHeld
    <3> QED BY <3>2, <3>3, <3>4
  <2>2. App!UsersEndFirst
    <3>1. \A s \in sessions : \E i \in DOMAIN contexts : contexts[i] = s
      BY DEF LifeInv, SessionsHeld, Range
    <3> QED BY <3>1 DEF App!UsersEndFirst, LifeInv, TasksHeld, Active
  <2>3. App!AvailabilityTrue
    BY DEF App!AvailabilityTrue, LifeInv, DatabaseKnown, Told, Ready
  <2> QED BY <2>1, <2>2, <2>3
<1> QED BY LifeInit, LifeStep, <1>1, PTL DEF App!Spec

=============================================================================
