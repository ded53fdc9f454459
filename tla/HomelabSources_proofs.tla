----------------------- MODULE HomelabSources_proofs -----------------------
(***************************************************************************)
(* Theorems about HomelabSources, for any callers, lifetimes, versions and *)
(* resets, and for each of the five policies.                              *)
(*                                                                         *)
(* The inductive invariant says what a caller knows while it is suspended: *)
(* a call that fetches is alone, and its cache is no newer than the origin *)
(* it asked; a call that waits for the task has no copy to be served.      *)
(***************************************************************************)
EXTENDS HomelabSources, TLAPS

Suspended ==
    \A c \in Callers :
        /\ pc[c] = "fetching" =>
              /\ lock = c /\ policy # "background" /\ seen[c] <= origin
              /\ cache # None => cache.version <= seen[c]
        /\ pc[c] = "locking" => policy # "background"
        /\ pc[c] = "waiting" => policy = "background" /\ cache = None
        /\ asked[c] <= clock

Refreshing ==
    task # None =>
        /\ policy = "background" /\ task.since <= clock /\ task.seen <= origin
        /\ cache # None => cache.version <= task.seen

Cached == cache # None => cache.version <= origin

\* How long the result of an attempt is served.
Span(failed) == IF policy = "fallback" /\ failed THEN Retry ELSE Ttl

Deadline ==
    /\ tried # None => cache # None /\ expires >= tried.at + Span(tried.failed)
    /\ cache # None /\ cache.state = "good" =>
          \/ expires <= cache.at + Ttl
          \/ /\ policy = "fallback" /\ tried # None
             /\ tried.failed /\ expires <= tried.at + Retry

IInv == TypeOK /\ Suspended /\ Refreshing /\ Cached /\ Deadline /\ Timely

-----------------------------------------------------------------------------
LEMMA Numbers ==
    /\ Ttl \in Nat /\ Ttl > 0 /\ Retry \in Nat /\ Retry > 0 /\ Retry <= Ttl
    /\ MaxTime \in Nat /\ MaxVersion \in Nat /\ MaxResets \in Nat
    /\ None \notin Value /\ None \notin Callers
    /\ None \notin Attempt /\ None \notin Refresh
BY SourcesAssumption, SMT DEF SourcesAssumption

LEMMA Typed ==
    ASSUME TypeOK
    PROVE  /\ clock \in Nat /\ origin \in Nat /\ expires \in Nat
           /\ clock <= MaxTime /\ origin <= MaxVersion
           /\ cache # None => /\ cache \in Value
                              /\ cache.version \in Nat /\ cache.at \in Nat
           /\ \A c \in Callers : asked[c] \in Nat /\ seen[c] \in Nat
           /\ task # None => /\ task \in Refresh
                             /\ task.since \in Nat /\ task.seen \in Nat
           /\ tried # None => /\ tried \in Attempt
                              /\ tried.at \in Nat /\ tried.failed \in BOOLEAN
<1>1. clock \in Nat /\ origin \in Nat /\ clock <= MaxTime /\ origin <= MaxVersion
  BY Numbers, SMT DEF TypeOK, Times, Versions
<1>2. expires \in Nat BY Numbers, SMT DEF TypeOK
<1>3. Times \subseteq Nat /\ Versions \subseteq Nat
  BY Numbers, SMT DEF Times, Versions
<1>4. cache # None => cache \in Value /\ cache.version \in Nat /\ cache.at \in Nat
  BY <1>3 DEF TypeOK, Value
<1>5. \A c \in Callers : asked[c] \in Nat /\ seen[c] \in Nat BY <1>3 DEF TypeOK
<1>6. task # None => task \in Refresh /\ task.since \in Nat /\ task.seen \in Nat
  BY <1>3 DEF TypeOK, Refresh
<1>7. tried # None => tried \in Attempt /\ tried.at \in Nat /\ tried.failed \in BOOLEAN
  BY <1>3 DEF TypeOK, Attempt
<1>8. QED BY <1>1, <1>2, <1>4, <1>5, <1>6, <1>7

LEMMA InitIInv == Init => IInv
<1> SUFFICES ASSUME Init PROVE IInv OBVIOUS
<1>1. 0 \in Times /\ 0 \in Versions /\ 0 \in 0 .. MaxTime + Ttl /\ 0 \in 0 .. MaxResets
  BY Numbers, SMT DEF Times, Versions
<1>2. TypeOK BY <1>1 DEF Init, TypeOK
<1>3. Suspended
  <2>1. \A c \in Callers : pc[c] = "idle" /\ asked[c] = 0 BY DEF Init
  <2>2. clock = 0 /\ 0 <= 0 BY SMT DEF Init
  <2>3. QED BY <2>1, <2>2 DEF Suspended
<1>4. QED BY <1>2, <1>3 DEF Init, IInv, Refreshing, Cached, Deadline, Timely

\* An answer keeps types; what it says is the last answer.
LEMMA AnswersTypes ==
    ASSUME TypeOK, tried' \in Attempt \cup {None},
           NEW C, NEW v \in Value, NEW t \in Times, Answers(C, v, t)
    PROVE  /\ pc' \in [Callers -> {"idle", "locking", "fetching", "waiting"}]
           /\ asked' \in [Callers -> Times] /\ seen' \in [Callers -> Versions]
           /\ last' \in [value : Value, asked : Times, tried : Attempt \cup {None},
                         refreshing : BOOLEAN]
           /\ last'.value = v /\ last'.asked = t /\ last'.tried = tried'
           /\ last'.refreshing = (task' # None)
           /\ \A c \in Callers : /\ c \in C => pc'[c] = "idle" /\ asked'[c] = 0
                                 /\ c \notin C => /\ pc'[c] = pc[c]
                                                  /\ asked'[c] = asked[c]
                                                  /\ seen'[c] = seen[c]
<1>1. 0 \in Times /\ 0 \in Versions BY Numbers, SMT DEF Times, Versions
<1>2. /\ pc' \in [Callers -> {"idle", "locking", "fetching", "waiting"}]
      /\ asked' \in [Callers -> Times] /\ seen' \in [Callers -> Versions]
  BY <1>1 DEF Answers, TypeOK
<1>3. last' = [value |-> v, asked |-> t, tried |-> tried',
               refreshing |-> task' # None]
  BY DEF Answers
<1>4. \A c \in Callers : /\ c \in C => pc'[c] = "idle" /\ asked'[c] = 0
                         /\ c \notin C => /\ pc'[c] = pc[c]
                                          /\ asked'[c] = asked[c]
                                          /\ seen'[c] = seen[c]
  BY DEF Answers
<1>5. (task' # None) \in BOOLEAN OBVIOUS
<1>6. QED BY <1>2, <1>3, <1>4, <1>5

\* Answering from a cache that is as it was.
LEMMA ServedIInv ==
    ASSUME IInv, NEW C, cache # None, NEW t \in Times, Answers(C, cache, t),
           UNCHANGED <<policy, clock, origin, cache, expires, lock, tried, resets>>,
           \/ task' = task
           \/ task' = [since |-> clock, seen |-> origin] /\ policy = "background",
           \/ t < expires
           \/ policy = "background" /\ task' # None
    PROVE  IInv'
<1>1. TypeOK /\ cache \in Value /\ tried' \in Attempt \cup {None}
  BY Typed DEF IInv, TypeOK
<1>2. TypeOK'
  <2>1. task' \in Refresh \cup {None}
    BY DEF IInv, TypeOK, Refresh
  <2>2. QED BY <1>1, <2>1, AnswersTypes DEF TypeOK
<1>3. Suspended'
  <2>1. 0 <= clock BY <1>1, Typed, SMT
  <2>2. QED BY <1>1, <2>1, AnswersTypes DEF IInv, Suspended
<1>4. Refreshing'
  <2>1. clock <= clock /\ origin <= origin BY <1>1, Typed, SMT
  <2>2. QED BY <2>1 DEF IInv, Refreshing, Cached
<1>5. Cached' /\ Deadline' BY DEF IInv, Cached, Deadline, Span
<1>6. Timely'
  <2>1. /\ last'.value = cache /\ last'.asked = t /\ last'.tried = tried
        /\ last'.refreshing = (task' # None)
    BY <1>1, AnswersTypes
  <2>2. t \in Nat BY Numbers, SMT DEF Times
  <2>3. CASE t < expires
    <3>1. cache.state = "good" =>
             \/ expires <= cache.at + Ttl
             \/ /\ policy = "fallback" /\ tried # None
                /\ tried.failed /\ expires <= tried.at + Retry
      BY DEF IInv, Deadline
    <3>2. expires \in Nat /\ cache.at \in Nat /\ (tried # None => tried.at \in Nat)
      BY <1>1, Typed
    <3>3. cache.state = "good" =>
             \/ t < cache.at + Ttl
             \/ /\ policy = "fallback" /\ tried # None
                /\ tried.failed /\ t < tried.at + Retry
      BY <2>2, <2>3, <3>1, <3>2, Numbers, SMT
    <3>4. QED BY <2>1, <3>3 DEF Timely
  <2>4. CASE policy = "background" /\ task' # None BY <2>1, <2>4 DEF Timely
  <2>5. QED BY <2>3, <2>4
<1>7. QED BY <1>2, <1>3, <1>4, <1>5, <1>6 DEF IInv

-----------------------------------------------------------------------------
\* What a fetch may leave behind: a version of the origin, fresh for as long as
\* its attempt is to count, and unmarked for no longer than its lifetime.
LEMMA SettlesIInv ==
    ASSUME IInv, NEW c \in Callers, pc[c] = "fetching",
           NEW v \in Value, NEW until \in 0 .. MaxTime + Ttl, NEW failed \in BOOLEAN,
           Settles(c, v, until, failed),
           v.version <= origin, until >= asked[c] + Span(failed),
           v.state = "good" =>
              \/ asked[c] < v.at + Ttl /\ until <= v.at + Ttl
              \/ policy = "fallback" /\ failed /\ until <= asked[c] + Retry
    PROVE  IInv'
<1>1. TypeOK /\ asked[c] \in Times /\ v # None BY Numbers DEF IInv, TypeOK
<1>2. tried' = [at |-> asked[c], failed |-> failed] BY DEF Settles
<1>3. /\ tried' \in Attempt /\ tried' # None
      /\ tried'.at = asked[c] /\ tried'.failed = failed
  BY <1>1, <1>2, Numbers DEF Attempt
<1>4. /\ last'.value = v /\ last'.asked = asked[c] /\ last'.tried = tried'
      /\ pc'[c] = "idle" /\ asked'[c] = 0
      /\ \A d \in Callers \ {c} : pc'[d] = pc[d] /\ asked'[d] = asked[d]
  <2>1. Answers({c}, v, asked[c]) BY DEF Settles
  <2>2. /\ last'.value = v /\ last'.asked = asked[c] /\ last'.tried = tried'
        /\ \A d \in Callers : /\ d \in {c} => pc'[d] = "idle" /\ asked'[d] = 0
                              /\ d \notin {c} => /\ pc'[d] = pc[d]
                                                 /\ asked'[d] = asked[d]
    BY <2>1 DEF Answers
  <2>3. QED BY <2>2
<1>5. /\ cache' = v /\ expires' = until /\ lock' = None
      /\ UNCHANGED <<policy, clock, origin, task, resets>>
  BY DEF Settles
<1>6. TypeOK'
  <2>1. TypeOK /\ tried' \in Attempt \cup {None} BY <1>1, <1>3
  <2>2. Answers({c}, v, asked[c]) BY DEF Settles
  <2>3. QED BY <1>1, <1>5, <2>1, <2>2, AnswersTypes DEF TypeOK
<1>7. policy # "background" /\ task = None
  BY <1>1 DEF IInv, Suspended, Refreshing
<1>8. Suspended'
  <2> SUFFICES ASSUME NEW d \in Callers
               PROVE  /\ pc'[d] \notin {"fetching", "waiting"}
                      /\ pc'[d] = "locking" => policy # "background"
                      /\ asked'[d] <= clock
    BY <1>5 DEF Suspended
  <2>1. 0 <= clock BY <1>1, Typed, SMT
  <2>2. CASE d = c BY <1>4, <2>1, <2>2
  <2>3. CASE d # c
    <3>1. pc'[d] = pc[d] /\ asked'[d] = asked[d] BY <1>4, <2>3
    <3>2. QED BY <1>7, <2>3, <3>1 DEF IInv, Suspended
  <2>4. QED BY <2>2, <2>3
<1>9. Refreshing' /\ Cached' BY <1>5, <1>7 DEF Refreshing, Cached
<1>10. Deadline'
  <2>1. /\ cache' # None /\ expires' >= tried'.at + Span(failed)
        /\ Span(tried.failed)' = Span(failed)
    BY <1>1, <1>3, <1>5 DEF Span
  <2>2. cache'.state = "good" => \/ expires' <= cache'.at + Ttl
                                 \/ /\ policy = "fallback" /\ tried'.failed
                                    /\ expires' <= tried'.at + Retry
    BY <1>3, <1>5
  <2>3. QED BY <1>3, <1>5, <2>1, <2>2 DEF Deadline
<1>11. Timely'
  <2>1. asked[c] < asked[c] + Retry BY <1>1, Typed, Numbers, SMT
  <2>2. QED BY <1>3, <1>4, <1>5, <2>1 DEF Timely
<1>12. QED BY <1>6, <1>8, <1>9, <1>10, <1>11 DEF IInv

LEMMA SucceedsIInv == ASSUME IInv, NEW c \in Callers, FetchSucceeds(c) PROVE IInv'
<1>1. PICK v \in seen[c] .. origin :
         IF policy = "fallback"
         THEN Settles(c, Good(v, asked[c]), asked[c] + Ttl, FALSE)
         ELSE Settles(c, Good(v, clock), clock + Ttl, FALSE)
  BY DEF FetchSucceeds
<1>2. /\ clock \in Nat /\ clock <= MaxTime /\ asked[c] \in Nat /\ asked[c] <= clock
      /\ v \in Nat /\ v <= origin /\ origin \in Nat /\ origin <= MaxVersion
      /\ pc[c] = "fetching"
  <2>1. TypeOK BY DEF IInv
  <2>2. /\ clock \in Nat /\ origin \in Nat /\ asked[c] \in Nat /\ seen[c] \in Nat
        /\ clock <= MaxTime /\ origin <= MaxVersion
    BY <2>1, Typed
  <2>3. v \in Nat /\ v <= origin BY <2>2, SMT
  <2>4. QED BY <2>2, <2>3 DEF IInv, Suspended, FetchSucceeds
<1>3. /\ v \in Versions /\ clock \in Times /\ asked[c] \in Times
      /\ asked[c] + Ttl \in 0 .. MaxTime + Ttl /\ clock + Ttl \in 0 .. MaxTime + Ttl
      /\ asked[c] < asked[c] + Ttl /\ asked[c] < clock + Ttl
      /\ clock + Ttl >= asked[c] + Ttl
      /\ asked[c] + Ttl <= asked[c] + Ttl /\ clock + Ttl <= clock + Ttl
      /\ asked[c] + Ttl >= asked[c] + Ttl
  BY <1>2, Numbers, SMT DEF Times, Versions
<1>4. Good(v, asked[c]) \in Value /\ Good(v, clock) \in Value
  BY <1>3 DEF Good, Value
<1>5. /\ Good(v, asked[c]).version = v /\ Good(v, asked[c]).at = asked[c]
      /\ Good(v, clock).version = v /\ Good(v, clock).at = clock
  BY DEF Good
<1>6. Span(FALSE) = Ttl BY DEF Span
<1>7. CASE policy = "fallback"
  BY <1>1, <1>2, <1>3, <1>4, <1>5, <1>6, <1>7, SettlesIInv
<1>8. CASE policy # "fallback"
  BY <1>1, <1>2, <1>3, <1>4, <1>5, <1>6, <1>8, SettlesIInv
<1>9. QED BY <1>7, <1>8

LEMMA FailsIInv == ASSUME IInv, NEW c \in Callers, FetchFails(c) PROVE IInv'
<1>1. /\ clock \in Nat /\ clock <= MaxTime /\ asked[c] \in Nat /\ asked[c] <= clock
      /\ origin \in Nat /\ pc[c] = "fetching" /\ TypeOK
  BY Typed DEF IInv, Suspended, FetchFails
<1>2. /\ asked[c] + Retry \in 0 .. MaxTime + Ttl /\ clock + Ttl \in 0 .. MaxTime + Ttl
      /\ asked[c] < asked[c] + Retry /\ asked[c] + Retry <= asked[c] + Retry
      /\ asked[c] + Retry >= asked[c] + Retry /\ clock + Ttl >= asked[c] + Ttl
      /\ 0 <= origin
  BY <1>1, Numbers, SMT
<1>3. Other \in Value /\ Other.version <= origin /\ Other.state # "good"
  <2>1. 0 \in Times /\ 0 \in Versions BY Numbers, SMT DEF Times, Versions
  <2>2. QED BY <1>2, <2>1 DEF Other, Value
<1>4. cache # None => cache \in Value /\ cache.version <= origin
  BY <1>1, Typed DEF IInv, Cached
<1>5. CASE policy = "fallback" /\ Settles(c, LastGoodOrOne, asked[c] + Retry, TRUE)
  <2>1. LastGoodOrOne \in Value /\ LastGoodOrOne.version <= origin
    BY <1>3, <1>4 DEF LastGoodOrOne
  <2>2. Span(TRUE) = Retry BY <1>5 DEF Span
  <2>3. QED BY <1>1, <1>2, <1>5, <2>1, <2>2, SettlesIInv
<1>6. CASE policy = "outcome" /\ Settles(c, Other, clock + Ttl, TRUE)
  <2>1. Span(TRUE) = Ttl BY <1>6 DEF Span
  <2>2. QED BY <1>1, <1>2, <1>3, <1>6, <2>1, SettlesIInv
<1>7. CASE /\ policy = "lastGood" /\ cache # None
           /\ Settles(c, Marked, clock + Ttl, TRUE)
  <2>1. Marked \in Value /\ Marked.version = cache.version /\ Marked.state # "good"
    BY <1>4, <1>7 DEF Marked, Value
  <2>2. Span(TRUE) = Ttl BY <1>7 DEF Span
  <2>3. QED BY <1>1, <1>2, <1>4, <1>7, <2>1, <2>2, SettlesIInv
<1>8. CASE policy = "lastGood" /\ Settles(c, Other, clock + Ttl, TRUE)
  <2>1. Span(TRUE) = Ttl BY <1>8 DEF Span
  <2>2. QED BY <1>1, <1>2, <1>3, <1>8, <2>1, SettlesIInv
<1>9. QED BY <1>5, <1>6, <1>7, <1>8 DEF FetchFails

\* A call that ends without a value leaves everything but itself alone.
LEMMA EndsIInv == ASSUME IInv, NEW c \in Callers, Ends(c) PROVE IInv'
<1>1. 0 \in Times /\ 0 \in Versions BY Numbers, SMT DEF Times, Versions
<1>2. TypeOK' BY <1>1 DEF Ends, Goto, LetGo, IInv, TypeOK
<1>3. Suspended'
  <2>1. 0 <= clock BY Typed, SMT DEF IInv
  <2>2. \A d \in Callers : pc[d] = "fetching" /\ d # c => lock' = d
    <3>1. ASSUME NEW d \in Callers, pc[d] = "fetching", d # c PROVE lock' = d
      <4>1. lock = d BY <3>1 DEF IInv, Suspended
      <4>2. QED BY <3>1, <4>1 DEF Ends, LetGo
    <3>2. QED BY <3>1
  <2>3. \A d \in Callers :
           /\ d = c => pc'[d] = "idle" /\ asked'[d] = 0
           /\ d # c => pc'[d] = pc[d] /\ asked'[d] = asked[d] /\ seen'[d] = seen[d]
    BY DEF Ends, Goto, IInv, TypeOK
  <2>4. QED BY <2>1, <2>2, <2>3 DEF Ends, IInv, Suspended
<1>4. Refreshing' /\ Cached' /\ Deadline' /\ Timely'
  BY DEF Ends, IInv, Refreshing, Cached, Deadline, Span, Timely
<1>5. QED BY <1>2, <1>3, <1>4 DEF IInv

-----------------------------------------------------------------------------
LEMMA AskIInv == ASSUME IInv, NEW c \in Callers, Ask(c) PROVE IInv'
<1>1. TypeOK /\ clock \in Times /\ policy # "background" /\ pc[c] = "idle"
  BY DEF IInv, TypeOK, Ask
<1>2. CASE Fresh(clock) /\ Answers({c}, cache, clock)
  BY <1>1, <1>2, ServedIInv DEF Ask, Fresh
<1>3. CASE /\ Goto(c, "locking") /\ asked' = [asked EXCEPT ![c] = clock]
           /\ UNCHANGED <<seen, last>>
  <2>1. UNCHANGED <<policy, clock, origin, cache, expires, lock, task, tried, resets>>
    BY DEF Ask
  <2>2. TypeOK' BY <1>1, <1>3, <2>1 DEF Goto, TypeOK
  <2>3. clock <= clock BY <1>1, Typed, SMT
  <2>4. Suspended' BY <1>1, <1>3, <2>1, <2>3 DEF Goto, IInv, TypeOK, Suspended
  <2>5. QED BY <1>3, <2>1, <2>2, <2>4
            DEF IInv, Refreshing, Cached, Deadline, Span, Timely
<1>4. QED BY <1>2, <1>3 DEF Ask

LEMMA AcquireIInv == ASSUME IInv, NEW c \in Callers, Acquire(c) PROVE IInv'
<1>1. /\ TypeOK /\ clock \in Times /\ Now(c) \in Times
      /\ policy # "background" /\ pc[c] = "locking" /\ lock = None
  BY DEF IInv, TypeOK, Suspended, Acquire, Now
<1>2. CASE Fresh(Now(c)) /\ Answers({c}, cache, Now(c)) /\ UNCHANGED lock
  BY <1>1, <1>2, ServedIInv DEF Acquire, Fresh
<1>3. CASE /\ Goto(c, "fetching") /\ lock' = c
           /\ asked' = [asked EXCEPT ![c] = clock]
           /\ seen' = [seen EXCEPT ![c] = origin] /\ UNCHANGED last
  <2>1. UNCHANGED <<policy, clock, origin, cache, expires, task, tried, resets>>
    BY DEF Acquire
  <2>2. TypeOK' BY <1>1, <1>3, <2>1 DEF Goto, TypeOK
  <2>3. Suspended'
    <3> SUFFICES ASSUME NEW d \in Callers
                 PROVE  /\ pc'[d] = "fetching" =>
                             /\ d = c /\ seen'[d] <= origin
                             /\ cache # None => cache.version <= seen'[d]
                        /\ pc'[d] = "waiting" => policy = "background" /\ cache = None
                        /\ asked'[d] <= clock
      BY <1>1, <1>3, <2>1 DEF Suspended
    <3>1. clock <= clock /\ origin <= origin BY <1>1, Typed, SMT
    <3>2. pc[d] # "fetching"
      <4>1. pc[d] = "fetching" => lock = d BY DEF IInv, Suspended
      <4>2. QED BY <1>1, <4>1, Numbers
    <3>3. CASE d = c
      BY <1>1, <1>3, <3>1, <3>3 DEF Goto, IInv, TypeOK, Cached
    <3>4. CASE d # c
      BY <1>1, <1>3, <3>2, <3>4 DEF Goto, IInv, TypeOK, Suspended
    <3>5. QED BY <3>3, <3>4
  <2>4. QED BY <1>3, <2>1, <2>2, <2>3
            DEF IInv, Refreshing, Cached, Deadline, Span, Timely
<1>4. QED BY <1>2, <1>3 DEF Acquire, Rechecked

LEMMA AskBackgroundIInv == ASSUME IInv, NEW c \in Callers, AskBackground(c) PROVE IInv'
<1>1. /\ TypeOK /\ clock \in Times /\ clock \in Nat /\ origin \in Versions
      /\ policy = "background" /\ pc[c] = "idle"
      /\ UNCHANGED <<policy, clock, origin, cache, expires, lock, tried, resets>>
  BY Typed DEF IInv, TypeOK, AskBackground
<1>2. \/ task' = task
      \/ task' = [since |-> clock, seen |-> origin] /\ policy = "background"
  BY <1>1 DEF AskBackground, RefreshTask
<1>3. Fresh(clock) \/ task' # None
  <2>1. [since |-> clock, seen |-> origin] \in Refresh BY <1>1 DEF Refresh
  <2>2. QED BY <2>1, Numbers DEF AskBackground, RefreshTask
<1>4. CASE cache # None /\ Answers({c}, cache, clock)
  BY <1>1, <1>2, <1>3, <1>4, ServedIInv DEF Fresh
<1>5. CASE /\ cache = None /\ Goto(c, "waiting")
           /\ asked' = [asked EXCEPT ![c] = clock] /\ UNCHANGED <<seen, last>>
  <2>1. task' \in Refresh \cup {None} BY <1>1, <1>2 DEF TypeOK, Refresh
  <2>2. TypeOK' BY <1>1, <1>5, <2>1 DEF Goto, TypeOK
  <2>3. clock <= clock /\ origin <= origin BY <1>1, Typed, SMT
  <2>4. Suspended' BY <1>1, <1>5, <2>3 DEF Goto, IInv, TypeOK, Suspended
  <2>5. Refreshing' BY <1>1, <1>2, <1>5, <2>3 DEF IInv, Refreshing
  <2>6. QED BY <1>1, <1>5, <2>2, <2>4, <2>5
            DEF IInv, Cached, Deadline, Span, Timely
<1>6. QED BY <1>4, <1>5 DEF AskBackground

\* The task is over: whoever waited for it is answered.
LEMMA TaskIInv ==
    ASSUME IInv, task # None, NEW v \in Value, TaskAnswers(v),
           \/ /\ UNCHANGED <<cache, expires, tried>>
              /\ Waiting # {} => v.state # "good"
           \/ /\ cache' = v /\ expires' = clock + Ttl /\ v.version <= origin
              /\ v.at = clock /\ tried' = [at |-> task.since, failed |-> FALSE]
    PROVE  IInv'
<1>1. /\ TypeOK /\ policy = "background" /\ task.since \in Nat /\ task.since <= clock
      /\ clock \in Nat /\ clock <= MaxTime /\ task.since \in Times /\ clock \in Times
  BY Typed DEF IInv, Refreshing, TypeOK, Refresh
<1>2. /\ UNCHANGED <<policy, clock, origin, lock, resets>> /\ task' = None
  BY DEF TaskAnswers
<1>3. /\ clock + Ttl \in 0 .. MaxTime + Ttl /\ clock + Ttl >= task.since + Ttl
      /\ clock + Ttl <= clock + Ttl /\ task.since < clock + Ttl /\ 0 <= clock
  BY <1>1, Numbers, SMT
<1>4. /\ tried' \in Attempt \cup {None} /\ cache' \in Value \cup {None}
      /\ expires' \in 0 .. MaxTime + Ttl
  <2>1. CASE UNCHANGED <<cache, expires, tried>> BY <1>1, <2>1 DEF TypeOK
  <2>2. CASE /\ cache' = v /\ expires' = clock + Ttl
             /\ tried' = [at |-> task.since, failed |-> FALSE]
    BY <1>1, <1>3, <2>2 DEF Attempt
  <2>3. QED BY <2>1, <2>2
<1>5. /\ TypeOK'
      /\ \A c \in Callers : /\ (pc'[c] = pc[c] /\ pc[c] # "waiting") \/ pc'[c] = "idle"
                            /\ asked'[c] = asked[c] \/ asked'[c] = 0
                            /\ pc[c] # "waiting" => seen'[c] = seen[c]
      /\ UNCHANGED last \/ /\ last'.value = v /\ last'.asked = task.since
                           /\ Waiting # {}
  <2>1. CASE UNCHANGED <<pc, asked, seen, last>> /\ Waiting = {}
    BY <1>1, <1>2, <1>4, <2>1 DEF TypeOK, Waiting
  <2>2. CASE Answers(Waiting, v, task.since) /\ Waiting # {}
    <3>1. \A c \in Callers : c \in Waiting <=> pc[c] = "waiting" BY DEF Waiting
    <3>2. tried' \in Attempt \cup {None} BY <1>4
    <3>3. /\ pc' \in [Callers -> {"idle", "locking", "fetching", "waiting"}]
          /\ asked' \in [Callers -> Times] /\ seen' \in [Callers -> Versions]
          /\ last' \in [value : Value, asked : Times, tried : Attempt \cup {None},
                        refreshing : BOOLEAN]
      BY <1>1, <2>2, <3>2, AnswersTypes
    <3>4. /\ last'.value = v /\ last'.asked = task.since
          /\ \A c \in Callers :
                /\ c \in Waiting => pc'[c] = "idle" /\ asked'[c] = 0
                /\ c \notin Waiting => /\ pc'[c] = pc[c] /\ asked'[c] = asked[c]
                                       /\ seen'[c] = seen[c]
      BY <2>2 DEF Answers
    <3>5. TypeOK' BY <1>1, <1>2, <1>4, <3>3 DEF TypeOK
    <3>6. QED BY <2>2, <3>1, <3>4, <3>5
  <2>3. QED BY <2>1, <2>2 DEF TaskAnswers
<1>6. Suspended'
  <2>1. \A c \in Callers : pc[c] # "fetching" /\ pc[c] # "locking"
    BY <1>1 DEF IInv, Suspended
  <2>2. \A c \in Callers : pc'[c] = "idle"
    BY <1>5, <2>1 DEF IInv, TypeOK
  <2>3. QED BY <1>2, <1>3, <1>5, <2>2 DEF IInv, Suspended
<1>7. Refreshing' BY <1>2 DEF Refreshing
<1>8. Cached' BY <1>2 DEF IInv, Cached
<1>9. CASE UNCHANGED <<cache, expires, tried>> /\ (Waiting # {} => v.state # "good")
  <2>1. Deadline' BY <1>2, <1>9 DEF IInv, Deadline, Span
  <2>2. Timely' 
    <3>1. CASE UNCHANGED last BY <1>2, <1>9, <3>1 DEF IInv, Timely
    <3>2. CASE last'.value = v /\ Waiting # {} BY <1>9, <3>2 DEF Timely
    <3>3. QED BY <1>5, <3>1, <3>2
  <2>3. QED BY <1>5, <1>6, <1>7, <1>8, <2>1, <2>2 DEF IInv
<1>10. CASE /\ cache' = v /\ expires' = clock + Ttl /\ v.at = clock
            /\ tried' = [at |-> task.since, failed |-> FALSE]
  <2>1. Deadline'
    <3>1. v # None /\ Span(tried.failed)' = Ttl
      BY <1>1, <1>2, <1>10, Numbers DEF Span
    <3>2. QED BY <1>3, <1>10, <3>1 DEF Deadline
  <2>2. Timely'
    <3>1. CASE UNCHANGED last BY <1>2, <3>1 DEF IInv, Timely
    <3>2. CASE last'.value = v /\ last'.asked = task.since
      BY <1>3, <1>10, <3>2 DEF Timely
    <3>3. QED BY <1>5, <3>1, <3>2
  <2>3. QED BY <1>5, <1>6, <1>7, <1>8, <2>1, <2>2 DEF IInv
<1>11. QED BY <1>9, <1>10

LEMMA TaskEndsIInv == ASSUME IInv, TaskEnds PROVE IInv'
<1>1. /\ TypeOK /\ task # None /\ task.seen \in Nat /\ origin \in Nat
      /\ origin <= MaxVersion /\ clock \in Times
  BY Typed DEF IInv, TypeOK, TaskEnds, TaskSucceeds, TaskFails
<1>2. CASE TaskSucceeds
  <2>1. PICK v \in task.seen .. origin : cache' = Good(v, clock)
    BY <1>2 DEF TaskSucceeds
  <2>2. v \in Versions /\ v <= origin BY <1>1, Numbers, SMT DEF Versions
  <2>3. Good(v, clock) \in Value BY <1>1, <2>2 DEF Good, Value
  <2>4. Good(v, clock).version = v /\ Good(v, clock).at = clock BY DEF Good
  <2>5. TaskAnswers(Good(v, clock)) BY <1>2, <2>1 DEF TaskSucceeds
  <2>6. /\ expires' = clock + Ttl
        /\ tried' = [at |-> task.since, failed |-> FALSE]
    BY <1>2 DEF TaskSucceeds
  <2>7. QED BY <1>1, <2>1, <2>2, <2>3, <2>4, <2>5, <2>6, TaskIInv
<1>3. CASE TaskFails
  <2>1. Other \in Value /\ Other.state # "good"
    <3>1. 0 \in Times /\ 0 \in Versions BY Numbers, SMT DEF Times, Versions
    <3>2. QED BY <3>1 DEF Other, Value
  <2>2. LastGoodOrOne \in Value BY <1>1, <2>1, Typed DEF LastGoodOrOne
  <2>3. Waiting # {} => LastGoodOrOne.state # "good"
    BY <2>1 DEF Waiting, LastGoodOrOne, IInv, Suspended
  <2>4. QED BY <1>1, <1>3, <2>2, <2>3, TaskIInv DEF TaskFails
<1>4. QED BY <1>2, <1>3 DEF TaskEnds

-----------------------------------------------------------------------------
LEMMA NextIInv == IInv /\ [Next]_vars => IInv'
<1> SUFFICES ASSUME IInv, [Next]_vars PROVE IInv' OBVIOUS
<1>1. TypeOK BY DEF IInv
<1>2. CASE Reset
  <2>1. 0 \in 0 .. MaxTime + Ttl /\ resets + 1 \in 0 .. MaxResets
    BY <1>1, <1>2, Numbers, SMT DEF Reset, TypeOK
  <2>2. TypeOK' BY <1>1, <1>2, <2>1 DEF Reset, TypeOK
  <2>3. Suspended' BY <1>2 DEF Reset, IInv, Suspended
  <2>4. QED BY <1>2, <2>2, <2>3
            DEF Reset, IInv, Refreshing, Cached, Deadline, Timely
<1>3. CASE Tick
  <2>1. clock + 1 \in Times /\ \A n \in Nat : n <= clock => n <= clock + 1
    BY <1>1, <1>3, Typed, Numbers, SMT DEF Tick, Times
  <2>2. TypeOK' BY <1>1, <1>3, <2>1 DEF Tick, TypeOK
  <2>3. Suspended' BY <1>1, <1>3, <2>1, Typed DEF Tick, IInv, Suspended
  <2>4. Refreshing' BY <1>1, <1>3, <2>1, Typed DEF Tick, IInv, Refreshing
  <2>5. QED BY <1>3, <2>2, <2>3, <2>4 DEF Tick, IInv, Cached, Deadline, Span, Timely
<1>4. CASE Publish
  <2>1. origin + 1 \in Versions /\ \A n \in Nat : n <= origin => n <= origin + 1
    BY <1>1, <1>4, Typed, Numbers, SMT DEF Publish, Versions
  <2>2. TypeOK' BY <1>1, <1>4, <2>1 DEF Publish, TypeOK
  <2>3. Suspended' BY <1>1, <1>4, <2>1, Typed DEF Publish, IInv, Suspended
  <2>4. Refreshing' /\ Cached'
    BY <1>1, <1>4, <2>1, Typed DEF Publish, IInv, Refreshing, Cached
  <2>5. QED BY <1>4, <2>2, <2>3, <2>4 DEF Publish, IInv, Deadline, Span, Timely
<1>5. CASE UNCHANGED vars
  BY <1>5 DEF vars, IInv, TypeOK, Suspended, Refreshing, Cached, Deadline, Span, Timely
<1>6. ASSUME NEW c \in Callers,
             Ask(c) \/ Acquire(c) \/ Fetched(c) \/ Cancel(c) \/ AskBackground(c)
      PROVE  IInv'
  BY <1>6, AskIInv, AcquireIInv, SucceedsIInv, FailsIInv, EndsIInv, AskBackgroundIInv
     DEF Fetched, FetchRaises, Cancel
<1>7. QED BY <1>2, <1>3, <1>4, <1>5, <1>6, TaskEndsIInv DEF Next

LEMMA AlwaysIInv == Spec => []IInv
BY InitIInv, NextIInv, PTL DEF Spec

\* The caches of the catalogues, whatever their policy, keep their types.
THEOREM TypeCorrect == Spec => []TypeOK
<1>1. IInv => TypeOK BY DEF IInv
<1>2. QED BY <1>1, AlwaysIInv, PTL

\* No answer passes an old copy for a current one, beyond the retry of a
\* fallback and the refresh of a background cache.
THEOREM AnswersAreTimely == Spec => []Timely
<1>1. IInv => Timely BY DEF IInv
<1>2. QED BY <1>1, AlwaysIInv, PTL

-----------------------------------------------------------------------------
LEMMA StepNeverBackwards ==
    ASSUME IInv, Next, cache # None, cache' # None, cache.state # "other"
    PROVE  IF cache'.state = "other" THEN policy = "outcome"
           ELSE cache'.version >= cache.version
<1>1. /\ TypeOK /\ cache.version \in Nat /\ cache.version >= cache.version
      /\ clock \in Nat /\ origin \in Nat
  <2>1. TypeOK BY DEF IInv
  <2>2. cache.version \in Nat /\ clock \in Nat /\ origin \in Nat BY <2>1, Typed
  <2>3. QED BY <2>1, <2>2, SMT
<1>2. CASE UNCHANGED cache BY <1>1, <1>2
<1>3. ASSUME NEW c \in Callers, FetchSucceeds(c)
      PROVE  cache'.state # "other" /\ cache'.version >= cache.version
  <2>1. PICK v \in seen[c] .. origin :
           cache' = Good(v, asked[c]) \/ cache' = Good(v, clock)
    BY <1>3 DEF FetchSucceeds, Settles
  <2>2. cache.version <= seen[c] /\ seen[c] \in Nat
    BY <1>1, <1>3, Typed DEF FetchSucceeds, IInv, Suspended
  <2>3. v >= cache.version BY <1>1, <2>2, SMT
  <2>4. QED BY <2>1, <2>3 DEF Good
<1>4. ASSUME NEW c \in Callers, FetchFails(c)
      PROVE  IF cache'.state = "other" THEN policy = "outcome"
             ELSE cache'.version >= cache.version
  <2>1. CASE policy = "fallback" /\ cache' = LastGoodOrOne
    BY <1>1, <2>1 DEF LastGoodOrOne
  <2>2. CASE policy = "outcome" /\ cache' = Other BY <2>2 DEF Other
  <2>3. CASE policy = "lastGood" /\ cache' = Marked
    <3>1. cache'.version = cache.version /\ cache'.state = "stale"
      BY <1>1, <2>3, Typed DEF Marked, Value
    <3>2. QED BY <1>1, <3>1
  <2>4. QED BY <1>4, <2>1, <2>2, <2>3 DEF FetchFails, Settles
<1>5. ASSUME TaskSucceeds
      PROVE  cache'.state # "other" /\ cache'.version >= cache.version
  <2>1. PICK v \in task.seen .. origin : cache' = Good(v, clock)
    BY <1>5 DEF TaskSucceeds
  <2>2. cache.version <= task.seen /\ task.seen \in Nat
    BY <1>1, <1>5, Typed DEF TaskSucceeds, IInv, Refreshing
  <2>3. v >= cache.version BY <1>1, <2>2, SMT
  <2>4. QED BY <2>1, <2>3 DEF Good
<1>6. ASSUME NEW c \in Callers,
             Ask(c) \/ Acquire(c) \/ FetchRaises(c) \/ Cancel(c) \/ AskBackground(c)
      PROVE  UNCHANGED cache
  BY <1>6 DEF Ask, Acquire, FetchRaises, Cancel, Ends, AskBackground
<1>7. ASSUME TaskFails \/ Reset \/ Tick \/ Publish PROVE cache' \in {cache, None}
  BY <1>7 DEF TaskFails, Reset, Tick, Publish
<1>8. QED
  BY <1>2, <1>3, <1>4, <1>5, <1>6, <1>7 DEF Next, Fetched, TaskEnds

\* What the origin once served is not replaced by an older version, nor dropped
\* where the policy keeps a last good copy.
THEOREM VersionsGrow == Spec => NeverBackwards
<1>1. IInv /\ [Next]_vars =>
         [cache # None /\ cache' # None /\ cache.state # "other" =>
             IF cache'.state = "other" THEN policy = "outcome"
             ELSE cache'.version >= cache.version]_vars
  BY StepNeverBackwards
<1>2. QED BY <1>1, AlwaysIInv, PTL DEF Spec, NeverBackwards

\* An attempt starts where the result of the last one is no longer fresh.
LEMMA StepSpaced ==
    ASSUME IInv, Next, tried # None,
           \/ \E c \in Callers : pc[c] # "fetching" /\ pc'[c] = "fetching"
           \/ task = None /\ task' # None
    PROVE  clock >= tried.at + (IF policy = "fallback" /\ tried.failed
                                THEN Retry ELSE Ttl)
<1>1. /\ TypeOK /\ clock \in Nat /\ expires \in Nat
      /\ tried.at \in Nat /\ tried.failed \in BOOLEAN
      /\ cache # None /\ expires >= tried.at + Span(tried.failed)
  BY Typed DEF IInv, Deadline
<1>2. ASSUME clock >= expires
      PROVE  clock >= tried.at + (IF policy = "fallback" /\ tried.failed
                                  THEN Retry ELSE Ttl)
  BY <1>1, <1>2, Numbers, SMT DEF Span
<1>3. ASSUME NEW c \in Callers, Acquire(c), pc' # pc, \E d \in Callers : pc'[d] = "fetching"
             /\ pc[d] # "fetching"
      PROVE  clock >= expires
  <2>1. ~Fresh(Now(c)) BY <1>3 DEF Acquire, Rechecked, Answers
  <2>2. Now(c) \in Nat /\ Now(c) <= clock
    <3>1. asked[c] \in Nat /\ asked[c] <= clock /\ clock <= clock
      BY <1>1, Typed, SMT DEF IInv, Suspended
    <3>2. QED BY <1>1, <3>1 DEF Now
  <2>3. QED BY <1>1, <2>1, <2>2, SMT DEF Fresh
<1>4. ASSUME NEW c \in Callers, AskBackground(c), task' # task PROVE clock >= expires
  <2>1. ~Fresh(clock) BY <1>4 DEF AskBackground
  <2>2. QED BY <1>1, <2>1, SMT DEF Fresh
<1>5. ASSUME NEW c \in Callers, Ask(c) \/ Fetched(c) \/ Cancel(c) \/ AskBackground(c),
             NEW d \in Callers, pc'[d] = "fetching"
      PROVE  pc[d] = "fetching"
  BY <1>1, <1>5 DEF Ask, Fetched, FetchSucceeds, FetchFails, FetchRaises, Cancel, Ends,
     Settles, AskBackground, Answers, Goto, TypeOK
<1>6. ASSUME NEW c \in Callers, Ask(c) \/ Acquire(c) \/ Fetched(c) \/ Cancel(c)
      PROVE  task' = task
  BY <1>6 DEF Ask, Acquire, Fetched, FetchSucceeds, FetchFails, FetchRaises, Cancel, Ends,
     Settles
<1>7. ASSUME TaskEnds, NEW d \in Callers, pc'[d] = "fetching" PROVE pc[d] = "fetching"
  BY <1>1, <1>7 DEF TaskEnds, TaskSucceeds, TaskFails, TaskAnswers, Answers, TypeOK
<1>8. ASSUME TaskEnds PROVE task' = None
  BY <1>8 DEF TaskEnds, TaskSucceeds, TaskFails, TaskAnswers
<1>9. ASSUME Reset \/ Tick \/ Publish PROVE UNCHANGED <<pc, task>>
  BY <1>9 DEF Reset, Tick, Publish
<1>10. clock >= expires
  BY <1>3, <1>4, <1>5, <1>6, <1>7, <1>8, <1>9 DEF Next
<1>11. QED BY <1>2, <1>10

\* However many calls come at once, the origin is asked again when the result of
\* the last attempt is over, and not before.
THEOREM AttemptsAreSpaced == Spec => AttemptsSpaced
<1>1. IInv /\ [Next]_vars =>
         [ /\ \/ \E c \in Callers : pc[c] # "fetching" /\ pc'[c] = "fetching"
              \/ task = None /\ task' # None
           /\ tried # None
           => clock >= tried.at + (IF policy = "fallback" /\ tried.failed
                                   THEN Retry ELSE Ttl)]_vars
  BY StepSpaced
<1>2. QED BY <1>1, AlwaysIInv, PTL DEF Spec, AttemptsSpaced

=============================================================================
