--------------------------- MODULE HomelabEvidence ---------------------------
(***************************************************************************)
(* The rolling evidence of the public homelab probes: what each replica    *)
(* keeps of earlier refreshes (nabla/api/homelab_probe_evidence.py), what  *)
(* replicas share through Redis (homelab_probe_evidence_redis.py), and the *)
(* rotation that decides what a refresh observes (HomelabSampling).        *)
(*                                                                         *)
(* Time is counted in windows of HEALTH_CACHE_TTL_SEC, which is also the   *)
(* width of a rotation bucket; evidence is kept as its age.  Each replica  *)
(* counts its buckets from a start of its own.  A refresh takes less than  *)
(* a window, so it meets the end of one window at most.                    *)
(***************************************************************************)
EXTENDS HomelabSampling

CONSTANTS
    Replicas,
    Limit,          \* MAX_PUBLIC_PROBES_PER_REFRESH
    EvidenceTTL,    \* PROBE_EVIDENCE_TTL_SEC
    MaxRetention,   \* MAX_PROBE_EVIDENCE_RETENTION_SEC
    NoEntry,        \* no evidence
    Period,         \* buckets are counted modulo this multiple of the cycles
    MaxTroubles     \* bound: restarts, cancellations and catalogue changes

ASSUME EvidenceAssumption ==
    /\ Limit \in Nat \ {0} /\ Period \in Nat \ {0}
    /\ EvidenceTTL \in Nat \ {0}
    /\ MaxRetention \in Nat /\ MaxRetention > 1 /\ EvidenceTTL <= MaxRetention
    /\ NoEntry \notin Nat
    /\ MaxTroubles \in Nat

VARIABLES
    eligible,   \* the services of the catalogue with a public probe
    bucket,     \* the current window as each replica counts it
    store,      \* _evidence["public"]: the age of the entry of each service
    remote,     \* the ages of the shared entries in Redis
    pc,         \* where the refresh of a replica is suspended
    observed,   \* the selected services whose probe ended in time
    late,       \* those that met the budget of the batch
    since,      \* the age of checked_at
    window,     \* history: what the current window has brought a replica
    streak,     \* history: complete windows without a gap
    last,       \* history: the age of the last observation by anyone
    troubles

vars == <<eligible, bucket, store, remote, pc, observed, late, since, window,
          streak, last, troubles>>
calls == <<pc, observed, late, since>>
past  == <<window, streak, last>>

\* An entry as old as MAX_PROBE_EVIDENCE_RETENTION_SEC counts as removed: a merge
\* would remove it, and Redis has let it expire.
Ages == 0 .. MaxRetention - 1

Older(age) == IF age = NoEntry \/ age + 1 = MaxRetention THEN NoEntry ELSE age + 1

Cycle == FullCycle(eligible, Limit)

\* _stale_after_seconds and _retention_seconds; an interval that is None counts
\* as PROBE_EVIDENCE_TTL_SEC.
Cadence(s) == LET i == Interval(eligible, Limit, s)
              IN  IF i = 0 THEN EvidenceTTL ELSE i
StaleAfter(s) == 2 * Cadence(s)
Retention(s)  == LET three == 3 * Cadence(s) IN
    IF three > MaxRetention THEN MaxRetention
    ELSE IF three < EvidenceTTL THEN EvidenceTTL ELSE three

Init ==
    /\ eligible = Services
    /\ bucket \in [Replicas -> 0 .. Period - 1]
    /\ store    = [r \in Replicas |-> [s \in Services |-> NoEntry]]
    /\ remote   = [s \in Services |-> NoEntry]
    /\ pc       = [r \in Replicas |-> "idle"]
    /\ observed = [r \in Replicas |-> {}]
    /\ late     = [r \in Replicas |-> {}]
    /\ since    = [r \in Replicas |-> 0]
    /\ window   = [r \in Replicas |-> "open"]
    /\ streak   = [r \in Replicas |-> 0]
    /\ last     = [s \in Services |-> NoEntry]
    /\ troubles = 0

Trouble == troubles < MaxTroubles /\ troubles' = troubles + 1

-----------------------------------------------------------------------------
\* A refresh probes the services of the window; some are late, the others have
\* a row, whatever it says, when checked_at is taken.
Probe(r) ==
    /\ pc[r] = "idle" /\ window[r] = "open"
    /\ LET selected == Selected(eligible, Limit, bucket[r])
       IN  \E ended \in SUBSET selected :
              /\ observed' = [observed EXCEPT ![r] = ended]
              /\ late'     = [late EXCEPT ![r] = selected \ ended]
    /\ pc'    = [pc EXCEPT ![r] = "reading"]
    /\ since' = [since EXCEPT ![r] = 0]
    /\ UNCHANGED <<eligible, bucket, store, remote, past, troubles>>

\* An entry of Redis within its retention, newer than the replica's own.
AnyAge(s, age, mine) ==                             \* bug: ages not compared
    age # NoEntry /\ age < Retention(s)
Wins(s, age, mine) ==
    /\ age # NoEntry /\ age < Retention(s)
    /\ mine = NoEntry \/ age < mine

Kept(s, age) == s \in eligible /\ age # NoEntry /\ age < Retention(s)

\* merge_probe_evidence: the shared entries that win, without what has expired
\* or is no longer eligible, under the rows of this refresh.  A late row leaves
\* the entry of its service as it is.
Counted(r, s, age)  ==                              \* bug: late rows stored
    IF s \in observed[r] \cup late[r] THEN 0 ELSE age
Overlaid(r, s, age) == IF s \in observed[r] THEN 0 ELSE age

Merged(r, shared) ==
    [s \in Services |->
        LET mine == store[r][s]
            best == IF s \in eligible /\ Wins(s, shared[s], mine)
                    THEN shared[s] ELSE mine
        IN  Overlaid(r, s, IF Kept(s, best) THEN best ELSE NoEntry)]

\* The shared entries are read, or not to be had: then the replica goes by its
\* own.
Merge(r) ==
    /\ pc[r] = "reading"
    /\ \E shared \in {remote, [s \in Services |-> NoEntry]} :
          store' = [store EXCEPT ![r] = Merged(r, shared)]
    /\ pc' = [pc EXCEPT ![r] = "writing"]
    /\ last' = [s \in Services |-> IF s \in observed[r] THEN 0 ELSE last[s]]
    /\ UNCHANGED <<eligible, bucket, remote, observed, late, since, window,
                   streak, troubles>>

\* Each row of origin is SET, whatever Redis holds by now; any of the SETs may
\* fail.  The payload is stored, which keeps the next refresh a window away.
Write(r) ==
    /\ pc[r] = "writing"
    /\ \E done \in SUBSET observed[r] :
          remote' = [s \in Services |-> IF s \in done THEN since[r] ELSE remote[s]]
    /\ pc'     = [pc EXCEPT ![r] = "idle"]
    /\ window' = [window EXCEPT ![r] =
                    IF since[r] = 0 /\ late[r] = {} THEN "complete" ELSE "taken"]
    /\ observed' = [observed EXCEPT ![r] = {}]
    /\ late'     = [late EXCEPT ![r] = {}]
    /\ since'    = [since EXCEPT ![r] = 0]
    /\ UNCHANGED <<eligible, bucket, store, streak, last, troubles>>

-----------------------------------------------------------------------------
Stopped(r) ==
    /\ pc'       = [pc EXCEPT ![r] = "idle"]
    /\ observed' = [observed EXCEPT ![r] = {}]
    /\ late'     = [late EXCEPT ![r] = {}]
    /\ since'    = [since EXCEPT ![r] = 0]

\* The caller's deadline cancels the refresh; what is merged stays.
Cancel(r) ==
    /\ pc[r] # "idle"
    /\ Trouble
    /\ Stopped(r)
    /\ UNCHANGED <<eligible, bucket, store, remote, past>>

Restart(r) ==
    /\ Trouble
    /\ Stopped(r)
    /\ store'  = [store EXCEPT ![r] = [s \in Services |-> NoEntry]]
    /\ window' = [window EXCEPT ![r] = "open"]
    /\ streak' = [streak EXCEPT ![r] = 0]
    /\ UNCHANGED <<eligible, bucket, remote, last>>

\* The catalogue gains or loses a service between two refreshes.
Recatalogue ==
    /\ \A r \in Replicas : pc[r] = "idle"
    /\ Trouble
    /\ \E s \in Services : eligible' = IF s \in eligible THEN eligible \ {s}
                                                         ELSE eligible \cup {s}
    /\ streak' = [r \in Replicas |-> 0]
    /\ window' = [r \in Replicas |-> IF window[r] = "open" THEN "open" ELSE "taken"]
    /\ UNCHANGED <<bucket, store, remote, calls, last>>

\* The next window begins.
Tick ==
    /\ \A r \in Replicas : since[r] = 0
    /\ bucket' = [r \in Replicas |-> (bucket[r] + 1) % Period]
    /\ store'  = [r \in Replicas |-> [s \in Services |-> Older(store[r][s])]]
    /\ remote' = [s \in Services |-> Older(remote[s])]
    /\ last'   = [s \in Services |-> Older(last[s])]
    /\ since'  = [r \in Replicas |-> IF pc[r] = "idle" THEN 0 ELSE 1]
    /\ streak' = [r \in Replicas |->
                    IF window[r] # "complete" THEN 0
                    ELSE IF streak[r] = Cycle THEN Cycle ELSE streak[r] + 1]
    /\ window' = [r \in Replicas |-> "open"]
    /\ UNCHANGED <<eligible, pc, observed, late, troubles>>

Next ==
    \/ \E r \in Replicas : Probe(r) \/ Merge(r) \/ Write(r) \/ Cancel(r) \/ Restart(r)
    \/ Recatalogue \/ Tick

Spec == Init /\ [][Next]_vars

-----------------------------------------------------------------------------
TypeOK ==
    /\ eligible \subseteq Services
    /\ bucket \in [Replicas -> 0 .. Period - 1]
    /\ store \in [Replicas -> [Services -> Ages \cup {NoEntry}]]
    /\ remote \in [Services -> Ages \cup {NoEntry}]
    /\ pc \in [Replicas -> {"idle", "reading", "writing"}]
    /\ observed \in [Replicas -> SUBSET Services]
    /\ late \in [Replicas -> SUBSET Services]
    /\ since \in [Replicas -> {0, 1}]
    /\ window \in [Replicas -> {"open", "complete", "taken"}]
    /\ streak \in [Replicas -> Nat]
    /\ last \in [Services -> Ages \cup {NoEntry}]
    /\ troubles \in 0 .. MaxTroubles

\* No evidence, kept or shared, is younger than the last time any replica had a
\* row from the origin: neither a late probe nor a merge makes it look newer.
NotYounger(age, than) == age # NoEntry => than # NoEntry /\ age >= than

EvidenceIsOld ==
    \A s \in Services : /\ NotYounger(remote[s], last[s])
                        /\ \A r \in Replicas : NotYounger(store[r][s], last[s])

\* What a replica shows of a service never goes back to an older observation,
\* whatever a slow peer has written over a newer one in Redis.
NewestKept ==
    [][\A r \in Replicas, s \in Services :
          LET old == store[r][s]  new == store'[r][s] IN
          old # NoEntry /\ new # NoEntry => new <= old + 1]_vars

\* A replica that refreshed in every window of a cycle, with no late probe, has
\* observed every eligible service at the interval it publishes for it.  So
\* nothing on its board is unobserved, and nothing is marked stale.
CadenceKept ==
    LET cycle == Cycle IN
    \A r \in Replicas : streak[r] >= cycle =>
        \A s \in eligible \cap Services :
            LET interval == Interval(eligible, Limit, s) IN
            /\ store[r][s] # NoEntry
            /\ interval # 0 => /\ store[r][s] <= interval
                              /\ store[r][s] < StaleAfter(s)

=============================================================================
