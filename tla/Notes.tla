-------------------------------- MODULE Notes --------------------------------
(***************************************************************************)
(* One note of nabla/api/notes: the requests that read it, change a copy   *)
(* and write it back (notes.py, crud.py), the Redis list an update is      *)
(* handed to (models.py), and the workers that take it from there          *)
(* (worker.py, run_workers.py).                                            *)
(*                                                                         *)
(* Title, description, type and prompt are one text.  A job is the number  *)
(* of the update that made it.  Requests that only read, and those that    *)
(* add a note of their own, change nothing here.                           *)
(***************************************************************************)
EXTENDS Naturals, Sequences, FiniteSets

CONSTANTS
    Requests,     \* concurrent requests for the note
    Workers,      \* the processes of run_workers
    Texts,
    NoRow,        \* the row is deleted
    NoJob,
    MaxJobs,      \* bound: updates handed to the workers
    MaxTroubles   \* bound: failures of the database, of Redis and of workers

Row == [text : Texts, completed : BOOLEAN, created : {"original", "now"}]

NotesAssumption ==
    /\ Texts # {}
    /\ NoRow \notin Row /\ NoJob \notin Nat
    /\ MaxJobs \in Nat /\ MaxTroubles \in Nat

VARIABLES
    row,        \* the note as the database has it
    pc,         \* what each request does next
    copy,       \* existing_note of each request
    overtaken,  \* history: requests whose copy is older than the row
    jobs,       \* history: updates handed over, or tried to be
    queue,      \* the Redis list of notes
    retry,      \* the Redis list retry_queue
    stage,      \* where each worker is
    job,        \* the note a worker has taken
    done,       \* history: how often each job was handled to the end
    troubles

vars   == <<row, pc, copy, overtaken, jobs, queue, retry, stage, job, done,
            troubles>>
table  == <<row, pc, copy, overtaken>>
lists  == <<jobs, queue, retry>>
crew   == <<stage, job, done>>

Changes == {"edit", "toggle", "update", "delete"}
Jobs    == 1 .. MaxJobs

Init ==
    /\ row \in [text : Texts, completed : BOOLEAN, created : {"original"}]
    /\ pc        = [r \in Requests |-> "idle"]
    /\ copy      = [r \in Requests |-> NoRow]
    /\ overtaken = {}
    /\ jobs      = 0
    /\ queue     = <<>>
    /\ retry     = <<>>
    /\ stage     = [w \in Workers |-> "waiting"]
    /\ job       = [w \in Workers |-> NoJob]
    /\ done      = [j \in Jobs |-> 0]
    /\ troubles  = 0

Trouble == troubles < MaxTroubles /\ troubles' = troubles + 1

-----------------------------------------------------------------------------
\* get_note_or_404: without a row the request ends with 404.
Read(r) ==
    /\ pc[r] = "idle" /\ row # NoRow
    /\ \E change \in Changes : pc' = [pc EXCEPT ![r] = change]
    /\ copy' = [copy EXCEPT ![r] = row]
    /\ UNCHANGED <<row, overtaken, lists, crew, troubles>>

End(r) ==
    /\ pc'   = [pc EXCEPT ![r] = "idle"]
    /\ copy' = [copy EXCEPT ![r] = NoRow]

\* The payload of each change: the form edits keep what they do not name; an
\* update brings all of its own.  None of them brings the creation date.
Payloads(r) ==
    LET whole == [text : Texts, completed : BOOLEAN]
        kept  == [text |-> copy[r].text, completed |-> copy[r].completed]
    IN  CASE pc[r] = "edit"   -> {[kept EXCEPT !.text = t] : t \in Texts}
          [] pc[r] = "toggle" -> {[kept EXCEPT !.completed = ~@]}
          [] pc[r] = "update" -> whole

\* crud.put and crud.delete: one statement each, of a row that may be gone.
Upserted(payload) ==                                \* bug: an upsert
    [text |-> payload.text, completed |-> payload.completed,
     created |-> IF row = NoRow THEN "now" ELSE row.created]
Put(payload) ==
    IF row = NoRow THEN NoRow
    ELSE [text |-> payload.text, completed |-> payload.completed,
          created |-> row.created]

Written(r) ==
    IF pc[r] = "delete" THEN row' = NoRow
                        ELSE \E payload \in Payloads(r) : row' = Put(payload)

Overtakes(r) ==
    overtaken' = IF row' = row THEN overtaken \ {r}
                 ELSE {q \in Requests \ {r} : pc[q] \in Changes}

\* The statement runs.  An update is then handed to the workers, the id it
\* RETURNs being that of the row, or None.
Write(r) ==
    /\ pc[r] \in Changes
    /\ Written(r)
    /\ Overtakes(r)
    /\ IF pc[r] = "update"
       THEN pc' = [pc EXCEPT ![r] = "enqueue"] /\ copy' = [copy EXCEPT ![r] = NoRow]
       ELSE End(r)
    /\ UNCHANGED <<lists, crew, troubles>>

\* The statement raises, run or not, and the request ends with an error.
WriteRaised(r) ==
    /\ pc[r] \in Changes
    /\ Trouble
    /\ Written(r) \/ UNCHANGED row
    /\ Overtakes(r)
    /\ End(r)
    /\ UNCHANGED <<lists, crew>>

\* enqueue_note: RPUSH, or 503 with the push run or not.
Enqueue(r) ==
    /\ pc[r] = "enqueue" /\ jobs < MaxJobs
    /\ jobs' = jobs + 1
    /\ \/ queue' = Append(queue, jobs') /\ UNCHANGED troubles
       \/ Trouble /\ queue' \in {queue, Append(queue, jobs')}
    /\ End(r)
    /\ UNCHANGED <<row, overtaken, retry, crew>>

-----------------------------------------------------------------------------
\* BLPOP gives one worker the oldest note; what it raises ends the worker, with
\* the note popped or not.
Take(w) ==
    /\ stage[w] = "waiting" /\ queue # <<>>
    /\ queue' = Tail(queue)
    /\ job'   = [job EXCEPT ![w] = Head(queue)]
    /\ stage' = [stage EXCEPT ![w] = "handling"]
    /\ UNCHANGED <<table, jobs, retry, done, troubles>>

TakeRaised(w) ==
    /\ stage[w] = "waiting"
    /\ Trouble
    /\ \/ UNCHANGED queue
       \/ queue # <<>> /\ queue' = Tail(queue)
    /\ stage' = [stage EXCEPT ![w] = "ended"]
    /\ UNCHANGED <<table, jobs, retry, job, done>>

Free(w, to) == /\ stage' = [stage EXCEPT ![w] = to]
               /\ job'   = [job EXCEPT ![w] = NoJob]

\* handle_note returns, or raises and the note goes to the retry queue, which
\* nobody reads.
Handled(w) ==
    /\ stage[w] = "handling"
    /\ done' = [done EXCEPT ![job[w]] = @ + 1]
    /\ Free(w, "waiting")
    /\ UNCHANGED <<table, lists, troubles>>

Dropped(w)    == UNCHANGED <<queue, retry>>         \* bug: logged only
Requeued(w)   == queue' = Append(queue, job[w]) /\ retry' = Append(retry, job[w])
                                                    \* bug: pushed twice
SetAside(w)   == retry' = Append(retry, job[w]) /\ UNCHANGED queue

Failed(w) ==
    /\ stage[w] = "handling"
    /\ SetAside(w)
    /\ Free(w, "waiting")
    /\ UNCHANGED <<table, jobs, done, troubles>>

\* The push to the retry queue raises, run or not: that ends the worker.
RetryRaised(w) ==
    /\ stage[w] = "handling"
    /\ Trouble
    /\ SetAside(w) \/ UNCHANGED <<queue, retry>>
    /\ Free(w, "ended")
    /\ UNCHANGED <<table, jobs, done>>

\* A worker process stops with what it has taken, before or after the work.
Crash(w) ==
    /\ stage[w] # "ended"
    /\ Trouble
    /\ Free(w, "ended")
    /\ \/ UNCHANGED done
       \/ stage[w] = "handling" /\ done' = [done EXCEPT ![job[w]] = @ + 1]
    /\ UNCHANGED <<table, lists>>

\* Nothing restarts one worker; run_workers is started again as a whole.
RunWorkers ==
    /\ \A w \in Workers : stage[w] = "ended"
    /\ stage' = [w \in Workers |-> "waiting"]
    /\ UNCHANGED <<table, lists, job, done, troubles>>

Work(w) == Take(w) \/ Handled(w) \/ Failed(w)

Next ==
    \/ \E r \in Requests : Read(r) \/ Write(r) \/ WriteRaised(r) \/ Enqueue(r)
    \/ \E w \in Workers : \/ Work(w) \/ TakeRaised(w) \/ RetryRaised(w) \/ Crash(w)
    \/ RunWorkers

Spec == Init /\ [][Next]_vars

\* A worker that lives goes on: handle_note only logs or hands over a mail.
Fairness == \A w \in Workers : WF_vars(Work(w))

FairSpec == Spec /\ Fairness

-----------------------------------------------------------------------------
TypeOK ==
    /\ row \in Row \cup {NoRow}
    /\ pc \in [Requests -> Changes \cup {"idle", "enqueue"}]
    /\ copy \in [Requests -> Row \cup {NoRow}]
    /\ overtaken \subseteq Requests
    /\ jobs \in 0 .. MaxJobs
    /\ queue \in Seq(Jobs) /\ retry \in Seq(Jobs)
    /\ stage \in [Workers -> {"waiting", "handling", "ended"}]
    /\ job \in [Workers -> Jobs \cup {NoJob}]
    /\ done \in [Jobs -> Nat]
    /\ troubles \in 0 .. MaxTroubles

\* A change that nobody has overtaken changes what it names and nothing else;
\* overtaken or not, no change brings a deleted note back or makes it look
\* newer than it is.
KeepsRest ==
    \A r \in Requests : Write(r) =>
        /\ row = NoRow => row' = NoRow
        /\ row' # NoRow => row'.created = row.created
        /\ row' # NoRow /\ r \notin overtaken =>
              /\ pc[r] = "edit"   => row'.completed = row.completed
              /\ pc[r] = "toggle" => row'.text = row.text

RestKept == [][KeepsRest]_vars

Places(j) ==
    Cardinality({i \in DOMAIN queue : queue[i] = j})
    + Cardinality({i \in DOMAIN retry : retry[i] = j})
    + Cardinality({w \in Workers : job[w] = j}) + done[j]

\* Every update handed over is in one place: queued, with a worker, handled or
\* set aside.  None is handled twice, and none is lost without a failure.
JobsAccounted ==
    \A j \in 1 .. jobs : Places(j) <= 1 /\ (Places(j) = 0 => troubles > 0)

\* While nothing fails, every update handed over is handled or set aside.
JobsFinish ==
    \A j \in Jobs : j <= jobs ~> \/ troubles > 0
                                 \/ done[j] = 1
                                 \/ \E i \in DOMAIN retry : retry[i] = j

=============================================================================
