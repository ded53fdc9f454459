# A verification development of the nabla operations overview

`nabla/` is a FastAPI application that shows the state of a homelab and of the
services around it. Most of its own logic is about *asking other systems as
little as possible*: every dashboard request could reach TrueNAS, pfSense or
Cloudflare, so the code puts caches, single-flight locks, circuit breakers,
rate budgets and deadlines between a request and an origin, shares part of that
state between replicas through a Redis that may be absent or failing at any
time, and serves old evidence, marked as such, when it must not ask again.
That layer is what this directory models first.

## 1. Inventory

Each replica is one asyncio event loop: code between two awaits runs alone, and
an await is where calls interleave, where Redis or an origin may fail, and
where a caller's deadline may cancel. Replicas share only Redis.

| Part (nabla/...) | State it keeps | Operations | What makes it correct |
| --- | --- | --- | --- |
| external probe cache `api/external_probe_cache*.py` | L1 envelopes and their put time, one asyncio lock per key; in Redis: the envelope and the refresh lock | get_or_refresh_probe: L1, local lock, Redis read, Redis lock, peer poll, circuit, budget, origin, store | one origin load at a time per key; no load while fresh evidence is at hand; last-good evidence kept within its window; every call ends |
| provider circuit `api/provider_circuit.py` | failures/open_until and the half-open mark per replica; in Redis: their mirror and the half-open lock | before_provider_probe, record_provider_probe_outcome, release_provider_probe | one half-open owner per replica, one lock holder per TTL, an opening is not lost, the circuit recovers |
| provider rate budget `api/provider_probe_budget.py` | attempts per provider and 60 s bucket, locally and in Redis | admit_provider_probe | at most max_requests admissions per window and replica, and in all replicas while Redis answers |
| probe budget `api/probe_budget.py` | a semaphore and a deadline per health request | run | at most max_concurrency probes, none started late, permits always returned |
| health board `api/health_board.py`, `health_board_diagnostics.py` | the snapshot, the refresh task, the last error | get (stale-while-revalidate), force refresh, reset | one refresh at a time, old snapshot kept on failure, a stale snapshot is eventually replaced |
| /sickz cache `api/sickz_cache.py` | one snapshot, its hostname and time | cached_sickz_snapshot, reset | one build at a time; a build per TTL |
| homelab refresh `api/homelab_health.py`, `homelab_probe_runner.py`, `homelab_probe_batch.py`, `homelab_truenas_probe.py` | the cached payload and its lock; per refresh a semaphore, the probe tasks and two batches | serve or refresh, collect within a budget, cancel what is late, merge, store | fan-out bounded, every selected service has exactly the row its probe came to, every call comes back |
| homelab evidence `api/homelab_probe_policy.py`, `homelab_probe_evidence*.py` | evidence of each service per replica, a shared copy in Redis; the rotation read off the clock | select, merge, share, expire | evidence never younger than it is and never going back; each service observed at the interval published for it |
| homelab health semantics `api/homelab_service_health.py`, `homelab_health_evidence.py`, `homelab_dependency_health.py` | the rows of one payload | reconcile the evidence of a service, project nodes of the topology, fold in the SQL probe, propagate along required relations | no state without proof; doubt reaches exactly who depends on trouble |
| catalogues and snapshots `api/homelab_catalog.py`, `homelab_declared.py`, `homelab_topology.py`, `homelab_runtime.py`, `site_architecture_catalog.py`, `topology_telemetry.py`, `external_connection_probes.py`, `cloudflare_ops_access.py` | a value, when it expires, a lock or a task | load, refresh in the background, fall back, shielded waits | an answer is as old as it says, never goes back, the origin is spared, a cancelled call leaves nobody waiting |
| pfSense posture `api/pfsense_dns_observer.py`, `pfsense_posture_skips.py`, `component_health.py` | nothing of its own; the probe cache keeps its result | preflight, skip, deep reads under a semaphore and a deadline, verdict about Unbound | no verdict from what was not read; a refused key is not repeated; the deadline bounds the reads |
| runtime topology `api/runtime_topology.py` | in Redis: a sorted set of replica ids and a record each | heartbeat, read, expire stale replicas | a live replica is listed, a dead one disappears |
| lifespan `lifespan.py`, `app_features.py`, `mcp/client.py` | background tasks, an exit stack, the MCP sessions | startup, shutdown | what was opened is closed, after its users; optional parts degrade |
| web sockets `api/demo/socket/*` | the list of connections, the pub/sub listener | connect, disconnect, broadcast, listen | each event once and in order to everyone still connected |
| notes `api/notes/*` | SQL rows, a Redis list of updates | edit, toggle, delete, publish, worker | an edit changes what it names; an update is in one place and handled once |
| everything else | see `PROJECT.json` "components" | presentation, clients of remote APIs, settings, scripts | - |

How they meet: a health request enters the health board, which under a probe
budget runs homelab probes and optional diagnostics; each of those asks the
external probe cache for its key; the cache asks the circuit and then the rate
budget before it calls the origin, and reports the outcome to the circuit. The
health board's and the diagnostics' deadlines cancel the calls below them.

The hard behaviours: check-then-act across awaits, stale copies merged back,
Redis commands that fail after being applied, lock TTLs shorter than the work
they protect, late releases, cancellation between an acquisition and the
`try` that would release it, counters at their limits, and liveness of all of
the above when Redis or the origin come back.

## 2. Modules and plan

| Module | Models | Composes with |
| --- | --- | --- |
| `ProviderCircuit` | `api/provider_circuit.py` as `external_probe_cache.py` drives it | - |
| `SingleFlight` | nothing by itself: what every single-flight cache promises | implemented by the next two |
| `ProbeCache` | `api/external_probe_cache.py`, its models and its Redis helpers, for one key | implements `SingleFlight` with one group per refresh lock of a replica; circuit and rate budget are seen as what they answer |
| `ProbeBudget` | `api/probe_budget.py` | extended by `SickzCache` |
| `SickzCache` | `api/sickz_cache.py` with the builder of `sickz_checks.py` it calls | implements `SingleFlight` with one group, and `ProbeBudget` |
| `HealthBoard` | `api/health_board.py` | the homelab payload is one of its tasks |
| `RuntimeTopology` | the replica registry of `api/runtime_topology.py`, with the heartbeat task of the lifespan | - |
| `ProviderBudget` | `api/provider_probe_budget.py`: fixed windows in each replica and in Redis | - |
| `HomelabRefresh` | one refresh of the homelab payload with its fan-out and batches | the merge it ends with is `HomelabEvidence` |
| `HomelabSampling` | the selection and the published interval, as operators | extended by `HomelabEvidence` |
| `HomelabEvidence` | the evidence of public probes over refreshes, replicas and Redis | - |
| `ServiceHealth` | what the evidence says of a service, and of those who require it | checked beside `HomelabEvidence`, whose output it reads: a stale row counts as none |
| `HomelabSources` | eight in-process caches by their five policies | - |
| `PfSensePosture` | one observer below the probe cache, from its requests to the verdict the board shows | the cache is seen as what it may serve; instantiated by `MCHomelabEvidence` |
| `Notes`, `EventBroadcast`, `AppLifespan` | the notes and their workers, the events of the web sockets, the lifespan with the MCP sessions | instantiated by `MCServices` |
| `MC...` | the instances that TLC checks | - |
| `..._proofs` | the theorems | - |

The order was: what limits calls to origins (circuit, cache, budgets), what
readers see (`/sickz`, board, topology), the homelab pipeline from probe to
verdict, one remote observer with protective rules of its own, then the small
services. What is left, in the order it matters:

1. The composition of cache, circuit and rate budget, where the outcome of a
   load reaches the circuit. Each of them is modelled with any answers of the
   others, so this would sharpen what holds, not add a behaviour.
2. A theorem about `RuntimeTopology`. What its run checks is liveness, so it would
   first need a safety property worth the name: that the score of a replica that
   stays never falls out of the window.
3. The policy tables of `sickz_policy.py` and `homelab_exposure.py` as
   operators over the evidence of `ServiceHealth`.

## 3. How state and actions correspond to the code

In every module a step is what one task does between two awaits; the value of
`pc` (`stage` in `HealthBoard`) names the await a task is suspended at.
`PROJECT.json` "map" gives the lines of each definition. Common conventions:

- **Instants are durations.** `open_until` is the time left until it, a
  timestamp is the age of what it stamps, capped beyond every TTL. `Tick`
  advances them all, so no clock has to be bounded.
- **Redis** is a set of variables (`remote`, `lease`; `age` and `details` in
  `RuntimeTopology`). A command may raise without having been applied and, where
  it matters, may raise after it has been applied. Keys expire.
- **Cancellation** is an action, enabled at the awaits in `Cancellable`, with
  what the `except` and `finally` blocks around that await do, and no more.
- **Restart** empties what a process keeps in memory; Redis stays.
- `\* bug:` definitions are deviations of a guard or an update that a mistaken
  edit could make. No specification uses them; `PROJECT.json` "mutants" replaces
  a definition by one of them to see the property fail.

**ProviderCircuit.** `local` is `_local_state` as failures and time left open,
`inProgress` is `_half_open_in_progress`, `remote` and `lease` are the Redis
state and the half-open lock, `snap` and `seen` are the copies a call carries
over an await. `Start` and `ReadShared`/`ReadLocal` are
`before_provider_probe` up to its decision (`_load_state` merges the copy with
what Redis returned), `Acquire*` the half-open lock, `OriginEnds` the load,
`RecordSuccess`, `RecordFailure`, `RecordOverflows` and `Mirror`
`record_provider_probe_outcome`, `Finish` and `Unlock` the release.
`RecordOverflows` is `2 ** n` no longer fitting a float, which Python raises
for. Histories: `owns` (who set the mark), `window` (what is left of a TTL that
was granted together with a token), `purged`.

**ProbeCache.** `l1` and `held` are the L1 entry and the time since its put;
`epoch`, `flight` and `refreshing` are `_refresh_locks`: a purge forgets the
lock of a key, so a later call may be handed another one while the first is
still held. `remote` and `lease` are the envelope and the refresh lock in Redis,
`last` is `last_envelope`. `Call` is the L1 look-up, `Enter` the local lock with
the second look, `ReadAnswered`/`ReadRaised` the Redis read, `Lock*` and `Poll*`
the contention with the other replicas, `Decide` and `Admit` circuit and rate
budget, `OriginReturns`/`OriginRaises` the load, `Write` and `Unlock` the rest.
`results` is what the last step returned, if it returned anything: of which
replica, and with how old a last good observation.

**ProbeBudget, SickzCache.** A budget is `over` (its deadline has passed),
`permits` (its semaphore) and the `stage` of each probe. `Run`, `Admit`,
`QueueTimeout`, `Finish`, `OriginTimeout`, `Stop` are the paths through `run`;
`CancelAll` is a cancelled gather. The cache adds `_lock`, `_snapshot` with its
key, and the request's way through catalogue, probes and enrichment. A gather
one of whose probes raises returns at once and leaves the others running
(`GatherRaised`): a target that is malformed does this.

**HealthBoard.** `part` are the tasks of each refresh, `task` is
`_refresh_task`. No critical section of `_cache_lock` contains an await, hence
it is no state. `Unwind` is what a cancellation reaches: only the await the
refresh is at, so tasks not awaited there go on beside the next refresh.

**RuntimeTopology.** `age` is the sorted set, a score being kept as its age;
`details` the hash. `Begin` reads the clock and the stale ids, `ZAdd`, `HSet`,
`ZRem`, `HDel` are the commands of the pipeline, which is no transaction, and
`Fail` the call that raises before any of them.

**ProviderBudget.** `local` is `_local_counts`, `remote` the Redis keys of the
windows, `ticket` the bucket and local count a call took before its await; the
pipeline may answer, raise, be cancelled, or come when the window is over.
Histories: `shared` and `alone` count admissions by who decided them.

**HomelabRefresh.** `permits`, `probe`, `batch` and `truenas` are the semaphore
and tasks of the refresh each call runs, `row` what a batch has made of each
probe. `Collect` is the return of `asyncio.wait` with whatever is over by then,
`Drained` the wait for those it cancelled. A call that is interrupted leaves
tasks behind, and another call may refresh beside them.

**HomelabSampling, HomelabEvidence.** Time is counted in windows of the cache
TTL; each replica counts its rotation buckets from a start of its own, since
processes do not agree on the moment a refresh falls in. `Probe` selects and observes (some services
late), `Merge` is the read of the shared copy with `merge_probe_evidence`,
`Write` puts what was merged into Redis, without a lock. Histories: `last` is
when anybody last observed a service, `streak` the windows without a gap.

**ServiceHealth.** One payload is judged at a time: `Reconcile` takes one
service with any evidence (`Evidence` is every combination of what the direct
and internal probe, TrueNAS and Cloudflare may say), `Project` adds the nodes
only TrueNAS knows, `FoldIn` the SQL probe, `Propagate` is one round of the loop
over required relations. `proof` records what spoke for the last verdict. The
state of a row is the code's decision list, in its order.

**HomelabSources.** `policy` fixes which of the eight caches is meant, for one
execution. `Ask` is the look-up without the lock, `Acquire` the second look
under it, `Fetch*` the outcomes, `Task*` those of a background refresh that a
cancelled caller does not cancel. `seen` and `asked` are what a call carries
over its await, versions of the origin stand for its content.

**PfSensePosture.** `reads` are the four requests of a refresh; an answer is what
the handlers tell apart. `Preflight` decides whether the deep reads go out, `Ask`
is the semaphore, `Interrupt` the CancelledError of the deadline or of a
cancelled caller: during the preflight it is caught and remembered in `cut`,
later it ends the refresh. `Store` is the probe cache, `Served` every answer that
the cache could give at that moment, `Unbound` the verdict. `during` records the
states of the appliance that a refresh could have seen.

**Notes.** `copy` is `existing_note` of a request, written back with every
column. `queue` and `retry` are the lists in Redis; `BLPOP` takes a job out
before it is handled. **EventBroadcast.** `at` is the index of the iteration
over `active_connections`, which goes on over a list that changes under it.
**AppLifespan.** `resources` and `contexts` are the two exit stacks, popped from
the top; a release may raise and the unwinding goes on.

## 4. What the runs check

| Run | Instance | Shows |
| --- | --- | --- |
| `circuit_exclusion` | 2 probes in a replica, 1 in a peer without cached evidence; every Redis command may fail, every await be cancelled | one half-open owner per replica that is not purged, one lock holder per granted TTL |
| `circuit_recovery` | 2 probes of a replica, backoffs of 1 and 2 with the doubling, full jitter, the cap and the overflow; purges and Redis failures; no cancellation | no half-open mark without an owner, a failure never shortens a window its recorder knows of, and the circuit always closes again once the origin stays up |
| `cache_local` | 2 callers of a replica, Redis failing, cancellation, a purge at any moment | each refresh lock is a single flight, an unpurged replica never loads beside hot evidence, every call ends |
| `cache_peers` | 2 callers in a replica and 1 in another, the origin free to outlive the lock, the lock's commands failing, the load and either `SET` cancelled before or after it is applied, circuit and budget denying | the lock in Redis is exclusive within its TTL; last good evidence survives failed refreshes, is not overwritten by a refresher's older copy, and reaches every result |
| `sickz` | 2 requests, 2 hostnames, 1 permit, a good and a malformed target | single flight, fan-out, right hostname, purge respected, everything ends even when origins hang for ever |
| `board` | 2 refreshes in turn beside each other's left-over tasks, sources down, both deadlines, resets, forced refreshes | one refresh may store, resets hold, the board recovers |
| `topology` | 2 replicas that stop, start and lose Redis while pipelines interleave | who stays is listed for good, who is gone disappears |
| `homelab_refresh` | 2 calls, a public and 2 internal probes on one permit, one cancellation or error anywhere, origins that may hang | permits add up also with left-over tasks, a merge sees settled rows only, every call comes back |
| `homelab_evidence` | gathering: 2 replicas with rotations out of step, 2 services, a budget of one, late probes, a Redis that fails, one restart, cancellation or change of the catalogue. Judging: every combination of evidence, 3 nodes, any required relations. Posture: 2 refreshes, any answer to each request, 1 change of the appliance at any moment, the deadline and cancelled callers at any await | evidence is never younger than it is and never goes back, the published interval is kept; no verdict without proof, doubt reaches exactly who depends on trouble; a verdict about Unbound was true while it was read, whatever part of the evidence is missing |
| `homelab_sources` | each policy with 2 calls, failures, cancellations, a reset, an origin that moves on | how old an answer may be, that it never goes back, how often the origin is asked, that nobody is left waiting |
| `services` | one of: 3 admissions in 2 replicas over the end of a window; 2 requests and 2 workers with 2 failures; 3 sockets and 2 events; a lifespan with any features, 2 MCP servers and 2 failures | the budget of a window; edits keep what they do not name, updates are in one place and finished; events in order and to everybody; resources closed after their users |
| `circuit_cancel` | the smallest instance that shows it | the finding of section 7 |

`homelab_evidence` and `services` check parts that share no state, one part per
execution, chosen in the first state: the other variables stay as they started.

**Bounds, and why they are enough.** Every constant is one of three kinds.

- *Number of tasks and replicas.* Exclusion in the circuit needs two claimants in
  one replica and one outside, which is what `circuit_exclusion` has. The probe
  cache has two levels of contention, the lock of a replica and the lock in
  Redis, and a run for each, since both together are past TLC's useful time;
  that no number of callers and replicas breaks the exclusions is proved.
  Names of refreshes and requests are used again, so two stand for any sequence
  of them with two at work; `SickzCache` uses a request's name again only when its left-over probes
  are over, `HealthBoard` a refresh's when its tasks are.
- *Durations.* Only their order matters: a hot TTL no longer than the success
  TTL, a stale TTL above it, a lock TTL that an origin call may outlive (a load
  lasts any number of ticks). Each is 1 or 2, with ages up to 3; `cache_peers`
  keeps evidence for 2, so that it can be expired and still good. In
  `RuntimeTopology` one unit is the heartbeat interval, the window is three of them as in the code, and a call
  that reaches Redis takes at most `MaxLag` = 1; a call that cannot reach it may
  hang for any time, since the client has no socket timeout of its own.
- *Counters.* `FailureCap` 1 where only the half-open lock matters. In
  `circuit_recovery` it is 3, so that one failure opens the circuit for 1, the
  second for 2 (the cap as well), less up to all of that as jitter, and the third
  overflows (`MaxExponent` = 1 in place of 1023). `CapAssumption` says that counts
  stop at the cap only where the backoff has reached its maximum or overflows;
  `MaxPurges` 1, so that two locks of one key are at work; `MaxTroubles` 2 late
  refreshes and resets of the board, so that one can interrupt the recovery from
  another. `MaxTime` 4 of `HomelabSources` is two lifetimes; `MaxWindow` 1 of
  `ProviderBudget` is the one boundary between two windows; `MaxRefreshes` 2 and
  `MaxChanges` 1 of `PfSensePosture` give a result, a later one beside it as the
  last good one, and a change between any two reads; `EvidenceTTL` 5 is more
  than two cycles of two services. Three nodes make every shape of relation that
  matters to the rounds (chain, cycle, cycle with a way in), and for any number of
  nodes the same property is proved.

The passing topology run leaves the heartbeats of page requests out (`Beats`
equals `Loops`). They are in the module: a slow one with an older clock can put
an older score over a newer, so that with them the window would have to be at
least the interval and three lags, which holds of the code's 30 s and 90 s for
any sane lag but not of these small units.

## 5. Fairness, and what justifies it

- *Awaits that are over are resumed*: weak fairness of each task's own steps.
  Every await of the circuit and of the probe cache returns: Redis commands and
  origin calls carry timeouts.
- *`asyncio.Lock` is first in, first out*: strong fairness of `Enter` and of the
  waiting purge of `SickzCache`.
- *Timeouts fire* in `ProbeBudget` (`Supervise`); nothing is assumed of origins
  there, they may never answer.
- *Origin calls end* in `circuit_recovery` (strong fairness of `OriginEnds`,
  since the budget may reject the probe in between), and the budget's windows
  roll over, so it does not reject for ever.
- *Readers keep asking and time passes* for the circuit and the board, whose
  recovery only a call can start. Dashboards and scrapers poll both.
- *Time does not stand still* in `RuntimeTopology`: strong fairness of `Tick`,
  for an endless flapping of replicas between two instants is no behaviour of
  the system.

- *Fetches end* in `HomelabSources` (each has a timeout) and waiters get the
  lock in turn: `asyncio.Lock` is first in, first out; of the thread lock of the
  TrueNAS snapshot the same is assumed, which Python does not promise.
- *The budget of a batch expires and a cancelled probe lets go* in
  `HomelabRefresh`; the TrueNAS probe carries its own deadlines. Nothing is
  assumed of the origins.
- *Workers run* in `Notes`: the loop of `run_workers` does not pause. `EventBroadcast`,
  `AppLifespan`, `ProviderBudget`, `HomelabEvidence`, `ServiceHealth` and
  `PfSensePosture` are checked for safety only.

None is assumed of cancellation, failure, restart or purge.

## 6. What is proved

For every number of replicas, tasks, hostnames and groups, every TTL and
policy, every choice of failing commands and of cancellable awaits, from the
assumptions on constants each module names (`ConstantsAssumption`,
`CapAssumption`, `EnvelopeAssumption`, `BudgetAssumption`, `SickzAssumption`, `BoardAssumption`,
`RefreshAssumption`, `SamplingAssumption`, `EvidenceAssumption`,
`HealthAssumption`, `SourcesAssumption`, `PostureAssumption`, and
`ServicesAssumption`, which collects those of the four small services):

| Module | Theorems | Inductive invariant: types and |
| --- | --- | --- |
| `ProviderCircuit_proofs` | `TypeCorrect`, `LocalHalfOpenExclusion`, `TokenExclusion`, `MarkHasOwner`, `CountedRecoveryReopens`, `FailuresOnlyExtend` | a probe at the half-open lock owns the mark (`AcquiringOwns`); an owner's replica is marked (`OwnerMarked`), so a second one is refused; a granted window is within the lease of its holder (`WindowWithinLease`), so two windows cannot overlap; until its outcome is recorded, the decision of an owner still shows the failures that opened the circuit (`OwnerSawFailures`), so one more reaches the threshold again; every window known to anybody was earned by the count stored beside it (`WindowsEarned`), so a merge that keeps the larger count bounds both windows |
| `ProbeCache_proofs` | `TypeCorrect`, `HotEvidenceSpares`, `RefreshLockExclusion`, `SingleFlightImplemented`, `LastGoodIsKept` | a caller holds the lock it was handed exactly between lock and release (`LockHeld`); nothing hot appears between the second look and the load (`NothingHotWhileLooking`), since only a lock holder puts; `WindowWithinLease`; the copy a caller took under the lock of an unpurged replica stays that of L1 as long as L1 retains one (`CopyHeld`), so what it stores or serves is as good |
| `SickzCache_proofs` | `TypeCorrect`, `FanOutBound`, `NeverStartsLate`, `ServesCurrent`, `SingleFlightImplemented`, `BudgetImplemented`, `BudgetBounds` | `BudgetInv`: permits free and permits held add up; `LockHeld`; a request under way has a hostname (`HostKnown`); a purge waits for the lock, so no build under way is ever overtaken (`NothingOutdated`) |
| `HealthBoard_proofs` | `TypeCorrect`, `OneRefreshAtATime`, `ResetsHold`, `WorkIsOneRefresh` | a refresh a reset overtook unwinds or is over (`Overtaken`); before the first disturbance a refresh that stores has awaited all it started (`Calm`) |
| `Services_proofs` | `BudgetTypeCorrect`, `BudgetIsKept`, `ChangesKeepTheRest`, `UpdatesAreAccounted`, `EventsKeepOrder`, `BroadcastsReachAll`, `LifespansAreOrdered` | budget: admissions of all replicas are within what the key of their window has counted, as long as anybody may still count there (`KeyCounts`); admissions of a replica and the numbers it has given out and not yet answered are together within its count (`NumbersCount`). Notes: who has not been overtaken holds the row itself (`CopyTrue`); the places of an update, counted over the queue, the retries and the workers, add up to one, or to none after a failure (`Placed`). Events: what anybody has received lies before what the broadcast still has to send, and the iteration is before whoever is still owed it (`Ahead`, `Covered`). Lifespan: whatever is open has its release on the stack, and the release of the tasks is on top of it (`OpenHeld`, `Stacked`, `TasksHeld`, `SessionsHeld`, `DatabaseKnown`) |
| `HomelabRefresh_proofs` | `TypeCorrect`, `FanOutIsBounded`, `RowsAreSettled` | a row that was given up on is of a cancelled probe, which can only end; any other is of one that has ended (`RowsTell`) |
| `HomelabEvidence_proofs` | `EvidenceIsNeverYounger`, `NothingOlderIsMerged`, `CadenceIsKept`, `RotationKeepsRoom`, `DoubtReachesAll`, `VerdictsAreProved`, `VerdictsWereTrue` | between merge and write a refresh carries what it observed, under a date that is not later (`Carries`); a complete window leaves evidence of its turn behind that ages with it, and no merge makes it older or drops it (`CadenceInv`). For the rounds: trouble lies within every set that doubt must reach and never goes from a node again; each round that changes something adds a node, so there are at least as many as rounds, and the bound on rounds cuts nothing off (`HealthInv`). For the posture: a refresh has learned only what the appliance showed while it read, and so has the one a kept result comes from (`PostureInv`) |
| `HomelabSources_proofs` | `TypeCorrect`, `AnswersAreTimely`, `VersionsGrow`, `AttemptsAreSpaced` | who fetches holds the lock, and its cache is no newer than the origin it asked; who waits for the task has no copy to be served (`Suspended`, `Refreshing`, `Cached`, `Deadline`) |

The safety invariants are seldom inductive by themselves. `OneTokenPerWindow`,
for example, allows a state where a probe's window is longer than the lease that
backs it, and then an expired lease is granted again. `LastGoodKept` says nothing
of the copy a refresher works on, and a step from a state where that copy has
fallen behind L1 would break it. The purge exclusion is part of the statements:
`LocalHalfOpenExclusion` and `HotEvidenceSpares` promise nothing of a purged
replica, and `SingleFlightImplemented` is per lock, so a purged replica may have
two leaders.

`FailuresOnlyExtend` rests on arithmetic: `RecordFailure` merges counts and
computes a new backoff, and it is the doubling that makes the backoff of one more
failure, less any jitter, at least that of the counts before it. Powers of two
are introduced as the number of subsets of a finite set, of which one element
more makes twice as many (`PowerDoubles`), and the cap and the jitter are
monotone (`DoubledGrows`, `ReachGrows`).

`SingleFlightImplemented` is a refinement: `phase` of `SingleFlight` is read off
`pc`, `group` is the lock a caller was handed, and every step is shown to be an
`Ask`, a `Lead`, a `Leave` or a stutter. In `SickzCache` the budget is not
assumed: `BudgetImplemented` shows that each of the cache's steps is a step of
`ProbeBudget` or leaves it alone, and `FanOutBound` then follows from the
budget's own invariant.

`DoubtReachesAll` is the one about an algorithm: `Reached` is defined without
rounds, as what lies in every set closed under "requires"; the loop of
`propagate_required_dependency_health` is shown to end with exactly that,
around cycles too, within `len(rows) + 1` rounds. `VerdictsAreProved` splits the
decision list of `reconcile_service_state` by what decided.

`CadenceIsKept` rests on arithmetic that no instance settles. The turn of a window
begins at `bucket * slots` modulo the length of the wheel; `TurnsMeet` shows, from
what a quotient and a remainder are, that `ceil(length / slots)` windows in a row
meet every place, and `OnlyIsWhole` that every service that rotates has a place:
in a finite set with a strict order, how many come before it tells a member
(`OrderNumbers`).

Two theorems have a hypothesis about constants, as the property is false
without it:

- `MarkHasOwner` needs that the `SET` of the half-open lock is not cancelled:
  without it the property is the finding `circuit_cancel`.
- `CadenceIsKept` needs `RotationHasRoom`, `CyclesAreRetained` and `WholeRounds`, which
  `CadenceAssumption` states of the checked instance. The first follows from a
  limit above three (`RotationKeepsRoom`; the code has 12). The second says that a
  cycle is shorter than `MAX_PROBE_EVIDENCE_RETENTION_SEC`: 120 windows, that is
  at least 240 services that rotate. The third is about the bound `Period`
  alone, since buckets of the code never wrap.

Every invariant that a run checks is proved, and every action property.
Only model-checked is liveness (`RecoversAfterOutage`, both `CallsAnswered`,
`EverythingEnds`, `BoardRecovers`, `LiveStaysListed`, `DeadDisappears`,
`CallersAnswered`, `JobsFinish`), which the prover does not do, and with it
`RuntimeTopology` as a whole. `NoLateStart` of the budget, the other way round, is
proved (`NeverStartsLate`) and is part of no run. Types are proved where
`TypeCorrect` is listed, and with the theorems of the others (`Kinds` of the
evidence, `TableTypes`, `JobTypes`, `EventTypes` and `LifeTypes` of the services);
`VerdictsAreProved` needs none of the states. The theorems of `Services_proofs` and
`VerdictsWereTrue` are about the instances `MCServices` and `MCHomelabEvidence`
make of a module, under the names they give them (`Note`, `Events`, `App`,
`Posture`); all their constants stay open.

## 7. Findings

1. `circuit_cancel`: a caller's deadline that cancels the half-open `SET` leaves
   the mark in `_half_open_in_progress`; the provider is denied in that replica
   until a restart (`provider_circuit.py:289`).

Seen while modelling, without a run of their own, for the most part because no
line of the repository says otherwise, or not plainly enough:

- *Circuit.* A state copied before the Redis read and merged after it takes back
  an opening recorded meanwhile (`provider_circuit.py:221`); after 1024 failures
  the backoff overflows and the failure is not counted: `FailuresExtend` is about
  those that are.
- *Cache.* After a failed Redis write the next read puts the older envelope over
  the newer one in L1 (`external_probe_cache.py:282`), which `LastGoodKept` allows
  once that one is no longer hot; a call without any
  evidence is let through an open circuit and past the rate budget; expired
  evidence served because the circuit is open carries the circuit's mark but not
  the stale mark when it was a success; an origin slower than the lock's TTL
  lets another replica load beside it; callers that gave up waiting all load.
- *Board.* A reset or a deadline ends a refresh but not the tasks it was not
  awaiting; the next refresh runs beside them (`health_board.py:265`). The same
  holds of a homelab refresh that an error interrupts.
- *Sickz.* Two hostnames asked alternately, or a builder that fails, rebuild more
  often than once per TTL.
- *Topology.* The first heartbeat after an outage longer than the window removes
  the replica that sends it, until the next one (`runtime_topology.py:217`).
- *Posture.* A slow preflight counts as a success, so its result, which knows
  nothing of the resolver, takes the place of the last good complete one
  (`pfsense_posture_skips.py:111`); `last_good_available` then offers it. The
  deadline of 8 s, when it fires during the preflight, is caught there as one
  failed read, and the three deep reads follow without any deadline
  (`pfsense_dns_observer.py:278`). The last good posture, served because a peer
  refreshes, the budget is spent or the circuit is open, is shown as current
  (`pfsense_dns_observer.py:423`): Unbound is then confirmed up or down by evidence
  of up to ten minutes before, which `VerdictWasTrue` allows, since it speaks of
  the time of the reads.
- *Rate budget.* While Redis fails each replica admits by its own count, so the
  provider sees the budget once per replica.
- *Notes.* Of two overlapping edits the later write takes the other's columns
  back; what is set aside in `retry_queue` nobody reads.
- *Web sockets.* An error in a broadcast or in Redis ends the event listener until
  the next start; a connection that leaves while it is being iterated over makes
  the next one miss the event.
- *Health semantics.* (a) While the TrueNAS snapshot is stale every service row
  carries `runtime_stale`, so every target counts as unknown
  (`homelab_dependency_health.py:111`) and not even failures that probes have
  confirmed are propagated, though the function says it propagates "confirmed
  failures". (b) A probe cut off by the budget of its batch leaves the row "warn";
  with a tunnel that is down and nothing else this comes to "fail"
  (`homelab_service_health.py:182`), where no row at all would give "warn". (c) A
  declared binding that two apps match is treated as absent and comes to "fail".
  (d) An app that is DEPLOYING is down in a service row but only "warn" for a node
  of the topology.

## 8. What is not modelled

`PROJECT.json` "components" lists every part with the reason. The map covers
about 4,100 lines, a tenth of the Python in the repository: what
keeps state across calls or coordinates tasks, and the decision functions whose
result the other parts build on. Much of what remains has nothing for a model of
behaviours to say:

- *Presentation*: templates, data transfer objects, pages, wording and links of
  rows.
- *Clients of remote systems* (`truenas_client.py`, `pfsense_security_observer.py`,
  `cloudflare_*.py`, `dns_probe.py`, ...): one request and its interpretation
  each. In the models they are the origin: success, failure or any delay.
- *Policy tables* over one service (`sickz_policy.py`, `homelab_exposure.py`):
  functions without state; a model would repeat the table. The two tables on
  which others depend, the state of a service and its propagation, are modelled.
- *Access control, settings, logging, metrics*: decisions about one request, or
  configuration of libraries.
- *Scripts, deployment files, migrations and project templates*: no part of the
  running system.

Within the modelled parts: schemas and validation of what origins deliver; how
evidence is matched to a service by host, port or name; the annotations of a row
(dates, notes, drift); the reports `blocked_by`, `degraded_by` and
`dependency_cycle`; the stages inside the TrueNAS probe; the egress set of the
runtime topology; functions that only tests call.
