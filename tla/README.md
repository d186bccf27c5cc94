# A TLA+ model of cloud_dog_jobs

`cloud_dog_jobs` is a job-queue package: applications submit jobs to a backend
(memory, SQL, Redis, or SQL and Redis together), worker threads or processes
select, claim and run them, administrators and maintenance loops change them
meanwhile.  This directory holds TLA+ modules that model the parts where several
of these actors meet, TLC configurations that check them on small instances, and
proofs, checked by TLAPS, of the properties that hold for every instance.

All paths below are relative to `src/cloud_dog_jobs/`.

## The system

| Component | State it keeps | Operations | Meets |
|---|---|---|---|
| `domain/` | `Job`, `JobStatus`, the transition table of `JobStateMachine` | `can_transition`; no backend or worker calls it | everything |
| `backends/memory_backend.py` | a dict of live `Job` objects, one `Lock` | `enqueue`, `dequeue`, `claim`, `release`, `heartbeat`, `update_status`, `all_jobs`, ... | every thread of the process |
| `backends/sql_backend.py`, `storage/sqlalchemy/` | one table row per job | the same, one transaction each; readers get copies | workers of several processes |
| `backends/redis_backend.py` | a hash per job, one sorted set, a lease key per claim | the same, several commands each; `reap_expired_leases` | workers, callers and a reaper in several processes |
| `backends/hybrid_backend.py` | SQL and Redis together | writes one after the other | both stores |
| `scheduler/dispatcher.py` | none | `select_eligible`, `release_job` | backend, tracker, pool |
| `scheduler/dependency.py` | `_edges`, a reentrant lock | `validate_and_register`, `detect_cycle`, `register`, `unregister`, `is_runnable` | `JobQueue.submit`, dispatcher |
| `scheduler/resource_pool.py` | `_used`, `_holders`, a lock | `acquire`, `release` | dispatchers of all workers |
| `scheduler/concurrency.py` | counters, no lock | `acquire`, `release` | dispatcher |
| `worker/worker.py` | the loop's stop flag | `run_once`, `run_forever`, `stop` | dispatcher, backend, handlers, fallback |
| `extensions/fallback_policies.py` | a policy per job type | `apply`: retry, dead letter, notify, ignore | backend, an HTTP notifier |
| `queue.py` | none | `submit`, `cancel` | tracker, idempotency, backend |
| `admin/service.py`, `admin/bulk.py` | none | cancel, retry, update, resubmit, reassign, clear_old, clear_stuck, bulk | backend, behind the workers' back |
| `maintenance/reaper.py`, `ttl/` | none | `run_sweep` | backend, behind the workers' back |
| `broker/deadlock.py` | `_graph`, a lock | `add_dependency`, `remove_job`, `yield_to` | broker clients |
| `idempotency/manager.py` | `_entries`: key, job id, expiry; no lock | `register_or_get` | threads in `JobQueue.submit` |
| `fanout/manager.py` | `_children_by_parent`, in memory | `create_fan_out`, `aggregate_parent_status`, `cancel_parent_and_children` | `JobQueue`, workers through the statuses |
| `callbacks/manager.py` | registrations in memory and in a table, no lock | `register_callback`, `unregister`, `trigger`, `trigger_job_completion` | a database, HTTP receivers |
| `broker/fairshare.py` | a quota per tenant; the lock covers the table, not the counters | `can_submit`, `record_submit`, `record_complete`, `next_eligible_tenant`, `register_tenant` | broker threads |
| `broker/capacity.py` | used slots per resource, a lock | `try_acquire`, `release`, `register_resource` | broker threads |
| `broker/registry.py` | a dict per process and one Redis hash | `register`, `deregister`, `heartbeat`, `list_services` | services of several processes |

What is hard here: `run_once` is a sequence of separately locked calls (select,
check dependencies, acquire slots, claim, run, write the outcome, release), and
other workers, administrators and sweeps act between any two; no status write
checks the status it replaces; sweeps decide on one reading and write later;
Redis methods are several commands long and leases run out on their own;
the hybrid backend writes two stores one after the other; the idempotency table, the
concurrency counters, the quotas and the callback registry are shared by threads
without a lock; processes die.  `PROJECT.json` lists these hazards line by line.

## Modules

* `JobStates`, `JobModel` - statuses, the transition table, the attributes of a
  job that decide its scheduling. `CloneInto` is the copy that resubmit, reassign
  and dead letters make: resources and dependencies are not copied.
* `JobStore` - the memory and SQL backends.  A method is one atomic step (one lock
  section, one transaction).  Constant `Backend` selects among the three differences
  that matter: SQL has no columns for `resources` and `depends_on`
  (`StoredResources`, `StoredDependsOn`), clears `claimed_by` on status changes, and
  returns copies.  `episode` and `succeeded` are history variables: how often a job
  was put in the queue and which jobs ever succeeded.
* `ResourcePool` - `_used` and `_holders`, with the overwriting `acquire` as it is.  `amiss` is a
  history variable: entries of `_holders` overwritten, jobs claimed that have no handler, handlers
  that escaped.
* `WorkerPool` - workers, dispatcher, fallback policies and `JobQueue.submit`.
  `run_once` is cut at each lock section and each call into application code; the
  module header lists the phases.  A handler returns, raises, times out, or escapes
  `except Exception` (`HandlerEscapes`: `SystemExit`, `KeyboardInterrupt`).
* `Operations` - `WorkerPool` plus `AdminService`, `BulkAdminOperations` and
  `MaintenanceReaper`.  A sweep reads the jobs (live objects or copied rows), judges
  them one by one and writes in a later step; a bulk operation judges all of them
  before it writes.  `update_job` sets the priority and releases the job in two steps.
  `stamps` says whether rows come back without the time zone they were written with, as
  from SQLite and MySQL; a sweep that compares such a timestamp with its aware
  `now` ends in a `TypeError` (`SweepRaises`).  `Crash` kills a worker's process (SQL
  only: the memory backend dies with it).
* `CycleSearch` - the depth-first walk that `detect_cycle` and `_would_cycle` share,
  one loop pass per step; `DependencyTracker` and `DeadlockGuard` are its two users.
  In the tracker `stale` remembers which approvals of `detect_cycle` are out of date because
  edges were written since.
* `RedisBackend` - one Redis command or Lua script per step, with workers, callers, a
  reaper, lost replies, crashes and expiring leases.  Its workers have the default settings: no
  run timeout, no dead-letter policy (`HandlerEnds`); the two writes around a timeout and the
  dead letter are in `WorkerPool`.
* `ClaimQueue` - what `QueueBackend` promises the workers, abstractly: a job is put in
  the queue any number of times and each stay is granted to at most one worker.
  `WorkerPool` (with it `Operations`) and `RedisBackend` implement it under the mapping
  `Queue`: a job waits while its status is queued, its stay is `episode`, and a worker
  between its claim and the end of `run_once` holds the stay it won.
* `HybridBackend` - extends `RedisBackend` by the SQL half.  Each client has at most one
  call on the other store still to make (`due`); `Abandon` is the crash or exception after
  which it is not made.  Reading and writing back the `meta` column are two steps.
* `Submission` - `JobQueue.submit` with `IdempotencyManager` in several threads: the clock,
  the lookup, the entry and the enqueue are four steps; `Restart` empties the table.
* `FanOut` - extends `Submission` by `FanOutManager`, workers that run the children, and everybody
  else who writes the status of a child (`Rewritten`: `retry_now`, `reschedule_job`, `cancel`,
  sweeps and bulk operations, from any status).  Children are submitted, polled and cancelled one
  by one.
* `Callbacks` - `CallbackManager` for one job id; deliveries hold the registration object
  they began with while others replace it.
* `Admission` - `ConcurrencyManager`, `FairShareScheduler` and `CapacityEnforcer`, the
  limiters a thread asks before a job and tells after it.  Code without a lock is cut where
  the interpreter may switch threads: between a check, a read and a write.  Each tenant has its own
  limits and weight (in hundredths, so that `max(weight, 0.01)` is `Share`); a resource must be
  registered before any of it can be had.
* `ServiceRegistry` - `broker/registry.py`, cut at each `await`.
* `Broker` - `Admission` and `ServiceRegistry` side by side.  They share no state, so a
  behaviour is about one part, chosen at the start.
* `MC*` - instances for TLC.
* `CycleSearchProofs`, `DependencyTrackerProofs`, `DeadlockGuardProofs`, `WorkerPoolProofs` (with
  `Operations`), `RedisBackendProofs` (with `HybridBackend`), `FanOutProofs` (with `Submission`),
  `CallbacksProofs`, `BrokerProofs` (`Admission`, `ServiceRegistry` and `Broker`) - theorems.  Each begins with
  its inductive invariants.

Definitions named in comments as wrong variants of another (`ClaimAnyStatus`,
`FallbackRequeues`, ...) are the mutants that show each property can fail.

## What the runs check

| Run | Instance | Shows |
|---|---|---|
| `WorkerPool_chain` | 2 workers, 4 jobs: a chain of dependencies, a job of unknown type, a pool of two slots, timeouts, handlers that escape, retry and dead-letter policies | one winner per stay in the queue; a job is claimed only after its dependencies succeeded; a running job is held by the worker its `claimed_by` names, unless it has no handler or its handler escaped; slots come back on every outcome but an overwritten entry of `_holders` and an unknown job type; every status change is in `DEFAULT_TRANSITIONS` |
| `WorkerPool_partition` | 2 workers on a queue each, 3 jobs, one slot, a notifier that may raise | every queued job is taken by a worker that keeps polling |
| `Operations_admin` | 2 workers, 2 jobs, memory; cancel, retry, update, resubmit, reassign at any moment | the pool is never oversubscribed; workers and administrators together implement `ClaimQueue` |
| `Operations_sweeps` | 2 workers that may be killed, SQL; all sweeps and bulk operations (one of them retries failed jobs); rows that keep the time zone of timestamps (PostgreSQL) and rows that do not (SQLite, MySQL), where most sweeps raise midway | types; a stuck job is moved out of `running` where rows keep the time zone |
| `DependencyTracker` | 3 jobs, any edges, two callers that split detect and register | only a `register` whose `detect_cycle` saw a graph that others have extended since can close a cycle; only cyclic edges are refused |
| `DeadlockGuard` | 4 jobs, any edges | the wait-for graph is acyclic and diamonds are accepted |
| `Redis_recovery` | 2 crashing workers, lost replies, a reaper, every caller operation | one winner per stay in the queue; a running job nobody works on is released; single Redis commands implement `ClaimQueue` |
| `Hybrid` | 2 workers and a caller on both stores, each of which may be cut off anywhere; leases that run out | what Redis hands out has a row; the stores agree on every job on which no two methods overlapped and none was left half done; attempts are counted exactly while one worker has the job; a running job on which no methods overlapped keeps its lease until its TTL takes it |
| `FanOut` | 2 threads that submit with one key or fan out two children, a poller without a threshold, with one half and with one above 1, a canceller, 2 workers, one rewrite of a child from outside, a restart | one job per key and window unless two lookups overlapped; a duplicate is answered with a job that exists or comes, or whose submission failed; `succeeded` means enough children did; a final verdict stays unless the parent is disturbed in one of the ways the property lists |
| `Callbacks` | 2 threads, 2 registrations, 2 deliveries, a database that may refuse any write, a restart | memory and table hold what the last undisturbed call left; the row counts the requests where no calls overlapped and no write was refused; True and False are earned; every delivery ends |
| `Broker` | 3 threads before each limiter, 2 processes at the registry | unlocked counters are exact and limits kept unless the race the property names occurred; at most twice the rate in any minute; what is used of a resource is what its holders asked for, and no more than there is; the picked tenant is a fair one; no heartbeat revives a record unless calls overlapped; silent services fade |

Properties of code without locks name the race they except through a history variable
(`torn`, `shared`, `raced`, `mixed`, `overlap`, `crowded`, `lost`, `clashing`, `amiss`, `stale`,
`disturbed`).  Such a property does not say that the race is harmless; it says that, of the steps
modelled, nothing but the race leads there.  The section "Observed while modelling" says what
happens in the race.

One run shows where the code departs from what the repository says of it (`findings` in
`PROJECT.json` quotes the line): `Redis_reap_late` - the `zrem` of a worker that reports its
outcome follows the `zadd` of the reaper, and the job is queued and in no queue.  Two more
departures are exceptions of properties of passing runs, and TLC finds a counterexample as soon
as the exception is dropped: `SlotsReturned` without `NoSlotLost` (`worker/worker.py:95` says
"Resource slots are released in a finally block on EVERY outcome"), and `StuckJobRecovered` with
`stamps = "naive"` (the repository's `README.md:21` promises "automated recovery sweeps", and
`backends/sql_backend.py:16` supports "SQLite, MySQL, and PostgreSQL").

### Bounds

Two workers suffice for every race over a claim, a slot or a lease: the steps of a
third are those of the second.  `MaxEpisode` bounds how often a job is put in the
queue by retries, updates and reaping; two stays are the least for which "one winner
per stay" differs from "one winner".  `MaxNow` bounds the clock; thresholds are 0 so
that one tick makes a job old.  `Room` keeps an id free for each dead letter that is
due, since ids are finite in the model; `SweepSkip` drops a bulk retry past
`MaxEpisode`.  `WithoutAmiss` merges states of `Operations_admin` that differ in the history `amiss`
alone, which neither an action nor a property of that run reads.  Three jobs give the tracker cycles of every length up to three and a
job reached along two paths; four give the guard a proper diamond.

`Hybrid` and the Redis runs have one job: the methods of different jobs share only the sorted
set, and of it the properties ask membership, not order.  In `FanOut` three ids are a parent with two
children, or three submissions of one key; `OneAspect` lets the two aspects, which share
only ids, be explored one after the other and not in every combination, and `VerdictsMatter` goes no
further from a verdict that no property compares with a later one.  `MaxRewrites` bounds the rewrites
of children: one takes a verdict back.  A TTL of two ticks
and a clock of three let an entry expire and be replaced.  `Callbacks` needs two
registrations for a stale delivery, and two attempts for a retry; policy 0 is the boundary
of `max(1, ...)`.  `Broker` chooses one of four parts in its initial state, since they share
nothing; lists of candidates have up to `MaxCandidates` (two) members in the run and any number in the
theorem; `MaxResets` bounds registrations of what is registered already; `StillMeaningful` stops at states where a counter has already lost an update, of
which the properties say nothing more (the theorems have no such cut), and where both tenants are
excepted.  A minute of two ticks in a clock of
three lets a window begin anew between two submissions.

### Fairness

`FairWorkerSpec` and `FairOpSpec`: weak fairness of `run_once` of each worker (a thread
is scheduled again and again; handlers end, by returning, raising or timing out, and
the notifier's call has a timeout).  `Stop` and `Crash` are not fair: the liveness
properties except a worker that stopped.  `FairOpSpec` adds the sweep's own steps, the
schedule on which the application calls `run_sweep` (strong, because in the model
another sweep may hold the one slot for sweeps) and the clock.  `FairSpec` of
`RedisBackend`: Redis expires keys, the maintenance loop comes to every running job
again and again (strong, because a reaper that is busy with one job is not at another),
and a client that has begun a method sends its next command unless it crashes.
`FairSpec` of `Callbacks`: a thread inside `_deliver` goes on, because the request has a timeout
of five seconds and the delay between attempts ends (the timeout is one of each read, so receivers
are assumed not to send their answer drop by drop for ever); the outcome of a request is left open, and
refused writes and restarts are not fair.

## What is proved

TLAPS checks these for any sets of jobs, workers, nodes and clients, and any values of
the other constants that satisfy the named assumptions of the modules.

* `OpTypeCorrect` - `OpSpec => []OpTypeOK`.
* `OneClaimPerEpisode` - `OpSpec => []ExclusivePerEpisode`: two workers that hold won
  claims on one job won them for different stays of the job in the queue.  Not inductive
  alone: `ClaimInv` adds that a won claim is for the latest stay or an earlier one, and
  for an earlier one while the job is queued (`ClaimsArePast`).  Each action either keeps
  every claim and does not lower an episode (`KeepsClaims`, `StoreMonotone`) or is a
  claim, and a claim finds the job queued.  Holds for both backends, with every
  administrative operation, sweep and crash.
* `DependenciesRespected` - with the memory backend and without `AdminService.submit_job`,
  `[]DependenciesFirst`.  `DependencyInv` adds that the tracker's edges are the stored
  `depends_on`, that a succeeded job is recorded as such, and that a worker past the check
  has seen every dependency succeed.
* `TrackerOnlyStaleRegister`, `TrackerAcyclic`, `TrackerRefusesOnlyCycles`, `GuardAcyclic`,
  `GuardRefusesOnlyCycles` - from `SearchInv`: the walk covers the new targets, leaves no
  edge of a visited job unexplored, has not met the job it started from, and goes nowhere
  the targets do not lead.  When it ends, the visited set is closed and misses the job, so
  the new edges close no cycle (`SafeEdges`); when it meets the job, every closed set with
  the targets holds the job, so they would (`CyclicEdges`).  Acyclicity is stated by
  minimal elements (every non-empty set of jobs has one that waits for none of the set),
  which for finite sets of jobs says there is no cycle and needs no induction over paths.
  For `TrackerOnlyStaleRegister`, `FreshInv` keeps for every approval that is not stale the set its walk
  visited: no edge leaves it and the job is not in it, until somebody writes edges.
* `RedisOneClaimPerEpisode` - the same claim property over single Redis commands, crashes
  and lost replies, from `RedisTypeOK /\ ClaimInv`.  `RedisTypeOK` leaves out the sorted
  set, of which the proof needs nothing.
* `PoolImplementsClaimQueue`, `RedisImplementsClaimQueue` - `WorkerPool` and `RedisBackend` implement
  `ClaimQueue` under the mapping `Queue`.  Each action is shown to be one abstract step on the mapped
  state (`Put`, `Take`, `Withdraw`, `LetGo`) or none, from the types and, on Redis, from the statuses a
  worker's `update_status` writes (`WorkerTargets`).  The hard steps are those where a worker's grant
  ends and a job's status changes in different commands.
* `RunningJobsAreOwned`, `WorkersFollowStateMachine` - without administrators, a running job is held
  by the worker its `claimed_by` names, unless its type has no handler or its handler escaped
  `except Exception`, and every status change is in `DEFAULT_TRANSITIONS`.  The
  invariant says of each phase of `run_once` which status its job has.
* `QueueExclusive`, `RedisQueueExclusive` - what `ClaimQueue` promises, from `GrantsArePast` (`QueueInv`), and
  that the Redis backend keeps the promise, by the refinement and nothing else.
* `SlotsNeverOversubscribed` - `OpSpec => []NeverOversubscribed`.  The slots in hand are a set with one element
  per slot (`SlotsInHand`).  `PoolInv`: `_used` covers them, an entry of `_holders` says what its job asks
  for, and a worker works on a stored job.  A second `acquire` for the same job replaces its entry and
  adds to `_used` again, and only the first `release` gives back: `_used` may exceed what is in
  hand and never falls below it.
* `SlotsComeBack`, `WorkersReturnSlots` - `[]SlotsReturned` with and without administrators and sweeps, for
  any number of workers on a queue.  The two ways to lose a slot are in the formula, through `amiss`: a
  second `acquire` for a job whose slots are out (`resource_pool.py:97`), and a claimed job without a
  handler (`worker.py:114`).  `LedgerInv`: until one of them happens, every worker in possession of
  slots has an entry of `_holders` of its own, and `_used` is what is in hand and no more.
* `HybridDurable`, `HybridStoresAgree`, `HybridAttempts`, `HybridLeases` - the four properties of the
  two stores, from `HybridInv`: a call that is due fits where its client stands, and the insert into
  SQL comes before the job is in Redis (`DurableInv`); a job that is not torn is moved by one client
  at a time, and how far its method has come says what the two stores hold (`MoveInv`); a job that
  was never shared is in one worker's hands, and the `meta` that worker read is still the row's
  (`AttemptsInv`).  The exceptions are part of the statements: `HybridLeases` says nothing of a job on which
  methods overlapped, where `release` may delete the lease of the next claim.
* `DuplicatesNameJobs`, `WindowsKept` - submissions: `AnswerInv` says the same of the entries as
  `AnswersNameJobs` says of the answers; `WindowInv` adds that two threads about to store one
  key are both marked, and that the window of an unmarked job ends before the key's entry expires and before the
  time of anybody about to replace it.
* `SuccessMeansAll` - fan-out: lists name each child once, and what a poll has seen succeed has
  succeeded (`FanInv`); the counted positions then inject into the children that succeeded.
* `VerdictsStand` - the action property `VerdictStands`, with every write to a child's status in the
  specification.  `StoreInv`: a final status of a child of an undisturbed parent is left by nobody, since no
  worker has a job in hand that has ended or is absent, no two threads submit one id, and whoever
  rewrites it disturbs the parent; the list of such a parent is written once.  `Reading`: what such a poll
  has read as final is the child's status still.  `Stands`: a final verdict rests on a failed child or on
  children that are all final, and the next poll reads the same.
* `RegistrationsDurable`, `RequestsCounted`, `DeliveryAnswersEarned` - callbacks; the first two for
  registrations whose calls did not overlap and met no refused write (`wanted`, `mixed`).  A call nobody
  overlapped is the only one under way and memory holds what it asked for, so its write to the table
  is right (`WriteAt`); the count in memory is ahead of the row by the attempt under way
  (`CountAt`); a delivery has an attempt left until it has made the last one (`CallAt`).
* `LastRecordStands`, `SilentServicesFade` - the service registry.  `RegistryInv`: a call that clashes with none
  is alone on its service and has read what the hash still holds, and while calls clash nothing is
  settled (`SettledInv`); no beat in the hash or in the hands of a call is younger than the last
  sign of life (`HeardInv`).
* `CountersAreExact` - `CountInv` adds that what a thread has read and not written back is still there
  (`CountersRead`), and that a tenant without a quota runs nothing (`NewIsIdle`).
* `LimitsAreKept` - while one thread asks at a time, every counter it has still to raise is below
  its limit (`BelowLimits`, `BelowQuota`).
* `CapacityIsKept` - what is taken of a resource is the cardinality of a set with one element per unit
  held (`Units`), which replaces the sum over threads by unions of disjoint sets.
* `RateIsBounded` - `[]RateBound` for a minute of any length.  The submissions of a period are a set with
  one element each (`SubmitsIn`), which replaces the sum over ticks.  `RateInv`: the submissions after the
  window began are in its count, and those of less than a minute before it were in the window
  before, so they are at most the limit; a thread between its check and its record leaves room for one.
  The bound is then one full window before and one after, and no better one holds (`RateMax` twice
  around the end of a window).
* `BrokerTypes` - a behaviour of `BrokerSpec` is one of `AdmissionSpec` and one of `RegistrySpec` (lemma
  `PartsAreServed`), so the theorems on either hold of both together.  `BrokerTypeOK` says more than types: no
  more of a resource is taken than there is, and a heartbeat has a record to write (`BoundsInv`, `RealInv`).
* `PicksAreFair` - the loop of `next_eligible_tenant` over lists of every length.  What the loop has
  picked after `n` candidates is the first new one, or the one with the least ratio among those that
  may submit; the step from `n` to `n + 1` is carried over all `n` by taking the least number at
  which it would fail (`LeastNumber`, `Reaches`).
* `OpTypeCorrect`, `FanTypeCorrect`, `CallbacksTypeCorrect`, `HybridTypeCorrect` - the type invariants the
  runs check.

Type correctness of the tracker, the guard, the Redis client state, the limiters and the registry is part
of these proofs (`TrackerInit`, `GuardInit`, `RedisTypeOK`, `AdmissionTypes`, `RegistryInv` and the step lemmas).
`OneClaimPerEpisode` covers the SQL backend and all sweeps, for which no run repeats the check.

The assumptions are those of the modules.  `Admission` assumes finitely many threads, names of
counters and tenants that differ, and limits of each tenant above zero, because with a
default limit of zero `next_eligible_tenant` would still pick a tenant that has no quota yet, whose
submission then exceeds the limit; `ServiceRegistry` assumes that every caller has a process;
`ResourcePool` that `None` is no entry of `_holders`.

Only model-checked: liveness (`EveryJobRuns`, `StuckJobRecovered`, `CrashRecovered`, `TriggerReturns`), which
needs fairness and ENABLED.  Every safety property of the passing runs is also a theorem.

## Observed while modelling

These follow from the modelled code; most have no run of their own.

* `worker/worker.py:114`: `registry.get` raises after the claim and before the `try`, so
  the slots of a job of unknown type stay taken and the job stays `running` until a sweep
  finds it (`UnknownJobType`).
* `worker/worker.py:133`: a handler that raises `SystemExit` or `KeyboardInterrupt` escapes the
  `except` clause; the slots come back, the job stays `running` and the loop ends
  (`HandlerEscapes`).
* `storage/sqlalchemy/models.py:119`: SQLite and MySQL return timestamps without a time zone.
  `run_sweep` and `clear_old_jobs` then raise at the first job, `clear_stuck_jobs` at the first
  running one (`Incomparable`, `SweepRaises`).
* `worker/worker.py:163`: `run_forever` does not catch what `run_once` raises; with no
  fallback policy, or with retry, a failing handler ends the loop (`EndRun`).
* `scheduler/dependency.py:122`: `has_failed_dependency` has no caller; the dependents of a
  failed job stay queued.
* `storage/sqlalchemy/models.py:112`: a job read from SQL has no `depends_on` and no
  `resources`, so the dispatcher checks neither (`StoredDependsOn`).
* `admin/service.py:50`: `submit_job` does not register dependencies, `is_runnable` finds no
  edges and lets the job run (`AdminSubmit`); hence the hypothesis of
  `DependenciesRespected`.
* `admin/service.py:68`: `update_job` requeues a job whatever its status; two workers may
  then run it at once (they hold claims of different episodes).
* `maintenance/reaper.py:40`: `find_stuck_job_ids` looks for running jobs among what
  `dequeue` returns and finds none.
* `scheduler/dependency.py:55`: `register` after `detect_cycle`, as its docstring advises, can
  close a cycle when another caller registers in between.
* `backends/redis_backend.py:340`: `update_status(queued)` does not add to the sorted set;
  a job retried by `retry_now` is never run.
* `backends/redis_backend.py:295`: `release` deletes the lease after the job is back in the
  queue and can hit the lease of the worker that has claimed it meanwhile.
* `worker/worker.py:117`: one heartbeat before the handler; a handler longer than the lease is
  reaped and run twice.

* `scheduler/resource_pool.py:97`: `acquire` replaces the job's entry in `_holders`; when two
  workers select the same queued job, both add to `_used` and one amount is never given back
  (`acquire`).
* `scheduler/dispatcher.py:53`: `select_eligible(limit=1)` asks the backend for one job before it
  filters, so a blocked job at the head starves every job behind it, also the one it waits for.
* `backends/memory_backend.py:102`: `update_status` replaces any status; a job cancelled while its
  handler runs becomes `succeeded`.  `TransitionsEnforced` is checked without administrators.
* `backends/hybrid_backend.py:51`: a crash or an exception between the calls on the two stores
  leaves them apart for good; the hybrid backend has no `reap_expired_leases`, so a job whose worker
  died stays `running` in Redis until somebody reaps on the Redis backend itself, and SQL is not
  told then.
* `backends/redis_backend.py:219`: a submitter that dies between `hset` and `zadd` leaves a queued
  job in no queue.
* `storage/sqlalchemy/repo.py:174`: two workers that have a job at once (after `update_job` or a
  late reap) overwrite each other's `attempts`.
* `idempotency/manager.py:36`: the key is taken before the job is stored; when `enqueue` raises,
  duplicates are answered with an id that names no job, for the whole TTL.  Expired entries are
  replaced when their key comes again and otherwise kept for ever.
* `scheduler/concurrency.py:65`: a release that meets another thread between read and write loses
  one of the two updates; a lost decrement takes a slot away for good.
* `scheduler/dispatcher.py:60`: the dispatcher passes the job type only, so all jobs count for
  tenant and user `"default"` and `per_user_max` (2) bounds everything (`Dims`).
* `broker/fairshare.py:62` and `broker/capacity.py:49`: registering a tenant or a resource again
  resets its counters while jobs hold them; later completions then free what others hold.
* `fanout/manager.py:100`: when a submission raises, the children stored so far run and
  belong to no list.  The list is lost on a restart and `aggregate_parent_status` then answers
  `queued`, as it does for children that are all cancelled.  `timeout` is neither active nor
  failed: with a threshold a verdict may be given while the fallback policy has still to write.
* `admin/service.py:91`: `retry_now` queues a child whatever its status, `cancel` and the retention
  sweep (`maintenance/reaper.py:74`) cancel one that has ended: a parent reported `failed` or
  `succeeded` becomes `running` or `queued` again, and a worker that still has the child in hand
  writes its outcome over theirs (`Rewritten`).
* `broker/fairshare.py:97`: a tenant without a quota is picked whatever the default limits are.
* `callbacks/manager.py:231`: the count is written inside the `try`; when that write is refused
  after a 2xx answer, the request is sent again.  Nothing sends it again after a crash.
  A delivery that began before a new registration writes its count into the new one's row.
* `broker/registry.py:85`: a heartbeat that overlaps `deregister` or `register` puts the older
  record back; it fades after the timeout unless a heartbeat finds it.  `heartbeat` answers True
  when only the local dict has the service.

## Not modelled

`broker/priority.py` is a heap under one lock: sequential code that ordinary tests reach.
`list_services`, `stats` and the other readers change nothing.  Limits, weights and totals stay
what they were when a tenant or a resource is registered again.  In `Admission` every thread gives
back what it was granted, once; what a caller that does not would cause is its own doing.
`Callbacks` treats one call on the table as one step.  The ratios of `next_eligible_tenant` and of
`aggregate_child_statuses` are compared exactly, as fractions; the code divides floats.

HTTP and MCP interfaces, security checks, configuration, logging and metrics translate or
refuse requests and keep no state that a scheduling decision reads.  `StateExtension`s and
retry delays have no caller in the package.  `record_attempt`, `update_progress` and
`store_result` write fields that no decision reads; their effect on `meta` is in `HybridBackend`.
Queue names are left out of the Redis model.  Timestamps in the Redis model are left
out except as the order of the sorted set: the score is `priority * 10^10` minus
milliseconds, so a difference of one in priority outweighs about 115 days of age, and the
model lets it outweigh any age.

## Plan

Done in this order: `JobStore`, `WorkerPool`, `Operations`, `CycleSearch` and its users,
`RedisBackend`; `ClaimQueue` and its refinements, `HybridBackend`, `Submission` and `FanOut`,
`Callbacks`, `Admission`, `ServiceRegistry`; the proofs above, last those whose invariants are sums,
with the sum replaced by the cardinality of a set of units.  What a continuation would take up:

1. Queue names in `RedisBackend`, for the window of three ids that `dequeue` reads before it filters.
2. `broker/priority.py`, as a refinement of a priority queue by a heap with tombstones.
3. A repaired `resource_pool.py` (an entry of `_holders` per acquisition), for which
   `SlotsReturned` should need no exception for overwritten entries.
4. Run timeouts and dead letters of workers over Redis commands.
