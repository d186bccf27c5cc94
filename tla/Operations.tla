----------------------------- MODULE Operations -----------------------------
(***************************************************************************)
(* The operators' side of a running worker pool: AdminService              *)
(* (admin/service.py), BulkAdminOperations (admin/bulk.py) and the         *)
(* MaintenanceReaper (maintenance/reaper.py), acting on the same backend   *)
(* as the workers and taking no lock of theirs between two backend calls.  *)
(***************************************************************************)
EXTENDS WorkerPool

CONSTANTS
  AdminOps,       \* the AdminService methods in use
  SweepKinds,     \* the sweeps in use
  Priorities,     \* the priorities update_job may set
  ClaimTimeout, Ttl, Retention, MaxAge,   \* thresholds, in ticks
  MaxEpisode      \* bound: how often a job may be put in the queue

AllAdminOps == {"submit", "cancel", "retry", "update", "resubmit", "reassign"}

\* A sweep that acts on each job as soon as it has judged it, and a bulk
\* operation, whose filter_jobs judges every job before the first is touched.
ScanKinds == {"run_sweep", "clear_stuck", "fail_stuck", "clear_old"}
BulkKinds == {"bulk_cancel_queued", "bulk_retry_failed", "bulk_fail_running"}

ASSUME OperationsType ==
  /\ AdminOps \subseteq AllAdminOps
  /\ SweepKinds \subseteq ScanKinds \cup BulkKinds
  /\ Priorities \subseteq Int
  /\ {ClaimTimeout, Ttl, Retention, MaxAge, MaxEpisode} \subseteq Nat

VARIABLES
  stamps,    \* timestamps as the backend returns them: with time zone, or naive
  updating,  \* jobs whose update_job has set the priority and not released them
  kind,      \* the sweep in progress, None between sweeps
  at,        \* the time the sweep took before it read the jobs
  view,      \* what all_jobs returned: a copy of every job
  todo,      \* jobs not judged yet
  verdict    \* the status the sweep is about to write, None if none

sweepVars == <<kind, at, view, todo, verdict>>
opVars == <<vars, sweepVars, updating, stamps>>

JobView == [status : JobStatus \cup {"absent"}, created_at : Time, updated_at : Time]

SweepTypeOK == /\ stamps \in {"aware", "naive"}
               /\ updating \in SUBSET Jobs
               /\ kind \in SweepKinds \cup {None}
               /\ at \in Time
               /\ view \in [Jobs -> JobView]
               /\ todo \in SUBSET Jobs
               /\ verdict \in [Jobs -> JobStatus \cup {None}]

Copy(j) == [status |-> status[j], created_at |-> created_at[j], updated_at |-> updated_at[j]]
NoView == [j \in Jobs |-> [status |-> "absent", created_at |-> 0, updated_at |-> 0]]
NoVerdict == [j \in Jobs |-> None]

OpInit == /\ Init
          /\ stamps \in {"aware", "naive"} /\ (stamps = "naive" => Backend = "sql")
          /\ updating = {}
          /\ kind = None
          /\ at = 0
          /\ view = NoView
          /\ todo = {}
          /\ verdict = NoVerdict

-----------------------------------------------------------------------------
\* AdminService: one backend call each, save for update_job.

\* submit_job enqueues without passing by JobQueue, hence without the tracker.
AdminSubmit(j) ==
  /\ "submit" \in AdminOps
  /\ j \in Absent /\ Room
  /\ Request[j].depends_on \subseteq Stored
  /\ enqueue(j, Request[j])
  /\ UNCHANGED <<poolVars, edges, workerVars>>

\* cancel_job, delete_job and JobQueue.cancel.
CancelJob(j) ==
  /\ "cancel" \in AdminOps
  /\ update_status(j, "cancelled")
  /\ UNCHANGED <<poolVars, edges, workerVars>>

\* retry_now and reschedule_job.
RetryNow(j) ==
  /\ "retry" \in AdminOps
  /\ episode[j] < MaxEpisode
  /\ update_status(j, "queued")
  /\ UNCHANGED <<poolVars, edges, workerVars>>

\* update_job sets the priority of the object get returned, the job itself in
\* the memory backend and a copy in the SQL one, and then releases the job,
\* whatever became of it meanwhile.
UpdateJob(j, pri) ==
  /\ "update" \in AdminOps
  /\ j \in Stored \ updating
  /\ attr' = IF Backend = "memory" THEN [attr EXCEPT ![j].priority = pri] ELSE attr
  /\ updating' = updating \cup {j}
  /\ UNCHANGED <<status, arrival, claimed_by, created_at, updated_at, now, episode, succeeded>>
  /\ UNCHANGED <<poolVars, edges, workerVars>>

UpdateReleases(j) ==
  /\ j \in updating
  /\ episode[j] < MaxEpisode
  /\ requeue(j)
  /\ updating' = updating \ {j}
  /\ UNCHANGED <<poolVars, edges, workerVars>>

\* resubmit_job and reassign_queue: a clone under a fresh id; the original
\* stays as it is.
ResubmitJob(j, k) ==
  /\ "resubmit" \in AdminOps
  /\ j \in Stored /\ k \in Absent /\ Room
  /\ enqueue(k, CloneInto(attr[j], attr[j].queue_name))
  /\ UNCHANGED <<poolVars, edges, workerVars>>

ReassignQueue(j, k, q) ==
  /\ "reassign" \in AdminOps
  /\ j \in Stored /\ k \in Absent /\ Room
  /\ enqueue(k, CloneInto(attr[j], q))
  /\ UNCHANGED <<poolVars, edges, workerVars>>

UpdateStep == \E j \in Jobs : UpdateReleases(j) \/ \E pri \in Priorities : UpdateJob(j, pri)

AdminStep == \E j \in Jobs :
  \/ AdminSubmit(j)
  \/ CancelJob(j)
  \/ RetryNow(j)
  \/ \E k \in Jobs : ResubmitJob(j, k) \/ \E q \in Queues : ReassignQueue(j, k, q)

-----------------------------------------------------------------------------
\* Sweeps.

\* A job counts as old one tick late.
OlderLate(t, threshold) == at - t > threshold + 1

Older(t, threshold) == at - t > threshold

\* run_sweep's tests in their order: stuck, then TTL, then retention.
RunSweepVerdict(x) ==
  IF x.status = "running" /\ Older(x.updated_at, ClaimTimeout) THEN "failed"
  ELSE IF x.status \in {"queued", "running"} /\ Older(x.created_at, Ttl) THEN "ttl_expired"
  ELSE IF Older(x.updated_at, Retention) THEN "cancelled"
  ELSE None

\* clear_stuck_jobs with the action "cancel", its default, or any other.
ClearStuckVerdict(x, target) ==
  IF x.status = "running" /\ Older(x.updated_at, ClaimTimeout) THEN target ELSE None

ClearOldVerdict(x) ==
  IF Older(x.updated_at, MaxAge) /\ x.status \notin {"succeeded", "failed", "cancelled"}
  THEN "cancelled" ELSE None

BulkVerdict(x) ==
  CASE kind = "bulk_cancel_queued" /\ x.status = "queued" -> "cancelled"
    [] kind = "bulk_retry_failed" /\ x.status = "failed" -> "queued"
    [] kind = "bulk_fail_running" /\ x.status = "running" -> "failed"
    [] OTHER -> None

Verdict(x) == CASE kind = "run_sweep" -> RunSweepVerdict(x)
                [] kind = "clear_stuck" -> ClearStuckVerdict(x, "cancelled")
                [] kind = "fail_stuck" -> ClearStuckVerdict(x, "failed")
                [] kind = "clear_old" -> ClearOldVerdict(x)
                [] OTHER -> BulkVerdict(x)

SweepBegin ==
  /\ kind = None
  /\ kind' \in SweepKinds
  /\ at' = now
  /\ view' = IF Backend = "sql" THEN [j \in Jobs |-> Copy(j)] ELSE NoView
  /\ todo' = Stored
  /\ UNCHANGED <<vars, verdict>>

\* The clock the sweeps compare with knows its time zone.  SQLite and MySQL
\* return timestamps without one, and their difference is a TypeError, which
\* ends the sweep, at every job that run_sweep and clear_old_jobs come to, the
\* running ones for clear_stuck_jobs.
Incomparable(x) ==
  /\ stamps = "naive"
  /\ \/ kind \in {"run_sweep", "clear_old"}
     \/ kind \in {"clear_stuck", "fail_stuck"} /\ x.status = "running"

SweepRaises(j) ==
  /\ j \in todo
  /\ verdict = NoVerdict
  /\ Incomparable(view[j])
  /\ kind' = None /\ at' = 0 /\ view' = NoView /\ todo' = {}
  /\ UNCHANGED <<vars, verdict>>

\* The memory backend's list holds the jobs themselves, so their fields are
\* read when the loop comes to them; the SQL rows were copied at the start.
SweepJudge(j) ==
  /\ j \in todo
  /\ kind \in ScanKinds => verdict = NoVerdict
  /\ ~Incomparable(view[j])
  /\ todo' = todo \ {j}
  /\ verdict' = [verdict EXCEPT ![j] = Verdict(IF Backend = "sql" THEN view[j] ELSE Copy(j))]
  /\ UNCHANGED <<vars, kind, at, view>>

SweepApply(j) ==
  /\ verdict[j] # None
  /\ kind \in BulkKinds => todo = {}
  /\ verdict[j] = "queued" => episode[j] < MaxEpisode
  /\ update_status(j, verdict[j])
  /\ verdict' = [verdict EXCEPT ![j] = None]
  /\ UNCHANGED <<poolVars, edges, workerVars, kind, at, view, todo>>

\* A bound, not a step of the code: a retry past MaxEpisode is dropped.
SweepSkip(j) ==
  /\ verdict[j] = "queued"
  /\ kind \in BulkKinds => todo = {}
  /\ episode[j] >= MaxEpisode
  /\ verdict' = [verdict EXCEPT ![j] = None]
  /\ UNCHANGED <<vars, kind, at, view, todo>>

SweepEnd ==
  /\ kind # None
  /\ todo = {} /\ verdict = NoVerdict
  /\ kind' = None /\ at' = 0 /\ view' = NoView
  /\ UNCHANGED <<vars, todo, verdict>>

SweepStep == \/ SweepBegin
             \/ \E j \in Jobs : SweepJudge(j) \/ SweepRaises(j) \/ SweepApply(j) \/ SweepSkip(j)
             \/ SweepEnd

-----------------------------------------------------------------------------
\* The worker's process is killed.  Only a table outlives it; the slots of its
\* jobs were none, as the SQL backend keeps no resources.
Crash(w) == /\ Backend = "sql"
            /\ pc[w] \notin {"stopped", "dead"}
            /\ Goto(w, "dead")
            /\ cur' = [cur EXCEPT ![w] = None]
            /\ unchecked' = [unchecked EXCEPT ![w] = {}]
            /\ raising' = [raising EXCEPT ![w] = FALSE]
            /\ claimEp' = [claimEp EXCEPT ![w] = 0]
            /\ UNCHANGED <<storeVars, poolVars, edges, sweepVars, updating, stamps>>

\* Only sweeps read the clock.
Clock == Tick /\ UNCHANGED <<poolVars, edges, workerVars, sweepVars, updating, stamps>>

OpNext == \/ WorkerNext /\ UNCHANGED <<sweepVars, updating, stamps>>
          \/ AdminStep /\ UNCHANGED <<sweepVars, updating, stamps>>
          \/ UpdateStep /\ UNCHANGED <<sweepVars, stamps>>
          \/ SweepStep /\ UNCHANGED <<updating, stamps>>
          \/ \E w \in Workers : Crash(w)
          \/ Clock

OpSpec == OpInit /\ [][OpNext]_opVars

\* The maintenance sweep is on a schedule, also when other sweeps run, and the
\* clock does not stop.
FairOpSpec == /\ OpSpec
              /\ \A w \in Workers : WF_opVars(RunOnce(w) /\ UNCHANGED <<sweepVars, updating, stamps>>)
              /\ WF_opVars(SweepStep /\ UNCHANGED <<updating, stamps>>)
              /\ SF_opVars(SweepBegin /\ kind' = "run_sweep" /\ UNCHANGED <<updating, stamps>>)
              /\ WF_opVars(Clock)
-----------------------------------------------------------------------------
\* Properties.

\* Type correctness of workers and sweeps together.
OpTypeOK == TypeOK /\ SweepTypeOK

\* A job left in running by a worker that is gone is moved out of running by a
\* sweep: run_sweep looks at every job and compares updated_at, which only a
\* claim, a heartbeat or a status change renews.  It holds where timestamps keep
\* their time zone: in the memory backend, and in PostgreSQL among the SQL ones.
\* The clock is bounded, so only jobs whose timeout falls before its last tick
\* are spoken of.
StuckJobRecovered ==
  \A j \in Jobs : (stamps = "aware" /\ status[j] = "running" /\ updated_at[j] + ClaimTimeout < MaxNow)
                    ~> (status[j] # "running" \/ updated_at[j] + ClaimTimeout >= MaxNow)
=============================================================================
