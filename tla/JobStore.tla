------------------------------ MODULE JobStore ------------------------------
(***************************************************************************)
(* The in-process and the SQL queue backends: backends/memory_backend.py   *)
(* (one Lock around every method) and backends/sql_backend.py over         *)
(* storage/sqlalchemy/repo.py (one transaction per method).  Either way a  *)
(* method is one atomic step.  No backend consults JobStateMachine, so     *)
(* update_status and release are unconditional, as they are here.          *)
(*                                                                         *)
(* Three differences between the two are kept: the SQL table has no column *)
(* for resources and depends_on, SQL clears claimed_by on every status     *)
(* change, and SQL hands out copies where memory hands out live objects.   *)
(***************************************************************************)
EXTENDS JobModel

CONSTANTS
  Backend,   \* "memory" or "sql"
  Request    \* the attributes the submitter gives to each job

ASSUME BackendKind == Backend \in {"memory", "sql"}
ASSUME RequestType == Request \in [Jobs -> JobAttr]

VARIABLES
  status,      \* JobStatus of each stored job, "absent" for an id not in use
  attr,        \* the job's attributes
  arrival,     \* its place in created_at order, 0 when absent
  claimed_by,
  created_at, updated_at,
  now,         \* the wall clock every process reads
  episode,     \* history: how many times the job was put in the queue
  succeeded    \* history: the jobs that were ever marked succeeded

storeVars == <<status, attr, arrival, claimed_by, created_at, updated_at, now,
               episode, succeeded>>

StoreTypeOK ==
  /\ status \in [Jobs -> JobStatus \cup {"absent"}]
  /\ attr \in [Jobs -> JobAttr]
  /\ arrival \in [Jobs -> Nat]
  /\ claimed_by \in [Jobs -> Workers \cup {None}]
  /\ created_at \in [Jobs -> Time]
  /\ updated_at \in [Jobs -> Time]
  /\ now \in Time
  /\ episode \in [Jobs -> Nat]
  /\ succeeded \in SUBSET Jobs

StoreInit ==
  /\ status = [j \in Jobs |-> "absent"]
  /\ attr = Request
  /\ arrival = [j \in Jobs |-> 0]
  /\ claimed_by = [j \in Jobs |-> None]
  /\ created_at = [j \in Jobs |-> 0]
  /\ updated_at = [j \in Jobs |-> 0]
  /\ now = 0
  /\ episode = [j \in Jobs |-> 0]
  /\ succeeded = {}

Absent == {j \in Jobs : status[j] = "absent"}
Stored == {j \in Jobs : status[j] # "absent"}

\* Job.from_request followed by backend.enqueue.
enqueue(j, a) ==
  /\ status' = [status EXCEPT ![j] = "queued"]
  /\ attr' = [attr EXCEPT ![j] = a]
  /\ arrival' = [arrival EXCEPT ![j] = Cardinality(Stored) + 1]
  /\ claimed_by' = [claimed_by EXCEPT ![j] = None]
  /\ created_at' = [created_at EXCEPT ![j] = now]
  /\ updated_at' = [updated_at EXCEPT ![j] = now]
  /\ episode' = [episode EXCEPT ![j] = @ + 1]
  /\ UNCHANGED <<now, succeeded>>

InQueue(q) == {j \in Jobs : status[j] = "queued" /\ (q = None \/ attr[j].queue_name = q)}

Before(i, j) == \/ attr[i].priority > attr[j].priority
                \/ attr[i].priority = attr[j].priority /\ arrival[i] < arrival[j]

\* dequeue(limit=1, queue_name=q): the first queued job in priority-then-age
\* order, as a set of at most one job.
dequeue(q) == {j \in InQueue(q) : \A i \in InQueue(q) \ {j} : Before(j, i)}

\* What a job read back from the store says of itself: row_to_job has no
\* resources or depends_on to give.
StoredResources(j) == IF Backend = "sql" THEN [p \in Pools |-> 0] ELSE attr[j].resources
StoredDependsOn(j) == IF Backend = "sql" THEN {} ELSE attr[j].depends_on

\* claim that does not look at the status it overwrites.
ClaimAnyStatus(w, j) ==
  /\ status[j] # "absent"
  /\ status' = [status EXCEPT ![j] = "running"]
  /\ claimed_by' = [claimed_by EXCEPT ![j] = w]
  /\ updated_at' = [updated_at EXCEPT ![j] = now]
  /\ UNCHANGED <<attr, arrival, created_at, now, episode, succeeded>>

\* claim that records the job where the worker belongs.
ClaimSwapped(w, j) ==
  /\ status[j] = "queued"
  /\ status' = [status EXCEPT ![j] = "running"]
  /\ claimed_by' = [claimed_by EXCEPT ![j] = j]
  /\ updated_at' = [updated_at EXCEPT ![j] = now]
  /\ UNCHANGED <<attr, arrival, created_at, now, episode, succeeded>>

\* claim: granted to the first caller that still finds the job queued.
claim(w, j) ==
  /\ status[j] = "queued"
  /\ status' = [status EXCEPT ![j] = "running"]
  /\ claimed_by' = [claimed_by EXCEPT ![j] = w]
  /\ updated_at' = [updated_at EXCEPT ![j] = now]
  /\ UNCHANGED <<attr, arrival, created_at, now, episode, succeeded>>

\* update_status / set_status: unconditional on the status it replaces.
update_status(j, s) ==
  /\ status[j] # "absent"
  /\ status' = [status EXCEPT ![j] = s]
  /\ claimed_by' = IF Backend = "sql" THEN [claimed_by EXCEPT ![j] = None] ELSE claimed_by
  /\ updated_at' = [updated_at EXCEPT ![j] = now]
  /\ episode' = IF s = "queued" THEN [episode EXCEPT ![j] = @ + 1] ELSE episode
  /\ succeeded' = IF s = "succeeded" THEN succeeded \cup {j} ELSE succeeded
  /\ UNCHANGED <<attr, arrival, created_at, now>>

\* backend.release: back to the queue, whatever the job was doing.
requeue(j) ==
  /\ status[j] # "absent"
  /\ status' = [status EXCEPT ![j] = "queued"]
  /\ claimed_by' = [claimed_by EXCEPT ![j] = None]
  /\ updated_at' = [updated_at EXCEPT ![j] = now]
  /\ episode' = [episode EXCEPT ![j] = @ + 1]
  /\ UNCHANGED <<attr, arrival, created_at, now, succeeded>>

heartbeat(j) ==
  /\ updated_at' = [updated_at EXCEPT ![j] = now]
  /\ UNCHANGED <<status, attr, arrival, claimed_by, created_at, now, episode, succeeded>>

\* The wall clock advances; nothing in the store moves with it.
Tick == /\ now < MaxNow
        /\ now' = now + 1
        /\ UNCHANGED <<status, attr, arrival, claimed_by, created_at, updated_at,
                       episode, succeeded>>
=============================================================================
