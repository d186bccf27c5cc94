--------------------------- MODULE HybridBackend ---------------------------
(***************************************************************************)
(* backends/hybrid_backend.py: every method calls a SQL and a Redis        *)
(* backend, one after the other, and undoes nothing when the second call   *)
(* does not come.  The Redis half is RedisBackend, command by command; of  *)
(* the SQL half a statement is one step, and the methods that read the     *)
(* meta column and write it back (storage/sqlalchemy/repo.py) are two.     *)
(*                                                                         *)
(* Of meta only the attempts counter is kept: it is the one entry whose    *)
(* new value depends on the old one.                                       *)
(***************************************************************************)
EXTENDS RedisBackend

VARIABLES
  row,        \* the status column, "absent" without a row
  attempts,   \* meta["attempts"]
  due,        \* the SQL or Redis call each client has still to make
  meta,       \* the attempts a client has read and not written back yet
  recorded,   \* history: record_attempt calls that returned
  torn,       \* history: jobs a method was left half done on, or that two
              \* methods changed at the same time
  shared      \* history: jobs that two workers had in hand at the same time

hybridVars == <<row, attempts, due, meta, recorded, torn, shared>>
allVars == <<vars, hybridVars>>

Nothing == [call |-> "none", job |-> None, status |-> None]
Calls == {"none", "redis_enqueue", "claim_read", "claim_write", "record_write", "put_write", "update"}

HybridTypeOK ==
  /\ TypeOK
  /\ row \in [Jobs -> JobStatus \cup {"absent"}]
  /\ attempts \in [Jobs -> Nat]
  /\ due \in [Clients -> [call : Calls, job : Jobs \cup {None}, status : JobStatus \cup {None}]]
  /\ \A c \in Clients : due[c].call # "none" => due[c].job \in Jobs
  /\ meta \in [Workers -> Nat]
  /\ recorded \in [Jobs -> Nat]
  /\ torn \subseteq Jobs /\ shared \subseteq Jobs

HybridInit ==
  /\ Init
  /\ row = [j \in Jobs |-> "absent"]
  /\ attempts = [j \in Jobs |-> 0]
  /\ due = [c \in Clients |-> Nothing]
  /\ meta = [w \in Workers |-> 0]
  /\ recorded = [j \in Jobs |-> 0]
  /\ torn = {} /\ shared = {}

-----------------------------------------------------------------------------

Owe(c, call, j, s) == due' = [due EXCEPT ![c] = [call |-> call, job |-> j, status |-> s]]
Paid(c) == due' = [due EXCEPT ![c] = Nothing]
Forget(w) == meta' = [meta EXCEPT ![w] = 0]
Free(c) == due[c].call = "none"

\* Client c has begun a method that changes j and has not ended it.
InMethod(c, j) == Changing(c, j) \/ due[c].job = j

\* History: what the step that c takes on j does to torn and shared.
Tears(c, j) == IF \E d \in Clients \ {c} : InMethod(d, j) THEN torn \cup {j} ELSE torn
InHand(w, j) == Owns(w, j) \/ due[w].job = j
Shares(c, j) == IF \E w \in Workers \ {c} : InHand(w, j) THEN shared \cup {j} ELSE shared

-----------------------------------------------------------------------------
\* enqueue: the SQL insert, then the Redis method.

\* enqueue in the opposite order: the job is in Redis first.
EnqueueSqlLate(c, j) ==
  /\ Free(c)
  /\ row[j] = "absent"
  /\ EnqueueHset(c, j)
  /\ Owe(c, "update", j, "queued")
  /\ UNCHANGED <<row, attempts, meta, recorded, torn, shared>>

EnqueueSql(c, j) ==
  /\ Free(c) /\ pc[c] = "idle" /\ "enqueue" \in CallerOps
  /\ row[j] = "absent"
  /\ row' = [row EXCEPT ![j] = "queued"]
  /\ Owe(c, "redis_enqueue", j, None)
  /\ torn' = Tears(c, j)
  /\ UNCHANGED <<vars, attempts, meta, recorded, shared>>

EnqueueRedis(c) ==
  /\ due[c].call = "redis_enqueue"
  /\ EnqueueHset(c, due[c].job)
  /\ Paid(c)
  /\ UNCHANGED <<row, attempts, meta, recorded, torn, shared>>

\* The commands of a Redis method after its first one, and dequeue, which asks
\* Redis alone.
RedisStep(c) ==
  /\ Free(c)
  /\ \/ EnqueueZadd(c) \/ ReleaseHset(c) \/ ReleaseZadd(c) \/ ReleaseDelete(c)
     \/ c \in Workers /\ (Dequeue(c) \/ DequeueEmpty(c) \/ \E j \in Jobs : DequeueGet(c, j))
  /\ UNCHANGED hybridVars

-----------------------------------------------------------------------------
\* claim: Redis decides, and the answer of SQL is not looked at.

ClaimRedis(w) ==
  /\ Free(w)
  /\ ClaimWon(w)
  /\ Owe(w, "claim_read", cur[w], None)
  /\ torn' = Tears(w, cur[w]) /\ shared' = Shares(w, cur[w])
  /\ UNCHANGED <<row, attempts, meta, recorded>>

\* set_claimed: SELECT meta, then an UPDATE that finds the row queued or not.
ClaimSqlRead(w) ==
  /\ due[w].call = "claim_read"
  /\ meta' = [meta EXCEPT ![w] = attempts[due[w].job]]
  /\ Owe(w, "claim_write", due[w].job, None)
  /\ UNCHANGED <<vars, row, attempts, recorded, torn, shared>>

\* set_claimed that starts from an empty meta.
ClaimSqlFresh(w) == LET j == due[w].job IN
  /\ due[w].call = "claim_write"
  /\ row' = IF row[j] = "queued" THEN [row EXCEPT ![j] = "running"] ELSE row
  /\ attempts' = IF row[j] = "queued" THEN [attempts EXCEPT ![j] = 0] ELSE attempts
  /\ Paid(w) /\ Forget(w)
  /\ UNCHANGED <<vars, recorded, torn, shared>>

ClaimSqlWrite(w) == LET j == due[w].job IN
  /\ due[w].call = "claim_write"
  /\ row' = IF row[j] = "queued" THEN [row EXCEPT ![j] = "running"] ELSE row
  /\ attempts' = IF row[j] = "queued" THEN [attempts EXCEPT ![j] = meta[w]] ELSE attempts
  /\ Paid(w) /\ Forget(w)
  /\ UNCHANGED <<vars, recorded, torn, shared>>

ClaimRefused(w) == Free(w) /\ ClaimLost(w) /\ UNCHANGED hybridVars

\* The reply of the script is lost: Redis may run the job, SQL does not know.
ClaimUnanswered(w) ==
  /\ Free(w)
  /\ ClaimError(w)
  /\ torn' = IF status' # status THEN torn \cup {cur[w]} ELSE torn
  /\ UNCHANGED <<row, attempts, due, meta, recorded, shared>>

\* The handler has an attempt, its progress or its result recorded (SQL only):
\* each method reads the whole meta and writes it back with its own entry set.
MetaRead(w, call) ==
  /\ Free(w) /\ pc[w] = "running"
  /\ call = "record_write" => recorded[cur[w]] < MaxEpisode
  /\ meta' = [meta EXCEPT ![w] = attempts[cur[w]]]
  /\ Owe(w, call, cur[w], None)
  /\ UNCHANGED <<vars, row, attempts, recorded, torn, shared>>

\* update_progress and store_result: attempts goes back as it was read.
PutMetaWrite(w) ==
  /\ due[w].call = "put_write"
  /\ attempts' = [attempts EXCEPT ![due[w].job] = meta[w]]
  /\ Paid(w) /\ Forget(w)
  /\ UNCHANGED <<vars, row, recorded, torn, shared>>

RecordAttemptWrite(w) == LET j == due[w].job IN
  /\ due[w].call = "record_write"
  /\ attempts' = [attempts EXCEPT ![j] = meta[w] + 1]
  /\ recorded' = [recorded EXCEPT ![j] = @ + 1]
  /\ Paid(w) /\ Forget(w)
  /\ UNCHANGED <<vars, row, torn, shared>>

HandlerDone(w) ==
  /\ Free(w)
  /\ HandlerEnds(w)
  /\ torn' = Tears(w, cur[w])
  /\ UNCHANGED <<row, attempts, due, meta, recorded, shared>>

-----------------------------------------------------------------------------
\* update_status: the Redis method, then SQL; release: SQL, then Redis.

UpdateRedis(c) ==
  /\ Free(c)
  /\ UpdateHset(c) \/ UpdateZrem(c) \/ UpdateDelete(c)
  /\ IF pc'[c] = "idle" THEN Owe(c, "update", cur[c], target[c]) ELSE UNCHANGED due
  /\ UNCHANGED <<row, attempts, meta, recorded, torn, shared>>

\* The SQL half of update_status, lost when Redis answered.
UpdateSqlForgotten(c) ==
  /\ due[c].call = "update"
  /\ Paid(c)
  /\ UNCHANGED <<vars, row, attempts, meta, recorded, torn, shared>>

UpdateSql(c) ==
  /\ due[c].call = "update"
  /\ row' = [row EXCEPT ![due[c].job] = due[c].status]
  /\ Paid(c)
  /\ UNCHANGED <<vars, attempts, meta, recorded, torn, shared>>

CallerChanges(c, j) ==
  /\ Free(c)
  /\ \/ (CallerCancels(c, j) \/ CallerRetries(c, j)) /\ UNCHANGED row
     \/ CallerUpdates(c, j) /\ row' = [row EXCEPT ![j] = "queued"]
  /\ torn' = Tears(c, j)
  /\ UNCHANGED <<attempts, due, meta, recorded, shared>>

\* A job that SQL has and Redis has not: only the SQL half has an effect.
CallerChangesSqlOnly(c, j) ==
  /\ Free(c) /\ pc[c] = "idle"
  /\ row[j] # "absent" /\ status[j] = "absent"
  /\ \/ "cancel" \in CallerOps /\ row' = [row EXCEPT ![j] = "cancelled"]
     \/ {"retry", "update"} \cap CallerOps # {} /\ row' = [row EXCEPT ![j] = "queued"]
  /\ torn' = Tears(c, j)
  /\ UNCHANGED <<vars, attempts, due, meta, recorded, shared>>

\* A client dies, or an exception of one store ends the method: the calls it
\* owes are never made.
Abandon(c) ==
  /\ c \in Crashing
  /\ pc[c] # "idle" \/ ~Free(c)
  /\ Done(c) /\ UNCHANGED store
  /\ Paid(c)
  /\ IF c \in Workers THEN Forget(c) ELSE UNCHANGED meta
  /\ torn' = torn \cup {j \in Jobs : InMethod(c, j)}
  /\ UNCHANGED <<row, attempts, recorded, shared>>

HybridNext ==
  \/ \E c \in Callers, j \in Jobs : \/ EnqueueSql(c, j)
                                    \/ CallerChanges(c, j)
                                    \/ CallerChangesSqlOnly(c, j)
  \/ \E w \in Workers : \/ ClaimRedis(w) \/ ClaimRefused(w) \/ ClaimUnanswered(w)
                        \/ ClaimSqlRead(w) \/ ClaimSqlWrite(w)
                        \/ RecordAttemptWrite(w) \/ PutMetaWrite(w)
                        \/ MetaRead(w, "record_write") \/ MetaRead(w, "put_write")
                        \/ HandlerDone(w)
  \/ \E c \in Clients : EnqueueRedis(c) \/ RedisStep(c) \/ UpdateRedis(c) \/ UpdateSql(c)
                        \/ Abandon(c)
  \/ \E j \in Jobs : LeaseExpires(j) /\ UNCHANGED hybridVars

HybridSpec == HybridInit /\ [][HybridNext]_allVars
-----------------------------------------------------------------------------
\* Properties.

\* "SQL for durable state": what Redis hands out has a row, also when the
\* submitter died between its two writes.
DurableBeforeDispatch == \A j \in Jobs : status[j] # "absent" => row[j] # "absent"

\* The two stores part only over a method that was left half done, a lost
\* reply or two methods at once on the same job; any other
\* sequence of claims, outcomes, cancellations and releases leaves them equal.
StoresAgree ==
  \A j \in Jobs \ torn : (\A c \in Clients : ~InMethod(c, j)) => row[j] = status[j]

\* The read and the write of the meta column are two statements, yet no
\* attempt is lost as long as no two workers have the job in hand at once:
\* claims that follow one another keep what earlier ones recorded.
AttemptsKept == \A j \in Jobs \ shared : attempts[j] = recorded[j]

\* A job that runs for the worker of its latest claim is protected by that
\* worker's lease key until the key's own TTL removes it: unless methods on the
\* job overlapped, no DEL of an earlier outcome, cancellation or release comes
\* late enough to take the lease away.
LeaseHeld ==
  \A w \in Workers : \A j \in Jobs \ torn :
    status[j] = "running" /\ pc[w] = "running" /\ cur[w] = j /\ claimEp[w] = episode[j]
      => lease[j] = w \/ <<j, episode[j]>> \in expired
=============================================================================
