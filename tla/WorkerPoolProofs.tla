-------------------------- MODULE WorkerPoolProofs --------------------------
(***************************************************************************)
(* Proofs about the worker pool with its administrators and sweeps, for    *)
(* any number of jobs, workers, pools and queues.                          *)
(***************************************************************************)
EXTENDS Operations, FiniteSetTheorems, TLAPS

-----------------------------------------------------------------------------
(* The backend's methods keep the store well typed.                        *)

\* enqueue, whatever the attributes, adds a well-typed job.
LEMMA EnqueueType ==
  ASSUME StoreTypeOK, NEW j \in Jobs, NEW x \in JobAttr, enqueue(j, x)
  PROVE  StoreTypeOK'
<1>1. Cardinality(Stored) \in Nat
  <2>1. IsFiniteSet(Stored)
    BY JobsFinite, FS_Subset DEF JobsFinite, Stored
  <2> QED  BY <2>1, FS_CardinalityType
<1>2. Cardinality(Stored) + 1 \in Nat
  BY <1>1
<1> QED
  BY <1>2 DEF StoreTypeOK, enqueue, JobStatus, Time

\* claim keeps the store well typed.
LEMMA ClaimType ==
  ASSUME StoreTypeOK, NEW w \in Workers, NEW j \in Jobs, claim(w, j)
  PROVE  StoreTypeOK'
BY DEF StoreTypeOK, claim, JobStatus, Time

\* update_status keeps the store well typed, for any target status.
LEMMA UpdateStatusType ==
  ASSUME StoreTypeOK, NEW j \in Jobs, NEW s \in JobStatus, update_status(j, s)
  PROVE  StoreTypeOK'
BY DEF StoreTypeOK, update_status, Time

\* heartbeat only renews updated_at.
LEMMA HeartbeatType ==
  ASSUME StoreTypeOK, NEW j \in Jobs, heartbeat(j)
  PROVE  StoreTypeOK'
BY DEF StoreTypeOK, heartbeat, Time

\* release keeps the store well typed.
LEMMA RequeueType ==
  ASSUME StoreTypeOK, NEW j \in Jobs, requeue(j)
  PROVE  StoreTypeOK'
<1>1. /\ status' \in [Jobs -> JobStatus \cup {"absent"}]
      /\ claimed_by' \in [Jobs -> Workers \cup {None}]
  BY DEF StoreTypeOK, requeue, JobStatus
<1>2. /\ updated_at' \in [Jobs -> Time]
      /\ episode' \in [Jobs -> Nat]
  BY DEF StoreTypeOK, requeue
<1> QED
  BY <1>1, <1>2 DEF StoreTypeOK, requeue, Time

\* The clock stays within its bound.
LEMMA TickType ==
  ASSUME StoreTypeOK, Tick
  PROVE  StoreTypeOK'
BY MaxNowIsNat DEF StoreTypeOK, Tick, Time, MaxNowIsNat

\* A clone asks for nothing and waits for nothing.
LEMMA CloneType ==
  ASSUME NEW x \in JobAttr, NEW q \in Queues
  PROVE  /\ CloneInto(x, q) \in JobAttr
         /\ CloneInto(x, q).depends_on = {}
BY DEF CloneInto, JobAttr

-----------------------------------------------------------------------------
(* Type correctness.                                                       *)

\* ResourcePool.acquire and release keep _used and _holders well typed.
LEMMA PoolType ==
  ASSUME PoolTypeOK, NEW j \in Jobs
  PROVE  /\ \A res \in [Pools -> Nat] : acquire(j, res) => PoolTypeOK'
         /\ release(j) => PoolTypeOK'
<1>1. ASSUME NEW res \in [Pools -> Nat], acquire(j, res)  PROVE PoolTypeOK'
  <2>1. amiss' \in SUBSET (Mishaps \X Jobs)
    <3>1. CASE amiss' = amiss  BY <3>1 DEF PoolTypeOK
    <3>2. CASE amiss' = amiss \cup {<<"overwritten", j>>}
      <4>1. <<"overwritten", j>> \in Mishaps \X Jobs
        BY DEF Mishaps
      <4> QED  BY <3>2, <4>1 DEF PoolTypeOK
    <3> QED  BY <1>1, <3>1, <3>2 DEF acquire, poolVars
  <2>2. used' \in [Pools -> Nat] /\ holders' \in [Jobs -> [Pools -> Nat] \cup {None}]
    BY <1>1 DEF PoolTypeOK, acquire, poolVars
  <2> QED  BY <2>1, <2>2 DEF PoolTypeOK
<1>2. ASSUME release(j)  PROVE PoolTypeOK'
  <2>1. CASE holders[j] = None
    BY <1>2, <2>1 DEF PoolTypeOK, release
  <2>2. CASE holders[j] # None
    <3>1. holders[j] \in [Pools -> Nat]
      BY <2>2 DEF PoolTypeOK
    <3> QED  BY <1>2, <2>2, <3>1 DEF PoolTypeOK, release
  <2> QED  BY <2>1, <2>2
<1> QED  BY <1>1, <1>2

\* A mishap is noted for a job.
LEMMA MishapType ==
  ASSUME PoolTypeOK, NEW j \in Jobs, NEW m \in Mishaps, amiss' = amiss \cup {<<m, j>>},
         UNCHANGED <<used, holders>>
  PROVE  PoolTypeOK'
<1>1. <<m, j>> \in Mishaps \X Jobs
  OBVIOUS
<1> QED  BY <1>1 DEF PoolTypeOK

\* Ending run_once, by release_job or by giving up, keeps the workers well typed.
LEMMA EndType ==
  ASSUME WorkerTypeOK, NEW w \in Workers, EndRun(w) \/ GiveUp(w)
  PROVE  WorkerTypeOK'
<1>1. CASE EndRun(w)
  BY <1>1 DEF WorkerTypeOK, EndRun, Goto, PC
<1>2. CASE GiveUp(w)
  BY <1>2 DEF WorkerTypeOK, GiveUp, Goto, PC
<1> QED  BY <1>1, <1>2

\* What the backend says of a job is well typed.
LEMMA StoredTypes ==
  ASSUME TypeOK, NEW j \in Jobs
  PROVE  /\ StoredResources(j) \in [Pools -> Nat]
         /\ StoredDependsOn(j) \in SUBSET Jobs
         /\ attr[j] \in JobAttr
         /\ attr[j].job_type \in Types
         /\ attr[j].queue_name \in Queues
         /\ attr[j].depends_on \in SUBSET Jobs
BY DEF TypeOK, StoreTypeOK, StoredResources, StoredDependsOn, JobAttr

\* Every step of a worker keeps the types.
LEMMA RunOnceType ==
  ASSUME TypeOK, NEW w \in Workers, RunOnce(w)
  PROVE  TypeOK'
<1> USE DEF TypeOK
<1>a. pc[w] \notin {"idle", "stopped", "dead"} => cur[w] \in Jobs
  BY DEF WorkerTypeOK
<1>s. storeVars' = storeVars => StoreTypeOK'
  BY DEF StoreTypeOK, storeVars
<1>p. poolVars' = poolVars => PoolTypeOK'
  BY DEF PoolTypeOK, poolVars
<1>1. CASE SelectJob(w)
  <2>1. PICK j \in dequeue(WorkerQueue[w]) :
          /\ cur' = [cur EXCEPT ![w] = j]
          /\ unchecked' = [unchecked EXCEPT ![w] = IF StoredDependsOn(j) = {} THEN {}
                                                   ELSE edges[j]]
          /\ Goto(w, "deps")
    BY <1>1 DEF SelectJob
  <2>2. j \in Jobs
    BY DEF dequeue, InQueue
  <2>3. WorkerTypeOK'
    BY <1>1, <2>1, <2>2 DEF SelectJob, WorkerTypeOK, Goto, PC
  <2> QED  BY <1>1, <1>s, <1>p, <2>3 DEF SelectJob
<1>2. CASE PollEmpty(w)
  BY <1>2, <1>s, <1>p DEF PollEmpty, vars, workerVars, WorkerTypeOK
<1>3. CASE CheckDependency(w)
  <2>1. PICK x \in unchecked[w] :
          IF DependencySatisfied(status[x])
          THEN /\ unchecked' = [unchecked EXCEPT ![w] = @ \ {x}]
               /\ UNCHANGED <<pc, cur, raising, claimEp>>
          ELSE GiveUp(w)
    BY <1>3 DEF CheckDependency
  <2>2. WorkerTypeOK'
    <3>1. CASE GiveUp(w)  BY <3>1, EndType
    <3>2. CASE /\ unchecked' = [unchecked EXCEPT ![w] = @ \ {x}]
               /\ UNCHANGED <<pc, cur, raising, claimEp>>
      BY <3>2 DEF WorkerTypeOK
    <3> QED  BY <2>1, <3>1, <3>2
  <2> QED  BY <1>3, <1>s, <1>p, <2>2 DEF CheckDependency
<1>4. CASE Runnable(w)
  <2>1. WorkerTypeOK'
    BY <1>4 DEF Runnable, WorkerTypeOK, Goto, PC
  <2> QED  BY <1>4, <1>s, <1>p, <2>1 DEF Runnable
<1>5. CASE AcquireResources(w)
  <2>0. cur[w] \in Jobs
    BY <1>5, <1>a DEF AcquireResources
  <2>1. WorkerTypeOK'
    <3>1. CASE GiveUp(w)  BY <3>1, EndType
    <3>2. CASE Goto(w, "claim") /\ UNCHANGED <<cur, unchecked, raising, claimEp>>
      BY <1>5, <3>2 DEF AcquireResources, WorkerTypeOK, Goto, PC
    <3> QED  BY <1>5, <3>1, <3>2 DEF AcquireResources
  <2>2. PoolTypeOK'
    <3>1. StoredResources(cur[w]) \in [Pools -> Nat]
      BY <2>0, StoredTypes
    <3> QED  BY <1>5, <1>p, <2>0, <3>1, PoolType DEF AcquireResources
  <2> QED  BY <1>5, <1>s, <2>1, <2>2 DEF AcquireResources
<1>6. CASE Claim(w)
  <2>0. cur[w] \in Jobs
    BY <1>6, <1>a DEF Claim
  <2>1. StoreTypeOK'
    BY <1>6, <1>s, <2>0, ClaimType DEF Claim
  <2>2. episode[cur[w]] \in Nat
    BY <2>0 DEF StoreTypeOK
  <2>3. WorkerTypeOK'
    BY <1>6, <2>2 DEF Claim, WorkerTypeOK, Goto, PC
  <2> QED  BY <1>6, <1>p, <2>1, <2>3 DEF Claim
<1>7. CASE StartHandler(w)
  <2>0. cur[w] \in Jobs
    BY <1>7, <1>a DEF StartHandler
  <2>1. WorkerTypeOK'
    BY <1>7 DEF StartHandler, WorkerTypeOK, Goto, PC
  <2> QED  BY <1>7, <1>p, <2>0, <2>1, HeartbeatType DEF StartHandler
<1>8. CASE UnknownJobType(w)
  <2>1. WorkerTypeOK'
    BY <1>8 DEF UnknownJobType, WorkerTypeOK, Goto, PC
  <2>2. cur[w] \in Jobs /\ "unhandled" \in Mishaps
    BY <1>8, <1>a DEF UnknownJobType, Mishaps
  <2>3. PoolTypeOK'
    BY <1>8, <2>2, MishapType DEF UnknownJobType
  <2> QED  BY <1>8, <1>s, <2>1, <2>3 DEF UnknownJobType
<1>9. CASE HandlerReturns(w)
  <2>0. cur[w] \in Jobs /\ "succeeded" \in JobStatus
    BY <1>9, <1>a DEF HandlerReturns, JobStatus
  <2>1. WorkerTypeOK'
    BY <1>9 DEF HandlerReturns, WorkerTypeOK, Goto, PC
  <2> QED  BY <1>9, <1>p, <2>0, <2>1, UpdateStatusType DEF HandlerReturns
<1>10. CASE HandlerRaises(w)
  <2>1. WorkerTypeOK'
    BY <1>10 DEF HandlerRaises, WorkerTypeOK, Goto, PC
  <2> QED  BY <1>10, <1>s, <1>p, <2>1 DEF HandlerRaises
<1>11. CASE TimesOut(w)
  <2>0. cur[w] \in Jobs /\ "timeout" \in JobStatus
    BY <1>11, <1>a DEF TimesOut, JobStatus
  <2>1. WorkerTypeOK'
    BY <1>11 DEF TimesOut, WorkerTypeOK, Goto, PC
  <2> QED  BY <1>11, <1>p, <2>0, <2>1, UpdateStatusType DEF TimesOut
<1>12. CASE HandlerDrains(w)
  <2>1. WorkerTypeOK'
    BY <1>12 DEF HandlerDrains, WorkerTypeOK, Goto, PC
  <2> QED  BY <1>12, <1>s, <1>p, <2>1 DEF HandlerDrains
<1>13. CASE ApplyFallback(w)
  <2>0. cur[w] \in Jobs
    BY <1>13, <1>a DEF ApplyFallback
  <2>1. FallbackStatus(PolicyOf(w)) \in JobStatus /\ FallbackNext(PolicyOf(w)) \in PC
    BY DEF FallbackStatus, FallbackNext, JobStatus, PC
  <2>2. WorkerTypeOK'
    BY <1>13, <2>0, <2>1 DEF ApplyFallback, WorkerTypeOK, Goto
  <2> QED  BY <1>13, <1>p, <2>0, <2>1, <2>2, UpdateStatusType DEF ApplyFallback
<1>14. CASE \E k \in Jobs : EnqueueDeadLetter(w, k)
  <2>1. PICK k \in Jobs : EnqueueDeadLetter(w, k)
    BY <1>14
  <2>2. cur[w] \in Jobs
    BY <2>1, <1>a DEF EnqueueDeadLetter
  <2>3. CloneInto(attr[cur[w]], DeadLetterQueue) \in JobAttr
    BY <2>2, StoredTypes, CloneType, ConfigType
  <2>4. WorkerTypeOK'
    BY <2>1 DEF EnqueueDeadLetter, WorkerTypeOK, Goto, PC
  <2> QED  BY <1>p, <2>1, <2>3, <2>4, EnqueueType DEF EnqueueDeadLetter
<1>15. CASE Notify(w)
  <2>1. WorkerTypeOK'
    BY <1>15 DEF Notify, WorkerTypeOK, Goto, PC
  <2> QED  BY <1>15, <1>s, <1>p, <2>1 DEF Notify
<1>16. CASE ReleaseJob(w)
  <2>0. cur[w] \in Jobs
    BY <1>16, <1>a DEF ReleaseJob
  <2> QED  BY <1>16, <1>s, <2>0, PoolType, EndType DEF ReleaseJob
<1>17. CASE HandlerEscapes(w)
  <2>1. WorkerTypeOK'
    BY <1>17 DEF HandlerEscapes, WorkerTypeOK, Goto, PC
  <2>2. cur[w] \in Jobs /\ "escaped" \in Mishaps
    BY <1>17, <1>a DEF HandlerEscapes, Mishaps
  <2>3. PoolTypeOK'
    BY <1>17, <2>2, MishapType DEF HandlerEscapes
  <2> QED  BY <1>17, <1>s, <2>1, <2>3 DEF HandlerEscapes
<1> QED
  BY <1>1, <1>2, <1>3, <1>4, <1>5, <1>6, <1>7, <1>8, <1>9, <1>10, <1>11, <1>12,
     <1>13, <1>14, <1>15, <1>16, <1>17 DEF RunOnce

\* Submissions, the clock and the application's stop and restart do too.
LEMMA WorkerNextType ==
  ASSUME TypeOK, WorkerNext
  PROVE  TypeOK'
<1> USE DEF TypeOK
<1>1. ASSUME NEW j \in Jobs, Submit(j)  PROVE TypeOK'
  <2>1. Request[j] \in JobAttr /\ Request[j].depends_on \in SUBSET Jobs
    BY RequestType DEF JobAttr
  <2>2. StoreTypeOK' /\ edges' \in [Jobs -> SUBSET Jobs]
    BY <1>1, <2>1, EnqueueType DEF Submit
  <2> QED  BY <1>1, <2>2 DEF Submit, PoolTypeOK, poolVars, WorkerTypeOK, workerVars
<1>2. ASSUME NEW w \in Workers, RunOnce(w)  PROVE TypeOK'
  BY <1>2, RunOnceType
<1>3. ASSUME NEW w \in Workers, Stop(w) \/ Restart(w)  PROVE TypeOK'
  <2>1. WorkerTypeOK'
    BY <1>3 DEF Stop, Restart, WorkerTypeOK, Goto, PC
  <2> QED  BY <1>3, <2>1 DEF Stop, Restart, StoreTypeOK, storeVars, PoolTypeOK, poolVars
<1> QED
  BY <1>1, <1>2, <1>3 DEF WorkerNext

\* Every administrative operation keeps the types.
LEMMA AdminStepType ==
  ASSUME TypeOK, AdminStep \/ UpdateStep
  PROVE  TypeOK'
<1> USE DEF TypeOK
<1>0. ASSUME poolVars' = poolVars, edges' = edges, workerVars' = workerVars, StoreTypeOK'
      PROVE  TypeOK'
  BY <1>0 DEF PoolTypeOK, poolVars, WorkerTypeOK, workerVars
<1>1. ASSUME NEW j \in Jobs, AdminSubmit(j)  PROVE TypeOK'
  <2>1. Request[j] \in JobAttr
    BY RequestType
  <2> QED  BY <1>0, <1>1, <2>1, EnqueueType DEF AdminSubmit
<1>2. ASSUME NEW j \in Jobs, CancelJob(j) \/ RetryNow(j)  PROVE TypeOK'
  <2>1. "cancelled" \in JobStatus /\ "queued" \in JobStatus
    BY DEF JobStatus
  <2> QED  BY <1>0, <1>2, <2>1, UpdateStatusType DEF CancelJob, RetryNow
<1>3. ASSUME NEW j \in Jobs, NEW pri \in Priorities, UpdateJob(j, pri)  PROVE TypeOK'
  <2>1. pri \in Int
    BY OperationsType
  <2>2. attr' \in [Jobs -> JobAttr]
    <3>1. [attr[j] EXCEPT !.priority = pri] \in JobAttr
      BY <2>1, StoredTypes DEF JobAttr
    <3>2. [attr EXCEPT ![j].priority = pri] = [attr EXCEPT ![j] = [attr[j] EXCEPT !.priority = pri]]
      BY DEF StoreTypeOK
    <3> QED  BY <1>3, <3>1, <3>2 DEF UpdateJob, StoreTypeOK
  <2>3. StoreTypeOK'
    BY <1>3, <2>2 DEF UpdateJob, StoreTypeOK
  <2> QED  BY <1>0, <1>3, <2>3 DEF UpdateJob
<1>4. ASSUME NEW j \in Jobs, NEW k \in Jobs,
             ResubmitJob(j, k) \/ \E q \in Queues : ReassignQueue(j, k, q)
      PROVE  TypeOK'
  <2>1. \A q \in Queues : CloneInto(attr[j], q) \in JobAttr
    BY StoredTypes, CloneType
  <2>2. attr[j].queue_name \in Queues
    BY StoredTypes
  <2> QED  BY <1>0, <1>4, <2>1, <2>2, EnqueueType DEF ResubmitJob, ReassignQueue
<1>5. ASSUME NEW j \in Jobs, UpdateReleases(j)  PROVE TypeOK'
  BY <1>0, <1>5, RequeueType DEF UpdateReleases
<1> QED
  BY <1>1, <1>2, <1>3, <1>4, <1>5 DEF AdminStep, UpdateStep

\* Sweeps write only statuses of the enum.
LEMMA SweepStepType ==
  ASSUME OpTypeOK, SweepStep, UNCHANGED <<updating, stamps>>
  PROVE  OpTypeOK'
<1> USE DEF OpTypeOK
<1>0. vars' = vars => TypeOK'
  BY DEF TypeOK, vars, StoreTypeOK, storeVars, PoolTypeOK, poolVars, WorkerTypeOK, workerVars
<1>1. \A j \in Jobs : Copy(j) \in JobView
  BY DEF TypeOK, StoreTypeOK, Copy, JobView
<1>2. NoView \in [Jobs -> JobView]
  BY MaxNowIsNat DEF NoView, JobView, Time
<1>3. CASE SweepBegin
  <2>1. now \in Time /\ Stored \in SUBSET Jobs
    BY DEF TypeOK, StoreTypeOK, Stored
  <2> QED  BY <1>0, <1>1, <1>2, <1>3, <2>1 DEF SweepBegin, SweepTypeOK
<1>4. ASSUME NEW j \in Jobs, SweepJudge(j)  PROVE OpTypeOK'
  <2>1. \A x : Verdict(x) \in JobStatus \cup {None}
    BY DEF Verdict, RunSweepVerdict, ClearStuckVerdict, ClearOldVerdict, BulkVerdict, JobStatus
  <2> QED  BY <1>0, <1>4, <2>1 DEF SweepJudge, SweepTypeOK
<1>5. ASSUME NEW j \in Jobs, SweepApply(j)  PROVE OpTypeOK'
  <2>1. verdict[j] \in JobStatus
    BY <1>5 DEF SweepApply, SweepTypeOK
  <2>2. StoreTypeOK'
    BY <1>5, <2>1, UpdateStatusType DEF SweepApply, TypeOK
  <2>3. TypeOK'
    BY <1>5, <2>2 DEF SweepApply, TypeOK, PoolTypeOK, poolVars, WorkerTypeOK, workerVars
  <2> QED  BY <1>5, <2>3 DEF SweepApply, SweepTypeOK
<1>6. ASSUME NEW j \in Jobs, SweepSkip(j)  PROVE OpTypeOK'
  BY <1>0, <1>6 DEF SweepSkip, SweepTypeOK
<1>7. CASE SweepEnd
  BY <1>0, <1>2, <1>7, MaxNowIsNat DEF SweepEnd, SweepTypeOK, Time
<1>8. ASSUME NEW j \in Jobs, SweepRaises(j)  PROVE OpTypeOK'
  BY <1>0, <1>2, <1>8, MaxNowIsNat DEF SweepRaises, SweepTypeOK, Time
<1> QED
  BY <1>3, <1>4, <1>5, <1>6, <1>7, <1>8 DEF SweepStep

\* One step of the whole system keeps the types.
LEMMA OpNextType ==
  ASSUME OpTypeOK, [OpNext]_opVars
  PROVE  OpTypeOK'
<1> USE DEF OpTypeOK
<1>0. UNCHANGED <<sweepVars, updating, stamps>> => SweepTypeOK'
  BY DEF SweepTypeOK, sweepVars
<1>1. CASE WorkerNext /\ UNCHANGED <<sweepVars, updating, stamps>>
  BY <1>0, <1>1, WorkerNextType
<1>2. CASE AdminStep /\ UNCHANGED <<sweepVars, updating, stamps>>
  BY <1>0, <1>2, AdminStepType
<1>7. CASE UpdateStep /\ UNCHANGED <<sweepVars, stamps>>
  <2>1. updating' \in SUBSET Jobs
    BY <1>7 DEF UpdateStep, UpdateJob, UpdateReleases, SweepTypeOK
  <2> QED  BY <1>7, <2>1, AdminStepType DEF SweepTypeOK, sweepVars
<1>3. CASE SweepStep /\ UNCHANGED <<updating, stamps>>
  BY <1>3, SweepStepType
<1>4. ASSUME NEW w \in Workers, Crash(w)  PROVE OpTypeOK'
  <2>1. WorkerTypeOK'
    BY <1>4 DEF Crash, TypeOK, WorkerTypeOK, Goto, PC
  <2>2. TypeOK'
    BY <1>4, <2>1 DEF Crash, TypeOK, StoreTypeOK, storeVars, PoolTypeOK, poolVars
  <2> QED  BY <1>0, <1>4, <2>2 DEF Crash
<1>5. CASE Clock
  <2>1. TypeOK'
    BY <1>5, TickType DEF Clock, TypeOK, PoolTypeOK, poolVars, WorkerTypeOK, workerVars
  <2> QED  BY <1>0, <1>5, <2>1 DEF Clock
<1>6. CASE UNCHANGED opVars
  BY <1>6 DEF opVars, vars, SweepTypeOK, sweepVars, TypeOK, StoreTypeOK, storeVars, PoolTypeOK,
              poolVars, WorkerTypeOK, workerVars
<1> QED
  BY <1>1, <1>2, <1>3, <1>4, <1>5, <1>6, <1>7 DEF OpNext

\* The initial state is well typed.
LEMMA OpInitType == OpInit => OpTypeOK
<1> SUFFICES ASSUME OpInit PROVE OpTypeOK
  OBVIOUS
<1>1. StoreTypeOK
  BY RequestType, MaxNowIsNat DEF OpInit, Init, StoreInit, StoreTypeOK, Time
<1>2. PoolTypeOK /\ edges \in [Jobs -> SUBSET Jobs]
  BY DEF OpInit, Init, PoolInit, PoolTypeOK, NoSlots
<1>3. WorkerTypeOK
  BY DEF OpInit, Init, WorkerTypeOK, PC
<1>4. SweepTypeOK
  BY MaxNowIsNat DEF OpInit, SweepTypeOK, NoView, NoVerdict, JobView, Time
<1> QED
  BY <1>1, <1>2, <1>3, <1>4 DEF OpTypeOK, TypeOK

\* Type correctness of the worker pool with administrators and sweeps: every
\* status, timestamp, slot count and claim stays within its type.
THEOREM OpTypeCorrect == OpSpec => []OpTypeOK
<1>1. OpTypeOK /\ [OpNext]_opVars => OpTypeOK'
  BY OpNextType
<1> QED
  BY OpInitType, <1>1, PTL DEF OpSpec

-----------------------------------------------------------------------------
(* One claim per stay in the queue.                                        *)

\* What every backend method does to statuses and episodes: a job that is
\* queued afterwards was queued before or has begun a new stay.
StoreMonotone ==
  \A j \in Jobs : /\ episode'[j] >= episode[j]
                  /\ status'[j] = "queued" => status[j] = "queued" \/ episode'[j] > episode[j]

\* Nobody wins a claim in this step; a claim that is kept is kept as it was.
KeepsClaims ==
  \A w \in Workers : pc'[w] \in Owning =>
    pc[w] \in Owning /\ cur'[w] = cur[w] /\ claimEp'[w] = claimEp[w]

\* Each backend method is monotone in this sense.
LEMMA MethodsMonotone ==
  ASSUME StoreTypeOK
  PROVE  /\ UNCHANGED storeVars => StoreMonotone
         /\ Tick => StoreMonotone
         /\ \A j \in Jobs : heartbeat(j) => StoreMonotone
         /\ \A j \in Jobs : requeue(j) => StoreMonotone
         /\ \A j \in Jobs : \A x \in JobAttr : enqueue(j, x) => StoreMonotone
         /\ \A j \in Jobs : \A s \in JobStatus : update_status(j, s) => StoreMonotone
<1> USE DEF StoreTypeOK, StoreMonotone
<1>1. UNCHANGED storeVars => StoreMonotone
  BY DEF storeVars
<1>2. Tick => StoreMonotone
  BY DEF Tick
<1>3. ASSUME NEW j \in Jobs, heartbeat(j)  PROVE StoreMonotone
  BY <1>3 DEF heartbeat
<1>4. ASSUME NEW j \in Jobs, requeue(j)  PROVE StoreMonotone
  BY <1>4 DEF requeue
<1>5. ASSUME NEW j \in Jobs, NEW x \in JobAttr, enqueue(j, x)  PROVE StoreMonotone
  BY <1>5 DEF enqueue
<1>6. ASSUME NEW j \in Jobs, NEW s \in JobStatus, update_status(j, s)  PROVE StoreMonotone
  BY <1>6 DEF update_status
<1> QED
  BY <1>1, <1>2, <1>3, <1>4, <1>5, <1>6

\* A step that wins no claim keeps the invariant.
LEMMA KeepClaimInv ==
  ASSUME TypeOK, TypeOK', ClaimInv, StoreMonotone, KeepsClaims
  PROVE  ClaimInv'
<1>1. ExclusivePerEpisode'
  BY DEF ClaimInv, ExclusivePerEpisode, KeepsClaims
<1>2. ASSUME NEW w \in Workers, pc'[w] \in Owning
      PROVE  /\ claimEp'[w] <= episode'[cur'[w]]
             /\ status'[cur'[w]] = "queued" => claimEp'[w] < episode'[cur'[w]]
  <2>1. pc[w] \in Owning /\ cur'[w] = cur[w] /\ claimEp'[w] = claimEp[w]
    BY <1>2 DEF KeepsClaims
  <2>2. cur[w] \in Jobs
    BY <2>1 DEF TypeOK, WorkerTypeOK, Owning
  <2>3. /\ claimEp[w] <= episode[cur[w]]
        /\ status[cur[w]] = "queued" => claimEp[w] < episode[cur[w]]
    BY <2>1 DEF ClaimInv, ClaimsArePast
  <2>4. claimEp[w] \in Nat /\ episode[cur[w]] \in Nat /\ episode'[cur[w]] \in Nat
    BY <2>2 DEF TypeOK, WorkerTypeOK, StoreTypeOK
  <2>5. /\ episode'[cur[w]] >= episode[cur[w]]
        /\ status'[cur[w]] = "queued" =>
             status[cur[w]] = "queued" \/ episode'[cur[w]] > episode[cur[w]]
    BY <2>2 DEF StoreMonotone
  <2> QED  BY <2>1, <2>3, <2>4, <2>5
<1> QED
  BY <1>1, <1>2 DEF ClaimInv, ClaimsArePast

\* The step that wins a claim: the job is queued, so every claim on it that is
\* still held is of an earlier stay than the one now won.
LEMMA WinClaimInv ==
  ASSUME TypeOK, ClaimInv, NEW w \in Workers, Claim(w), status[cur[w]] = "queued"
  PROVE  ClaimInv'
<1>0. cur[w] \in Jobs /\ pc[w] = "claim"
  BY DEF Claim, TypeOK, WorkerTypeOK
<1>1. /\ pc' = [pc EXCEPT ![w] = "claimed"]
      /\ claimEp' = [claimEp EXCEPT ![w] = episode[cur[w]]]
      /\ cur' = cur /\ episode' = episode
      /\ status' = [status EXCEPT ![cur[w]] = "running"]
  BY DEF Claim, claim, Goto
<1>2. ASSUME NEW v \in Workers, v # w, pc'[v] \in Owning
      PROVE  pc[v] \in Owning /\ cur[v] \in Jobs /\ claimEp'[v] = claimEp[v]
  BY <1>1, <1>2 DEF TypeOK, WorkerTypeOK, Owning
<1>3. ASSUME NEW v \in Workers, v # w, pc'[v] \in Owning, cur[v] = cur[w]
      PROVE  claimEp'[v] # claimEp'[w]
  <2>1. claimEp[v] < episode[cur[w]]
    BY <1>2, <1>3 DEF ClaimInv, ClaimsArePast
  <2>2. claimEp[v] \in Nat /\ episode[cur[w]] \in Nat
    BY <1>0 DEF TypeOK, WorkerTypeOK, StoreTypeOK
  <2> QED  BY <1>1, <1>2, <1>3, <2>1, <2>2 DEF TypeOK, WorkerTypeOK
<1>4. ExclusivePerEpisode'
  <2> SUFFICES ASSUME NEW u \in Workers, NEW v \in Workers, u # v,
                      pc'[u] \in Owning, pc'[v] \in Owning, cur'[u] = cur'[v]
               PROVE  claimEp'[u] # claimEp'[v]
    BY DEF ExclusivePerEpisode
  <2>1. CASE u = w  BY <1>1, <1>3, <2>1
  <2>2. CASE v = w  BY <1>1, <1>3, <2>2
  <2>3. CASE u # w /\ v # w
    BY <1>1, <1>2, <2>3 DEF ClaimInv, ExclusivePerEpisode
  <2> QED  BY <2>1, <2>2, <2>3
<1>5. ASSUME NEW v \in Workers, pc'[v] \in Owning
      PROVE  /\ claimEp'[v] <= episode'[cur'[v]]
             /\ status'[cur'[v]] = "queued" => claimEp'[v] < episode'[cur'[v]]
  <2>1. CASE v = w
    <3>1. claimEp'[w] = episode[cur[w]] /\ status'[cur[w]] = "running"
      BY <1>0, <1>1 DEF TypeOK, WorkerTypeOK, StoreTypeOK
    <3>2. episode[cur[w]] \in Nat
      BY <1>0 DEF TypeOK, StoreTypeOK
    <3> QED  BY <1>1, <2>1, <3>1, <3>2
  <2>2. CASE v # w
    <3>1. status'[cur[v]] = "queued" => status[cur[v]] = "queued"
      BY <1>1, <1>2, <1>5, <2>2 DEF TypeOK, StoreTypeOK
    <3> QED  BY <1>1, <1>2, <1>5, <2>2, <3>1 DEF ClaimInv, ClaimsArePast
  <2> QED  BY <2>1, <2>2
<1> QED
  BY <1>4, <1>5 DEF ClaimInv, ClaimsArePast

\* Apart from a won claim, a step of a worker keeps everybody's claims.
LEMMA RunOnceClaims ==
  ASSUME TypeOK, NEW w \in Workers, RunOnce(w),
         ~(Claim(w) /\ status[cur[w]] = "queued")
  PROVE  StoreMonotone /\ KeepsClaims
<1>0. pc[w] \notin {"idle", "stopped", "dead"} => cur[w] \in Jobs
  BY DEF TypeOK, WorkerTypeOK
<1>m. StoreTypeOK
  BY DEF TypeOK
<1>s. UNCHANGED storeVars => StoreMonotone
  BY <1>m, MethodsMonotone
<1>k. ASSUME NEW label, Goto(w, label), cur' = cur, claimEp' = claimEp,
             label \in Owning => pc[w] \in Owning
      PROVE  KeepsClaims
  BY <1>k DEF KeepsClaims, Goto, TypeOK, WorkerTypeOK
<1>g. GiveUp(w) => KeepsClaims
  BY DEF GiveUp, KeepsClaims, Goto, Owning, TypeOK, WorkerTypeOK
<1>1. CASE SelectJob(w)
  BY <1>1, <1>s DEF SelectJob, KeepsClaims, Goto, Owning, TypeOK, WorkerTypeOK
<1>2. CASE PollEmpty(w)
  BY <1>2, <1>s DEF PollEmpty, vars, workerVars, KeepsClaims
<1>3. CASE CheckDependency(w)
  <2>1. GiveUp(w) \/ UNCHANGED <<pc, cur, claimEp>>
    BY <1>3 DEF CheckDependency
  <2>2. KeepsClaims
    BY <1>g, <2>1 DEF KeepsClaims
  <2> QED  BY <1>3, <1>s, <2>2 DEF CheckDependency
<1>4. CASE Runnable(w)
  BY <1>4, <1>s, <1>k DEF Runnable, Owning
<1>5. CASE AcquireResources(w)
  <2>1. KeepsClaims
    BY <1>5, <1>g, <1>k DEF AcquireResources, Owning
  <2> QED  BY <1>5, <1>s, <2>1 DEF AcquireResources
<1>6. CASE Claim(w)
  BY <1>6, <1>s, <1>k DEF Claim, claim, Owning
<1>7. CASE StartHandler(w)
  BY <1>7, <1>m, <1>0, <1>k, MethodsMonotone DEF StartHandler, Owning
<1>8. CASE UnknownJobType(w)
  BY <1>8, <1>s DEF UnknownJobType, KeepsClaims, Goto, Owning, TypeOK, WorkerTypeOK
<1>9. CASE HandlerReturns(w) \/ TimesOut(w)
  <2>1. cur[w] \in Jobs /\ "succeeded" \in JobStatus /\ "timeout" \in JobStatus
    BY <1>9, <1>0 DEF HandlerReturns, TimesOut, JobStatus
  <2> QED  BY <1>9, <2>1, <1>m, <1>k, MethodsMonotone DEF HandlerReturns, TimesOut, Owning
<1>10. CASE HandlerRaises(w) \/ HandlerEscapes(w) \/ HandlerDrains(w)
  BY <1>10, <1>s, <1>k DEF HandlerRaises, HandlerEscapes, HandlerDrains, Owning
<1>11. CASE ApplyFallback(w)
  <2>1. cur[w] \in Jobs /\ FallbackStatus(PolicyOf(w)) \in JobStatus
    BY <1>11, <1>0 DEF ApplyFallback, FallbackStatus, JobStatus
  <2> QED  BY <1>11, <2>1, <1>m, <1>k, MethodsMonotone DEF ApplyFallback, Owning
<1>12. ASSUME NEW k \in Jobs, EnqueueDeadLetter(w, k)  PROVE StoreMonotone /\ KeepsClaims
  <2>1. CloneInto(attr[cur[w]], DeadLetterQueue) \in JobAttr
    BY <1>12, <1>0, StoredTypes, CloneType, ConfigType DEF EnqueueDeadLetter
  <2> QED  BY <1>12, <2>1, <1>m, <1>k, MethodsMonotone DEF EnqueueDeadLetter, Owning
<1>13. CASE Notify(w)
  BY <1>13, <1>s, <1>k DEF Notify, Owning
<1>14. CASE ReleaseJob(w)
  BY <1>14, <1>s DEF ReleaseJob, EndRun, KeepsClaims, Goto, Owning, TypeOK, WorkerTypeOK
<1> QED
  BY <1>1, <1>2, <1>3, <1>4, <1>5, <1>6, <1>7, <1>8, <1>9, <1>10, <1>11, <1>12,
     <1>13, <1>14 DEF RunOnce

\* What administrators and sweeps do to the backend leaves the claims alone.
LEMMA OperatorsClaims ==
  ASSUME OpTypeOK, AdminStep \/ UpdateStep \/ SweepStep
  PROVE  StoreMonotone /\ KeepsClaims
<1>m. TypeOK /\ StoreTypeOK
  BY DEF OpTypeOK, TypeOK
<1>k. UNCHANGED workerVars => KeepsClaims
  BY DEF workerVars, KeepsClaims
<1>1. ASSUME NEW j \in Jobs, AdminSubmit(j)  PROVE StoreMonotone /\ KeepsClaims
  <2>1. Request[j] \in JobAttr
    BY RequestType
  <2> QED  BY <1>1, <2>1, <1>k, <1>m, MethodsMonotone DEF AdminSubmit
<1>2. ASSUME NEW j \in Jobs, CancelJob(j) \/ RetryNow(j)  PROVE StoreMonotone /\ KeepsClaims
  <2>1. "cancelled" \in JobStatus /\ "queued" \in JobStatus
    BY DEF JobStatus
  <2> QED  BY <1>2, <2>1, <1>k, <1>m, MethodsMonotone DEF CancelJob, RetryNow
<1>3. ASSUME NEW j \in Jobs, NEW pri \in Priorities, UpdateJob(j, pri)
      PROVE  StoreMonotone /\ KeepsClaims
  BY <1>3, <1>k, <1>m DEF UpdateJob, StoreMonotone, StoreTypeOK
<1>r. ASSUME NEW j \in Jobs, UpdateReleases(j)  PROVE StoreMonotone /\ KeepsClaims
  BY <1>r, <1>k, <1>m, MethodsMonotone DEF UpdateReleases
<1>4. ASSUME NEW j \in Jobs, NEW k \in Jobs,
             ResubmitJob(j, k) \/ \E q \in Queues : ReassignQueue(j, k, q)
      PROVE  StoreMonotone /\ KeepsClaims
  <2>1. /\ attr[j].queue_name \in Queues
        /\ \A q \in Queues : CloneInto(attr[j], q) \in JobAttr
    BY <1>m, StoredTypes, CloneType
  <2> QED  BY <1>4, <2>1, <1>k, <1>m, MethodsMonotone DEF ResubmitJob, ReassignQueue
<1>5. AdminStep \/ UpdateStep => StoreMonotone /\ KeepsClaims
  BY <1>1, <1>2, <1>3, <1>4, <1>r DEF AdminStep, UpdateStep
<1>6. ASSUME NEW j \in Jobs, SweepApply(j)  PROVE StoreMonotone /\ KeepsClaims
  <2>1. verdict[j] \in JobStatus
    BY <1>6 DEF SweepApply, OpTypeOK, SweepTypeOK
  <2> QED  BY <1>6, <2>1, <1>k, <1>m, MethodsMonotone DEF SweepApply
<1>7. ASSUME UNCHANGED vars  PROVE StoreMonotone /\ KeepsClaims
  BY <1>7, <1>k, <1>m, MethodsMonotone DEF vars
<1>8. SweepStep => StoreMonotone /\ KeepsClaims
  BY <1>6, <1>7 DEF SweepStep, SweepBegin, SweepJudge, SweepRaises, SweepSkip, SweepEnd
<1> QED
  BY <1>5, <1>8

\* Every step of the system keeps the invariant.
LEMMA OpNextClaimInv ==
  ASSUME OpTypeOK, ClaimInv, [OpNext]_opVars
  PROVE  ClaimInv'
<1>t. TypeOK /\ TypeOK' /\ StoreTypeOK
  BY OpNextType DEF OpTypeOK, TypeOK
<1>1. ASSUME NEW w \in Workers, RunOnce(w)  PROVE ClaimInv'
  BY <1>1, <1>t, RunOnceClaims, WinClaimInv, KeepClaimInv
<1>2. ASSUME NEW j \in Jobs, Submit(j)  PROVE ClaimInv'
  <2>1. Request[j] \in JobAttr
    BY RequestType
  <2>2. StoreMonotone /\ KeepsClaims
    BY <1>2, <1>t, <2>1, MethodsMonotone DEF Submit, workerVars, KeepsClaims
  <2> QED  BY <1>t, <2>2, KeepClaimInv
<1>3. ASSUME NEW w \in Workers, Stop(w) \/ Restart(w) \/ Crash(w)  PROVE ClaimInv'
  <2>1. StoreMonotone
    BY <1>3, <1>t, MethodsMonotone DEF Stop, Restart, Crash
  <2>2. KeepsClaims
    BY <1>3, <1>t DEF Stop, Restart, Crash, Goto, KeepsClaims, Owning, TypeOK, WorkerTypeOK
  <2> QED  BY <1>t, <2>1, <2>2, KeepClaimInv
<1>4. CASE Clock
  <2>1. StoreMonotone /\ KeepsClaims
    BY <1>4, <1>t, MethodsMonotone DEF Clock, workerVars, KeepsClaims
  <2> QED  BY <1>t, <2>1, KeepClaimInv
<1>5. CASE AdminStep \/ UpdateStep \/ SweepStep
  BY <1>5, <1>t, OperatorsClaims, KeepClaimInv
<1>6. CASE UNCHANGED opVars
  <2>1. StoreMonotone /\ KeepsClaims
    BY <1>6, <1>t, MethodsMonotone DEF opVars, vars, workerVars, KeepsClaims
  <2> QED  BY <1>t, <2>1, KeepClaimInv
<1> QED
  BY <1>1, <1>2, <1>3, <1>4, <1>5, <1>6 DEF OpNext, WorkerNext

\* The memory and SQL backends admit one worker per stay of a job in the
\* queue, under every interleaving with administrators and sweeps.
THEOREM OneClaimPerEpisode == OpSpec => []ExclusivePerEpisode
<1>1. OpInit => ClaimInv
  BY DEF OpInit, Init, ClaimInv, ExclusivePerEpisode, ClaimsArePast, Owning
<1>2. OpTypeOK /\ ClaimInv /\ [OpNext]_opVars => ClaimInv'
  BY OpNextClaimInv
<1>3. ClaimInv => ExclusivePerEpisode
  BY DEF ClaimInv
<1> QED
  BY OpTypeCorrect, <1>1, <1>2, <1>3, PTL DEF OpSpec

-----------------------------------------------------------------------------
(* Dependencies first, with the memory backend and JobQueue submissions.   *)

\* What every backend method leaves as it is: a stored job stays stored and
\* keeps its depends_on, and a success is recorded and not forgotten.
KeepsJobs ==
  /\ \A j \in Jobs : status[j] # "absent" =>
       status'[j] # "absent" /\ attr'[j].depends_on = attr[j].depends_on
  /\ \A j \in Jobs : status'[j] = "succeeded" => status[j] = "succeeded" \/ j \in succeeded'
  /\ succeeded \subseteq succeeded'

\* In addition nothing new is stored.
StoresNothing == \A j \in Jobs : status[j] = "absent" => status'[j] = "absent"

\* The methods that store nothing new.
LEMMA MethodsKeepJobs ==
  ASSUME StoreTypeOK
  PROVE  /\ UNCHANGED storeVars => KeepsJobs /\ StoresNothing
         /\ Tick => KeepsJobs /\ StoresNothing
         /\ \A j \in Jobs : heartbeat(j) => KeepsJobs /\ StoresNothing
         /\ \A w \in Workers, j \in Jobs : claim(w, j) => KeepsJobs /\ StoresNothing
         /\ \A j \in Jobs : \A s \in JobStatus : update_status(j, s) => KeepsJobs /\ StoresNothing
<1> USE DEF StoreTypeOK, KeepsJobs, StoresNothing, JobStatus
<1>1. UNCHANGED storeVars => KeepsJobs /\ StoresNothing
  BY DEF storeVars
<1>2. Tick => KeepsJobs /\ StoresNothing
  BY DEF Tick
<1>3. ASSUME NEW j \in Jobs, heartbeat(j)  PROVE KeepsJobs /\ StoresNothing
  BY <1>3 DEF heartbeat
<1>4. ASSUME NEW w \in Workers, NEW j \in Jobs, claim(w, j)  PROVE KeepsJobs /\ StoresNothing
  BY <1>4 DEF claim
<1>5. ASSUME NEW j \in Jobs, NEW s \in JobStatus, update_status(j, s)
      PROVE  KeepsJobs /\ StoresNothing
  BY <1>5 DEF update_status
<1> QED
  BY <1>1, <1>2, <1>3, <1>4, <1>5

\* A new job: the others keep theirs, and the new one waits for what it says.
LEMMA EnqueueKeepsJobs ==
  ASSUME StoreTypeOK, NEW k \in Absent, NEW x \in JobAttr, enqueue(k, x)
  PROVE  /\ KeepsJobs
         /\ \A j \in Jobs : status'[j] = "absent" <=> status[j] = "absent" /\ j # k
         /\ attr'[k].depends_on = x.depends_on
BY DEF StoreTypeOK, enqueue, KeepsJobs, Absent

\* Storing a clone, which waits for nothing and has no edges, keeps agreement.
LEMMA CloneAgrees ==
  ASSUME TypeOK, TrackerAgrees, NEW k \in Absent, NEW x \in JobAttr, x.depends_on = {},
         enqueue(k, x), edges' = edges
  PROVE  TrackerAgrees' /\ KeepsJobs
<1>1. k \in Jobs /\ status[k] = "absent"
  BY DEF Absent
<1>2. /\ KeepsJobs
      /\ \A j \in Jobs : status'[j] = "absent" <=> status[j] = "absent" /\ j # k
      /\ attr'[k].depends_on = {}
  BY EnqueueKeepsJobs DEF TypeOK
<1>3. ASSUME NEW j \in Jobs
      PROVE  edges'[j] = IF status'[j] = "absent" THEN {} ELSE attr'[j].depends_on
  <2>1. CASE j = k
    BY <1>1, <1>2, <2>1 DEF TrackerAgrees
  <2>2. CASE j # k
    BY <1>2, <2>2 DEF TrackerAgrees, KeepsJobs
  <2> QED  BY <2>1, <2>2
<1> QED
  BY <1>2, <1>3 DEF TrackerAgrees

\* A step that stores nothing new keeps agreement.
LEMMA KeepAgrees ==
  ASSUME TrackerAgrees, KeepsJobs, StoresNothing, edges' = edges
  PROVE  TrackerAgrees'
BY DEF TrackerAgrees, KeepsJobs, StoresNothing

\* The record of successes stays complete.
LEMMA KeepRecord ==
  ASSUME SuccessRecorded, KeepsJobs
  PROVE  SuccessRecorded'
BY DEF SuccessRecorded, KeepsJobs

\* A worker whose job stays the same and that passes no test in this step.
SameView(w) ==
  /\ cur'[w] = cur[w] /\ unchecked'[w] = unchecked[w]
  /\ pc[w] \in {"idle", "stopped", "dead"} => pc'[w] \in {"idle", "stopped", "dead"}
  /\ pc'[w] = "deps" => pc[w] = "deps"
  /\ pc'[w] \in Holding \cup {"acquire"} => pc[w] \in Holding \cup {"acquire"}

\* Such a worker has still seen what it had seen, and so has one that ends.
LEMMA KeepSeen ==
  ASSUME TypeOK, KeepsJobs, NEW w \in Workers, SeenBy(w),
         SameView(w) \/ pc'[w] \in {"idle", "stopped", "dead"}
  PROVE  SeenBy(w)'
<1>1. CASE pc'[w] \in {"idle", "stopped", "dead"}
  BY <1>1 DEF SeenBy, Holding, Owning
<1>2. CASE SameView(w) /\ pc'[w] \notin {"idle", "stopped", "dead"}
  <2>1. cur[w] \in Jobs /\ pc[w] \notin {"idle", "stopped", "dead"}
    BY <1>2 DEF SameView, TypeOK, WorkerTypeOK
  <2>2. /\ status'[cur[w]] # "absent"
        /\ attr'[cur[w]].depends_on = attr[cur[w]].depends_on
        /\ succeeded \subseteq succeeded'
    BY <2>1 DEF KeepsJobs, SeenBy
  <2> QED  BY <1>2, <2>1, <2>2 DEF SameView, SeenBy
<1> QED
  BY <1>1, <1>2

\* Steps of one worker leave the view of the others alone.
LEMMA OthersSeen ==
  ASSUME TypeOK, KeepsJobs, \A v \in Workers : SeenBy(v), NEW w \in Workers, SeenBy(w)',
         \A v \in Workers \ {w} : SameView(v)
  PROVE  \A v \in Workers : SeenBy(v)'
BY KeepSeen


\* Every step of a worker keeps the dependency invariant.
LEMMA RunOnceDependencies ==
  ASSUME TypeOK, DependencyInv, Backend = "memory", NEW w \in Workers, RunOnce(w)
  PROVE  DependencyInv'
<1> USE DEF DependencyInv
<1>m. StoreTypeOK
  BY DEF TypeOK
<1>0. pc[w] \notin {"idle", "stopped", "dead"} => cur[w] \in Jobs
  BY DEF TypeOK, WorkerTypeOK
<1>s. UNCHANGED storeVars => KeepsJobs /\ StoresNothing
  BY <1>m, MethodsKeepJobs
\* A step to another phase with the same job.
<1>k. ASSUME NEW label, Goto(w, label), cur' = cur, unchecked' = unchecked, KeepsJobs,
             SameView(w) \/ label \in {"idle", "stopped", "dead"}
      PROVE  \A v \in Workers : SeenBy(v)'
  <2>1. \A v \in Workers \ {w} : SameView(v)
    BY <1>k DEF Goto, SameView, TypeOK, WorkerTypeOK
  <2>2. SameView(w) \/ pc'[w] \in {"idle", "stopped", "dead"}
    BY <1>k DEF Goto, TypeOK, WorkerTypeOK
  <2> QED  BY <1>k, <2>1, <2>2, KeepSeen, OthersSeen
\* A step that ends run_once.
<1>e. ASSUME EndRun(w) \/ GiveUp(w), KeepsJobs
      PROVE  \A v \in Workers : SeenBy(v)'
  <2>1. \A v \in Workers \ {w} : SameView(v)
    BY <1>e DEF EndRun, GiveUp, Goto, SameView, TypeOK, WorkerTypeOK
  <2>2. pc'[w] \in {"idle", "stopped", "dead"}
    BY <1>e DEF EndRun, GiveUp, Goto, TypeOK, WorkerTypeOK
  <2> QED  BY <1>e, <2>1, <2>2, KeepSeen, OthersSeen
<1>1. CASE SelectJob(w)
  <2>1. PICK j \in dequeue(WorkerQueue[w]) :
          /\ cur' = [cur EXCEPT ![w] = j]
          /\ unchecked' = [unchecked EXCEPT ![w] = IF StoredDependsOn(j) = {} THEN {}
                                                   ELSE edges[j]]
          /\ Goto(w, "deps")
    BY <1>1 DEF SelectJob
  <2>2. j \in Jobs /\ status[j] = "queued"
    BY DEF dequeue, InQueue
  <2>3. edges[j] = attr[j].depends_on /\ StoredDependsOn(j) = attr[j].depends_on
    BY <2>2 DEF TrackerAgrees, StoredDependsOn
  <2>4. cur'[w] = j /\ pc'[w] = "deps" /\ unchecked'[w] = attr[j].depends_on
    BY <2>1, <2>3 DEF Goto, TypeOK, WorkerTypeOK
  <2>5. UNCHANGED storeVars /\ edges' = edges
    BY <1>1 DEF SelectJob
  <2>6. SeenBy(w)'
    BY <2>2, <2>4, <2>5 DEF SeenBy, storeVars, Holding, Owning
  <2>7. \A v \in Workers \ {w} : SameView(v)
    BY <2>1 DEF Goto, SameView, TypeOK, WorkerTypeOK
  <2> QED  BY <1>s, <2>5, <2>6, <2>7, OthersSeen, KeepAgrees, KeepRecord
<1>2. CASE PollEmpty(w)
  BY <1>2 DEF PollEmpty, vars, storeVars, workerVars, TrackerAgrees, SeenBy, SuccessRecorded
<1>3. CASE CheckDependency(w)
  <2>0. UNCHANGED storeVars /\ edges' = edges /\ pc[w] = "deps"
    BY <1>3 DEF CheckDependency
  <2>1. PICK x \in unchecked[w] :
          IF DependencySatisfied(status[x])
          THEN /\ unchecked' = [unchecked EXCEPT ![w] = @ \ {x}]
               /\ UNCHANGED <<pc, cur, raising, claimEp>>
          ELSE GiveUp(w)
    BY <1>3 DEF CheckDependency
  <2>2. CASE GiveUp(w)
    BY <1>e, <1>s, <2>0, <2>2, KeepAgrees, KeepRecord
  <2>3. CASE DependencySatisfied(status[x])
    <3>1. unchecked'[w] = unchecked[w] \ {x} /\ UNCHANGED <<pc, cur>>
      BY <2>1, <2>3 DEF TypeOK, WorkerTypeOK
    <3>2. x \in succeeded
      BY <2>3 DEF DependencySatisfied, SuccessRecorded, TypeOK, WorkerTypeOK
    <3>3. SeenBy(w)'
      BY <2>0, <3>1, <3>2 DEF SeenBy, storeVars
    <3>4. \A v \in Workers \ {w} : SameView(v)
      BY <2>1, <2>3 DEF SameView, TypeOK, WorkerTypeOK
    <3> QED  BY <1>s, <2>0, <3>3, <3>4, OthersSeen, KeepAgrees, KeepRecord
  <2> QED  BY <2>1, <2>2, <2>3
<1>4. CASE Runnable(w)
  <2>1. UNCHANGED storeVars /\ edges' = edges /\ UNCHANGED <<cur, unchecked>>
        /\ pc[w] = "deps" /\ unchecked[w] = {} /\ pc' = [pc EXCEPT ![w] = "acquire"]
    BY <1>4 DEF Runnable, Goto
  <2>2. SeenBy(w) /\ pc'[w] = "acquire"
    BY <2>1 DEF TypeOK, WorkerTypeOK
  <2>3. SeenBy(w)'
    BY <2>1, <2>2 DEF SeenBy, storeVars
  <2>4. \A v \in Workers \ {w} : SameView(v)
    BY <2>1 DEF SameView, TypeOK, WorkerTypeOK
  <2> QED  BY <1>s, <2>1, <2>3, <2>4, OthersSeen, KeepAgrees, KeepRecord
<1>5. CASE AcquireResources(w)
  <2>1. UNCHANGED storeVars /\ edges' = edges /\ pc[w] = "acquire"
    BY <1>5 DEF AcquireResources
  <2>2. CASE GiveUp(w)
    BY <1>e, <1>s, <2>1, <2>2, KeepAgrees, KeepRecord
  <2>3. CASE Goto(w, "claim") /\ UNCHANGED <<cur, unchecked>>
    <3>1. SameView(w)
      BY <2>1, <2>3 DEF SameView, Goto, Holding, Owning, TypeOK, WorkerTypeOK
    <3> QED  BY <1>k, <1>s, <2>1, <2>3, <3>1, KeepAgrees, KeepRecord
  <2> QED  BY <1>5, <2>2, <2>3 DEF AcquireResources
\* From here on the worker holds its job and tests no dependency any more.
<1>h. ASSUME NEW label \in Holding, Goto(w, label), pc[w] \in Holding,
             cur' = cur, unchecked' = unchecked, KeepsJobs
      PROVE  \A v \in Workers : SeenBy(v)'
  <2>1. SameView(w)
    BY <1>h DEF SameView, Goto, Holding, Owning, TypeOK, WorkerTypeOK
  <2> QED  BY <1>h, <1>k, <2>1
<1>6. CASE Claim(w)
  <2>0. pc[w] = "claim" /\ cur[w] \in Jobs
    BY <1>6, <1>0 DEF Claim
  <2>1. KeepsJobs /\ StoresNothing
    BY <1>6, <1>s, <1>m, <2>0, MethodsKeepJobs DEF Claim
  <2>2. \A v \in Workers : SeenBy(v)'
    BY <1>6, <1>h, <2>0, <2>1 DEF Claim, Holding, Owning
  <2> QED  BY <1>6, <2>1, <2>2, KeepAgrees, KeepRecord DEF Claim
<1>7. CASE StartHandler(w)
  <2>0. pc[w] = "claimed" /\ cur[w] \in Jobs
    BY <1>7, <1>0 DEF StartHandler
  <2>1. KeepsJobs /\ StoresNothing
    BY <1>7, <1>m, <2>0, MethodsKeepJobs DEF StartHandler
  <2>2. \A v \in Workers : SeenBy(v)'
    BY <1>7, <1>h, <2>0, <2>1 DEF StartHandler, Holding, Owning
  <2> QED  BY <1>7, <2>1, <2>2, KeepAgrees, KeepRecord DEF StartHandler
<1>8. CASE UnknownJobType(w)
  <2>1. KeepsJobs /\ StoresNothing
    BY <1>8, <1>s DEF UnknownJobType
  <2>2. pc'[w] = "dead" /\ \A v \in Workers \ {w} : SameView(v)
    BY <1>8 DEF UnknownJobType, Goto, SameView, TypeOK, WorkerTypeOK
  <2>3. \A v \in Workers : SeenBy(v)'
    BY <2>1, <2>2, KeepSeen, OthersSeen
  <2> QED  BY <1>8, <2>1, <2>3, KeepAgrees, KeepRecord DEF UnknownJobType
<1>9. CASE HandlerReturns(w) \/ TimesOut(w) \/ ApplyFallback(w)
  <2>0. pc[w] \in Holding /\ cur[w] \in Jobs
    BY <1>9, <1>0 DEF HandlerReturns, TimesOut, ApplyFallback, Holding, Owning
  <2>1. /\ "succeeded" \in JobStatus /\ "timeout" \in JobStatus
        /\ FallbackStatus(PolicyOf(w)) \in JobStatus /\ FallbackNext(PolicyOf(w)) \in Holding
    BY DEF JobStatus, FallbackStatus, FallbackNext, Holding, Owning
  <2>2. KeepsJobs /\ StoresNothing
    BY <1>9, <1>m, <2>0, <2>1, MethodsKeepJobs DEF HandlerReturns, TimesOut, ApplyFallback
  <2>3. \A v \in Workers : SeenBy(v)'
    BY <1>9, <1>h, <2>0, <2>1, <2>2
    DEF HandlerReturns, TimesOut, ApplyFallback, Holding, Owning
  <2> QED
    BY <1>9, <2>2, <2>3, KeepAgrees, KeepRecord DEF HandlerReturns, TimesOut, ApplyFallback
<1>10. CASE HandlerRaises(w) \/ HandlerEscapes(w) \/ HandlerDrains(w) \/ Notify(w)
  <2>1. KeepsJobs /\ StoresNothing
    BY <1>10, <1>s DEF HandlerRaises, HandlerEscapes, HandlerDrains, Notify
  <2>2. \A v \in Workers : SeenBy(v)'
    BY <1>10, <1>h, <2>1 DEF HandlerRaises, HandlerEscapes, HandlerDrains, Notify, Holding, Owning
  <2> QED
    BY <1>10, <2>1, <2>2, KeepAgrees, KeepRecord DEF HandlerRaises, HandlerEscapes, HandlerDrains, Notify
<1>11. ASSUME NEW k \in Jobs, EnqueueDeadLetter(w, k)  PROVE DependencyInv'
  <2>1. CloneInto(attr[cur[w]], DeadLetterQueue) \in JobAttr
        /\ CloneInto(attr[cur[w]], DeadLetterQueue).depends_on = {}
    BY <1>11, <1>0, StoredTypes, CloneType, ConfigType DEF EnqueueDeadLetter
  <2>2. TrackerAgrees' /\ KeepsJobs
    BY <1>11, <2>1, CloneAgrees DEF EnqueueDeadLetter
  <2>3. \A v \in Workers : SeenBy(v)'
    BY <1>11, <1>h, <2>2 DEF EnqueueDeadLetter, Holding, Owning
  <2> QED  BY <2>2, <2>3, KeepRecord
<1>12. CASE ReleaseJob(w)
  BY <1>12, <1>e, <1>s, KeepAgrees, KeepRecord DEF ReleaseJob
<1> QED
  BY <1>1, <1>2, <1>3, <1>4, <1>5, <1>6, <1>7, <1>8, <1>9, <1>10, <1>11, <1>12 DEF RunOnce

\* Every other step of the system keeps it too, as long as jobs with
\* dependencies come in through JobQueue.submit.
LEMMA OpNextDependencies ==
  ASSUME OpTypeOK, DependencyInv, Backend = "memory", "submit" \notin AdminOps,
         [OpNext]_opVars
  PROVE  DependencyInv'
<1> USE DEF DependencyInv
<1>t. TypeOK /\ StoreTypeOK
  BY DEF OpTypeOK, TypeOK
<1>v. ASSUME UNCHANGED workerVars, KeepsJobs  PROVE \A w \in Workers : SeenBy(w)'
  <2>1. \A w \in Workers : SameView(w)
    BY <1>v DEF workerVars, SameView
  <2> QED  BY <1>t, <1>v, <2>1, KeepSeen
\* Steps of nobody in the worker pool that store nothing new.
<1>q. ASSUME UNCHANGED <<edges, workerVars>>, KeepsJobs, StoresNothing  PROVE DependencyInv'
  BY <1>v, <1>q, KeepAgrees, KeepRecord
\* Clones.
<1>c. ASSUME UNCHANGED <<edges, workerVars>>, NEW k \in Absent, NEW j \in Jobs, NEW q \in Queues,
             enqueue(k, CloneInto(attr[j], q))
      PROVE  DependencyInv'
  <2>1. CloneInto(attr[j], q) \in JobAttr /\ CloneInto(attr[j], q).depends_on = {}
    BY <1>t, StoredTypes, CloneType
  <2>2. TrackerAgrees' /\ KeepsJobs
    BY <1>c, <1>t, <2>1, CloneAgrees
  <2> QED  BY <1>c, <1>v, <2>2, KeepRecord
<1>1. ASSUME NEW w \in Workers, RunOnce(w)  PROVE DependencyInv'
  BY <1>1, <1>t, RunOnceDependencies
<1>2. ASSUME NEW j \in Jobs, Submit(j)  PROVE DependencyInv'
  <2>1. Request[j] \in JobAttr /\ j \in Absent
    BY <1>2, RequestType DEF Submit
  <2>2. /\ KeepsJobs
        /\ \A i \in Jobs : status'[i] = "absent" <=> status[i] = "absent" /\ i # j
        /\ attr'[j].depends_on = Request[j].depends_on
    BY <1>2, <1>t, <2>1, EnqueueKeepsJobs DEF Submit
  <2>3. edges' = [edges EXCEPT ![j] = Request[j].depends_on]
    BY <1>2 DEF Submit
  <2>4. ASSUME NEW i \in Jobs
        PROVE  edges'[i] = IF status'[i] = "absent" THEN {} ELSE attr'[i].depends_on
    <3>1. CASE i = j
      BY <1>t, <2>2, <2>3, <3>1 DEF TypeOK
    <3>2. CASE i # j
      BY <1>t, <2>2, <2>3, <3>2 DEF TypeOK, TrackerAgrees, KeepsJobs
    <3> QED  BY <3>1, <3>2
  <2>5. TrackerAgrees'
    BY <2>4 DEF TrackerAgrees
  <2> QED  BY <1>2, <1>v, <2>2, <2>5, KeepRecord DEF Submit
<1>3. ASSUME NEW w \in Workers, Stop(w) \/ Restart(w) \/ Crash(w)  PROVE DependencyInv'
  <2>1. KeepsJobs /\ StoresNothing /\ edges' = edges
    BY <1>3, <1>t, MethodsKeepJobs DEF Stop, Restart, Crash
  <2>2. \A v \in Workers : SameView(v)
    BY <1>3, <1>t DEF Stop, Restart, Crash, Goto, SameView, Holding, Owning, TypeOK, WorkerTypeOK
  <2> QED  BY <1>t, <2>1, <2>2, KeepSeen, KeepAgrees, KeepRecord
<1>4. CASE Clock
  BY <1>4, <1>t, <1>q, MethodsKeepJobs DEF Clock
<1>5. ASSUME NEW j \in Jobs, CancelJob(j) \/ RetryNow(j)  PROVE DependencyInv'
  <2>1. "cancelled" \in JobStatus /\ "queued" \in JobStatus
    BY DEF JobStatus
  <2> QED  BY <1>5, <1>t, <1>q, <2>1, MethodsKeepJobs DEF CancelJob, RetryNow
<1>6. ASSUME NEW j \in Jobs, NEW pri \in Priorities, UpdateJob(j, pri)  PROVE DependencyInv'
  <2>1. \A i \in Jobs : attr'[i].depends_on = attr[i].depends_on
    BY <1>6, <1>t DEF UpdateJob, StoreTypeOK, JobAttr
  <2>2. KeepsJobs /\ StoresNothing
    BY <1>6, <1>t, <2>1 DEF UpdateJob, StoreTypeOK, KeepsJobs, StoresNothing
  <2> QED  BY <1>6, <1>q, <2>2 DEF UpdateJob
<1>r. ASSUME NEW j \in Jobs, UpdateReleases(j)  PROVE DependencyInv'
  <2>1. KeepsJobs /\ StoresNothing
    BY <1>r, <1>t DEF UpdateReleases, requeue, StoreTypeOK, KeepsJobs, StoresNothing
  <2> QED  BY <1>r, <1>q, <2>1 DEF UpdateReleases
<1>7. ASSUME NEW j \in Jobs, NEW k \in Jobs,
             ResubmitJob(j, k) \/ \E q \in Queues : ReassignQueue(j, k, q)
      PROVE  DependencyInv'
  <2>1. attr[j].queue_name \in Queues
    BY <1>t, StoredTypes
  <2> QED  BY <1>7, <1>c, <2>1 DEF ResubmitJob, ReassignQueue
<1>8. CASE AdminStep \/ UpdateStep
  BY <1>5, <1>6, <1>7, <1>8, <1>r DEF AdminStep, UpdateStep, AdminSubmit
<1>9. ASSUME NEW j \in Jobs, SweepApply(j)  PROVE DependencyInv'
  <2>1. verdict[j] \in JobStatus
    BY <1>9 DEF SweepApply, OpTypeOK, SweepTypeOK
  <2> QED  BY <1>9, <1>t, <1>q, <2>1, MethodsKeepJobs DEF SweepApply
<1>10. ASSUME UNCHANGED vars  PROVE DependencyInv'
  BY <1>10, <1>t, <1>q, MethodsKeepJobs DEF vars
<1>11. CASE SweepStep
  BY <1>9, <1>10, <1>11 DEF SweepStep, SweepBegin, SweepJudge, SweepRaises, SweepSkip, SweepEnd
<1>12. CASE UNCHANGED opVars
  BY <1>10, <1>12 DEF opVars
<1> QED
  BY <1>1, <1>2, <1>3, <1>4, <1>8, <1>11, <1>12 DEF OpNext, WorkerNext

\* With the memory backend, and with every job that has dependencies submitted
\* through JobQueue.submit, no job is claimed before all jobs it depends on
\* have succeeded, whatever administrators and sweeps do meanwhile.
THEOREM DependenciesRespected ==
  ASSUME Backend = "memory", "submit" \notin AdminOps
  PROVE  OpSpec => []DependenciesFirst
<1>1. OpInit => DependencyInv
  BY DEF OpInit, Init, StoreInit, DependencyInv, TrackerAgrees, SuccessRecorded, SeenBy,
         Holding, Owning
<1>2. OpTypeOK /\ DependencyInv /\ [OpNext]_opVars => DependencyInv'
  BY OpNextDependencies
<1>3. DependencyInv => DependenciesFirst
  BY DEF DependencyInv, SeenBy, DependenciesFirst, Holding
<1> QED
  BY OpTypeCorrect, <1>1, <1>2, <1>3, PTL DEF OpSpec
-----------------------------------------------------------------------------
(* Workers, administrators and sweeps implement ClaimQueue.                *)

\* The state of the abstract queue, as the refinement mapping gives it.
Waiting == {j \in Jobs : status[j] = "queued"}
OwnedBy(w) == {k \in Jobs : pc[w] \in Owning /\ cur[w] = k}
HeldMap == [w \in Workers |-> {<<j, claimEp[w]>> : j \in OwnedBy(w)}]

\* What one worker owns, and for which stay, is as before.
SameGrants(w) == OwnedBy(w)' = OwnedBy(w) /\ (OwnedBy(w) # {} => claimEp'[w] = claimEp[w])
SameHeld == \A w \in Workers : SameGrants(w)
LetsGo(w) == OwnedBy(w)' = {} /\ \A v \in Workers \ {w} : SameGrants(v)

\* A step of the abstract queue, or one it does not see.
QueueStep == [Queue!Next]_(Queue!queueVars)

\* Grants that are the same, or gone, are so in the mapped state.
LEMMA HeldMaps ==
  /\ SameHeld => HeldMap' = HeldMap
  /\ \A w \in Workers : LetsGo(w) => HeldMap' = [HeldMap EXCEPT ![w] = {}]
<1>1. ASSUME NEW w \in Workers, SameGrants(w)
      PROVE  {<<j, claimEp'[w]>> : j \in OwnedBy(w)'} = {<<j, claimEp[w]>> : j \in OwnedBy(w)}
  <2>1. CASE OwnedBy(w) = {}
    BY <1>1, <2>1 DEF SameGrants
  <2>2. CASE OwnedBy(w) # {}
    BY <1>1, <2>2 DEF SameGrants
  <2> QED  BY <2>1, <2>2
<1>2. ASSUME SameHeld  PROVE HeldMap' = HeldMap
  BY <1>1, <1>2 DEF SameHeld, HeldMap
<1>3. ASSUME NEW w \in Workers, LetsGo(w)  PROVE HeldMap' = [HeldMap EXCEPT ![w] = {}]
  <2>1. {<<j, claimEp'[w]>> : j \in OwnedBy(w)'} = {}
    BY <1>3 DEF LetsGo
  <2> QED  BY <1>1, <1>3, <2>1 DEF LetsGo, HeldMap
<1> QED  BY <1>2, <1>3

\* The steps of the abstract queue in terms of the mapped state.
LEMMA QueueSteps ==
  /\ \A j \in Jobs : Waiting' = Waiting \cup {j} /\ episode' = [episode EXCEPT ![j] = @ + 1]
                       /\ HeldMap' = HeldMap => QueueStep
  /\ \A j \in Jobs : Waiting' = Waiting \ {j} /\ episode' = episode /\ HeldMap' = HeldMap
                       => QueueStep
  /\ \A w \in Workers : Waiting' = Waiting /\ episode' = episode
                          /\ HeldMap' = [HeldMap EXCEPT ![w] = {}] => QueueStep
  /\ \A w \in Workers, j \in Waiting :
       Waiting' = Waiting \ {j} /\ episode' = episode
         /\ HeldMap' = [HeldMap EXCEPT ![w] = @ \cup {<<j, episode[j]>>}] => QueueStep
  /\ Waiting' = Waiting /\ episode' = episode /\ HeldMap' = HeldMap => QueueStep
<1> USE DEF QueueStep
<1>1. ASSUME NEW j \in Jobs, Waiting' = Waiting \cup {j}, episode' = [episode EXCEPT ![j] = @ + 1],
             HeldMap' = HeldMap
      PROVE  QueueStep
  <2>1. Queue!Put(j)
    BY <1>1 DEF Queue!Put, Waiting, HeldMap, OwnedBy
  <2> QED  BY <2>1 DEF Queue!Next
<1>5. ASSUME Waiting' = Waiting, episode' = episode, HeldMap' = HeldMap
      PROVE  QueueStep
  BY <1>5 DEF Queue!queueVars, Waiting, HeldMap, OwnedBy
<1>2. ASSUME NEW j \in Jobs, Waiting' = Waiting \ {j}, episode' = episode, HeldMap' = HeldMap
      PROVE  QueueStep
  <2>1. CASE j \in Waiting
    <3>1. Queue!Withdraw(j)
      BY <1>2, <2>1 DEF Queue!Withdraw, Waiting, HeldMap, OwnedBy
    <3> QED  BY <3>1 DEF Queue!Next
  <2>2. CASE j \notin Waiting
    <3>1. Waiting' = Waiting
      BY <1>2, <2>2
    <3> QED  BY <1>2, <1>5, <3>1
  <2> QED  BY <2>1, <2>2
<1>3. ASSUME NEW w \in Workers, Waiting' = Waiting, episode' = episode,
             HeldMap' = [HeldMap EXCEPT ![w] = {}]
      PROVE  QueueStep
  <2>1. Queue!LetGo(w)
    BY <1>3 DEF Queue!LetGo, Waiting, HeldMap, OwnedBy
  <2> QED  BY <2>1 DEF Queue!Next
<1>4. ASSUME NEW w \in Workers, NEW j \in Waiting, Waiting' = Waiting \ {j}, episode' = episode,
             HeldMap' = [HeldMap EXCEPT ![w] = @ \cup {<<j, episode[j]>>}]
      PROVE  QueueStep
  <2>1. Queue!Take(w, j) /\ j \in Jobs
    BY <1>4 DEF Queue!Take, Waiting, HeldMap, OwnedBy
  <2> QED  BY <2>1 DEF Queue!Next
<1> QED  BY <1>1, <1>2, <1>3, <1>4, <1>5

\* Each backend method, when the grants stay as they are: enqueue and release
\* put the job, update_status puts or withdraws it, the others are not seen.
LEMMA MethodsQueue ==
  ASSUME StoreTypeOK, SameHeld
  PROVE  /\ UNCHANGED storeVars => QueueStep
         /\ Tick => QueueStep
         /\ \A j \in Jobs : heartbeat(j) => QueueStep
         /\ \A j \in Jobs : requeue(j) => QueueStep
         /\ \A j \in Jobs : \A x \in JobAttr : enqueue(j, x) => QueueStep
         /\ \A j \in Jobs : \A s \in JobStatus : update_status(j, s) => QueueStep
<1> USE DEF StoreTypeOK
<1>h. HeldMap' = HeldMap
  BY HeldMaps
<1>0. ASSUME UNCHANGED <<status, episode>>  PROVE QueueStep
  BY <1>0, <1>h, QueueSteps DEF Waiting
<1>1. UNCHANGED storeVars => QueueStep
  BY <1>0 DEF storeVars
<1>2. Tick => QueueStep
  BY <1>0 DEF Tick
<1>3. ASSUME NEW j \in Jobs, heartbeat(j)  PROVE QueueStep
  BY <1>0, <1>3 DEF heartbeat
<1>p. ASSUME NEW j \in Jobs, status' = [status EXCEPT ![j] = "queued"],
             episode' = [episode EXCEPT ![j] = @ + 1]
      PROVE  QueueStep
  <2>1. Waiting' = Waiting \cup {j}
    BY <1>p DEF Waiting
  <2> QED  BY <1>h, <1>p, <2>1, QueueSteps
<1>4. ASSUME NEW j \in Jobs, requeue(j)  PROVE QueueStep
  BY <1>p, <1>4 DEF requeue
<1>5. ASSUME NEW j \in Jobs, NEW x \in JobAttr, enqueue(j, x)  PROVE QueueStep
  BY <1>p, <1>5 DEF enqueue
<1>6. ASSUME NEW j \in Jobs, NEW s \in JobStatus, update_status(j, s)  PROVE QueueStep
  <2>1. CASE s = "queued"
    BY <1>p, <1>6, <2>1 DEF update_status
  <2>2. CASE s # "queued"
    <3>1. Waiting' = Waiting \ {j} /\ episode' = episode
      BY <1>6, <2>2 DEF update_status, Waiting
    <3> QED  BY <1>h, <3>1, QueueSteps
  <2> QED  BY <2>1, <2>2
<1> QED
  BY <1>1, <1>2, <1>3, <1>4, <1>5, <1>6

\* Every step of a worker is a step of the abstract queue or invisible there.
LEMMA RunOnceQueue ==
  ASSUME TypeOK, NEW w \in Workers, RunOnce(w)
  PROVE  QueueStep
<1>0. pc[w] \notin {"idle", "stopped", "dead"} => cur[w] \in Jobs
  BY DEF TypeOK, WorkerTypeOK
<1>m. StoreTypeOK
  BY DEF TypeOK
\* A move that keeps the job: no grant changes.
<1>k. ASSUME NEW label, Goto(w, label), cur' = cur, claimEp' = claimEp,
             label \in Owning <=> pc[w] \in Owning
      PROVE  SameHeld
  BY <1>k DEF SameHeld, SameGrants, OwnedBy, Goto, TypeOK, WorkerTypeOK
\* A move of a worker that owns nothing and will own nothing.
<1>g. ASSUME NEW label, Goto(w, label), label \notin Owning, pc[w] \notin Owning,
             \A v \in Workers \ {w} : cur'[v] = cur[v] /\ claimEp'[v] = claimEp[v]
      PROVE  SameHeld
  BY <1>g DEF SameHeld, SameGrants, OwnedBy, Goto, TypeOK, WorkerTypeOK
<1>u. ASSUME SameHeld, UNCHANGED storeVars  PROVE QueueStep
  BY <1>m, <1>u, MethodsQueue
<1>1. CASE SelectJob(w)
  <2>1. SameHeld
    BY <1>1, <1>g DEF SelectJob, Owning, TypeOK, WorkerTypeOK
  <2> QED  BY <1>1, <1>u, <2>1 DEF SelectJob
<1>2. CASE PollEmpty(w)
  <2>1. SameHeld /\ UNCHANGED storeVars
    BY <1>2 DEF PollEmpty, vars, workerVars, SameHeld, SameGrants, OwnedBy
  <2> QED  BY <1>u, <2>1
<1>3. CASE CheckDependency(w)
  <2>1. GiveUp(w) \/ UNCHANGED <<pc, cur, claimEp>>
    BY <1>3 DEF CheckDependency
  <2>2. CASE GiveUp(w)
    <3>1. SameHeld
      BY <1>3, <1>g, <2>2 DEF CheckDependency, GiveUp, Owning, TypeOK, WorkerTypeOK
    <3> QED  BY <1>3, <1>u, <3>1 DEF CheckDependency
  <2>3. CASE UNCHANGED <<pc, cur, claimEp>>
    <3>1. SameHeld
      BY <2>3 DEF SameHeld, SameGrants, OwnedBy
    <3> QED  BY <1>3, <1>u, <3>1 DEF CheckDependency
  <2> QED  BY <2>1, <2>2, <2>3
<1>4. CASE Runnable(w)
  BY <1>4, <1>k, <1>u DEF Runnable, Owning
<1>5. CASE AcquireResources(w)
  <2>1. SameHeld
    BY <1>5, <1>g, <1>k DEF AcquireResources, GiveUp, Owning, TypeOK, WorkerTypeOK
  <2> QED  BY <1>5, <1>u, <2>1 DEF AcquireResources
<1>6. CASE Claim(w) /\ status[cur[w]] # "queued"
  BY <1>6, <1>k, <1>u DEF Claim, claim, Owning
<1>7. CASE Claim(w) /\ status[cur[w]] = "queued"
  <2> DEFINE k == cur[w]
  <2>1. /\ pc[w] = "claim" /\ k \in Jobs /\ k \in Waiting
        /\ pc' = [pc EXCEPT ![w] = "claimed"]
        /\ claimEp' = [claimEp EXCEPT ![w] = episode[k]]
        /\ cur' = cur /\ episode' = episode
        /\ status' = [status EXCEPT ![k] = "running"]
    BY <1>7, <1>0 DEF Claim, claim, Goto, Waiting
  <2>2. Waiting' = Waiting \ {k}
    BY <1>m, <2>1 DEF StoreTypeOK, Waiting
  <2>3. OwnedBy(w) = {} /\ OwnedBy(w)' = {k} /\ claimEp'[w] = episode[k]
    BY <2>1 DEF OwnedBy, Owning, TypeOK, WorkerTypeOK
  <2>4. \A v \in Workers \ {w} : OwnedBy(v)' = OwnedBy(v) /\ claimEp'[v] = claimEp[v]
    BY <2>1 DEF OwnedBy, TypeOK, WorkerTypeOK
  <2> HIDE DEF k
  <2>5. HeldMap[w] = {}
    BY <2>3 DEF HeldMap
  <2>6. {<<j, claimEp'[w]>> : j \in OwnedBy(w)'} = {<<k, episode[k]>>}
    BY <2>3
  <2>7. HeldMap' = [HeldMap EXCEPT ![w] = {<<k, episode[k]>>}]
    BY <2>4, <2>6 DEF HeldMap
  <2>8. HeldMap' = [HeldMap EXCEPT ![w] = @ \cup {<<k, episode[k]>>}]
    BY <2>5, <2>7
  <2> QED  BY <2>1, <2>2, <2>8, QueueSteps
<1>8. CASE StartHandler(w)
  BY <1>8, <1>0, <1>k, <1>m, MethodsQueue DEF StartHandler, Owning
<1>9. CASE HandlerReturns(w) \/ TimesOut(w)
  <2>1. cur[w] \in Jobs /\ "succeeded" \in JobStatus /\ "timeout" \in JobStatus
    BY <1>9, <1>0 DEF HandlerReturns, TimesOut, JobStatus
  <2> QED  BY <1>9, <2>1, <1>m, <1>k, MethodsQueue DEF HandlerReturns, TimesOut, Owning
<1>10. CASE HandlerRaises(w) \/ HandlerEscapes(w) \/ HandlerDrains(w) \/ Notify(w)
  BY <1>10, <1>u, <1>k DEF HandlerRaises, HandlerEscapes, HandlerDrains, Notify, Owning
<1>11. CASE ApplyFallback(w)
  <2>1. /\ cur[w] \in Jobs /\ FallbackStatus(PolicyOf(w)) \in JobStatus
        /\ FallbackNext(PolicyOf(w)) \in Owning
    BY <1>11, <1>0 DEF ApplyFallback, FallbackStatus, FallbackNext, JobStatus, Owning
  <2>2. SameHeld
    BY <1>11, <2>1, <1>k DEF ApplyFallback, Owning
  <2> QED  BY <1>11, <2>1, <2>2, <1>m, MethodsQueue DEF ApplyFallback
<1>12. ASSUME NEW k \in Jobs, EnqueueDeadLetter(w, k)  PROVE QueueStep
  <2>1. CloneInto(attr[cur[w]], DeadLetterQueue) \in JobAttr
    BY <1>12, <1>0, StoredTypes, CloneType, ConfigType DEF EnqueueDeadLetter
  <2> QED  BY <1>12, <2>1, <1>m, <1>k, MethodsQueue DEF EnqueueDeadLetter, Owning
<1>13. CASE UnknownJobType(w) \/ ReleaseJob(w)
  <2>1. LetsGo(w)
    BY <1>13 DEF UnknownJobType, ReleaseJob, EndRun, Goto, LetsGo, SameGrants, OwnedBy, Owning,
                 TypeOK, WorkerTypeOK
  <2>2. UNCHANGED storeVars
    BY <1>13 DEF UnknownJobType, ReleaseJob
  <2> QED  BY <2>1, <2>2, HeldMaps, QueueSteps DEF storeVars, Waiting
<1> QED
  BY <1>1, <1>2, <1>3, <1>4, <1>5, <1>6, <1>7, <1>8, <1>9, <1>10, <1>11, <1>12, <1>13
  DEF RunOnce

\* Every step of the system is a step of the abstract queue or invisible there.
LEMMA OpNextQueue ==
  ASSUME OpTypeOK, [OpNext]_opVars
  PROVE  QueueStep
<1>t. TypeOK /\ StoreTypeOK
  BY DEF OpTypeOK, TypeOK
<1>k. UNCHANGED workerVars => SameHeld
  BY DEF workerVars, SameHeld, SameGrants, OwnedBy
<1>1. ASSUME NEW w \in Workers, RunOnce(w)  PROVE QueueStep
  BY <1>1, <1>t, RunOnceQueue
<1>2. ASSUME NEW j \in Jobs, Submit(j) \/ AdminSubmit(j)  PROVE QueueStep
  BY <1>2, <1>k, <1>t, RequestType, MethodsQueue DEF Submit, AdminSubmit
<1>3. ASSUME NEW w \in Workers, Stop(w) \/ Restart(w)  PROVE QueueStep
  <2>1. SameHeld
    BY <1>3, <1>t DEF Stop, Restart, Goto, SameHeld, SameGrants, OwnedBy, Owning, TypeOK, WorkerTypeOK
  <2> QED  BY <1>3, <1>t, <2>1, MethodsQueue DEF Stop, Restart
<1>4. ASSUME NEW w \in Workers, Crash(w)  PROVE QueueStep
  <2>1. LetsGo(w)
    BY <1>4, <1>t DEF Crash, Goto, LetsGo, SameGrants, OwnedBy, Owning, TypeOK, WorkerTypeOK
  <2> QED  BY <1>4, <2>1, HeldMaps, QueueSteps DEF Crash, storeVars, Waiting
<1>5. CASE Clock
  BY <1>5, <1>k, <1>t, MethodsQueue DEF Clock
<1>6. ASSUME NEW j \in Jobs, CancelJob(j) \/ RetryNow(j)  PROVE QueueStep
  <2>1. "cancelled" \in JobStatus /\ "queued" \in JobStatus
    BY DEF JobStatus
  <2> QED  BY <1>6, <2>1, <1>k, <1>t, MethodsQueue DEF CancelJob, RetryNow
<1>7. ASSUME NEW j \in Jobs, NEW pri \in Priorities, UpdateJob(j, pri)  PROVE QueueStep
  <2>1. status' = status /\ episode' = episode
    BY <1>7 DEF UpdateJob
  <2>2. SameHeld
    BY <1>7, <1>k DEF UpdateJob
  <2> QED  BY <2>1, <2>2, HeldMaps, QueueSteps DEF Waiting
<1>r. ASSUME NEW j \in Jobs, UpdateReleases(j)  PROVE QueueStep
  BY <1>r, <1>k, <1>t, MethodsQueue DEF UpdateReleases
<1>8. ASSUME NEW j \in Jobs, NEW k \in Jobs,
             ResubmitJob(j, k) \/ \E q \in Queues : ReassignQueue(j, k, q)
      PROVE  QueueStep
  <2>1. /\ attr[j].queue_name \in Queues
        /\ \A q \in Queues : CloneInto(attr[j], q) \in JobAttr
    BY <1>t, StoredTypes, CloneType
  <2> QED  BY <1>8, <2>1, <1>k, <1>t, MethodsQueue DEF ResubmitJob, ReassignQueue
<1>9. CASE AdminStep \/ UpdateStep
  BY <1>2, <1>6, <1>7, <1>8, <1>9, <1>r DEF AdminStep, UpdateStep
<1>10. ASSUME NEW j \in Jobs, SweepApply(j)  PROVE QueueStep
  <2>1. verdict[j] \in JobStatus
    BY <1>10 DEF SweepApply, OpTypeOK, SweepTypeOK
  <2> QED  BY <1>10, <2>1, <1>k, <1>t, MethodsQueue DEF SweepApply
<1>11. ASSUME UNCHANGED vars  PROVE QueueStep
  BY <1>11, <1>k, <1>t, MethodsQueue DEF vars
<1>12. CASE SweepStep
  BY <1>10, <1>11, <1>12 DEF SweepStep, SweepBegin, SweepJudge, SweepRaises, SweepSkip, SweepEnd
<1>13. CASE UNCHANGED opVars
  BY <1>11, <1>13 DEF opVars
<1> QED
  BY <1>1, <1>2, <1>3, <1>4, <1>5, <1>9, <1>12, <1>13 DEF OpNext, WorkerNext

\* The memory and SQL backends under workers, administrators and sweeps
\* implement the queue of exclusive claims.
THEOREM PoolImplementsClaimQueue == OpSpec => ImplementsClaimQueue
<1>1. OpInit => Queue!Init
  BY DEF OpInit, Init, StoreInit, Queue!Init, Owning
<1>2. OpTypeOK /\ [OpNext]_opVars => [Queue!Next]_(Queue!queueVars)
  BY OpNextQueue DEF QueueStep
<1> QED
  BY OpTypeCorrect, <1>1, <1>2, PTL DEF OpSpec, ImplementsClaimQueue, Queue!Spec

-----------------------------------------------------------------------------
(* Ownership and the state machine, for workers and JobQueue alone.        *)

\* The statuses the job in hand can have at each phase of run_once.
StatusAt(label) ==
  CASE label \in {"claimed", "running"} -> {"running"}
    [] label = "draining" -> {"timeout"}
    [] label = "except" -> {"running", "timeout"}
    [] label \in {"deadletter", "notify"} -> {"failed"}
    [] label = "finally" -> {"succeeded", "failed", "retry_wait", "running"}
    [] OTHER -> {}

InHand(w) == /\ status[cur[w]] \in StatusAt(pc[w])
             /\ claimEp[w] = episode[cur[w]]
             /\ pc[w] = "finally" /\ status[cur[w]] = "running" => Abandoned(cur[w])

SoleOwner ==
  \A v, w \in Workers : v # w /\ pc[v] \in Owning /\ pc[w] \in Owning => cur[v] # cur[w]

\* What makes RunningIsOwned inductive: without administrators nobody but its
\* one owner writes the status of a claimed job.
OwnershipInv == /\ \A w \in Workers : pc[w] \in Owning => InHand(w)
                /\ SoleOwner
                /\ RunningIsOwned

\* No phase goes with a job that waits or is not there.
LEMMA InHandStatus ==
  ASSUME NEW label \in Owning
  PROVE  StatusAt(label) \subseteq JobStatus \ {"queued"}
BY DEF StatusAt, Owning, JobStatus

\* The owner moves on and writes a status that goes with its next phase; the
\* name in claimed_by may go only when the job stops running.
LEMMA OwnerMoves ==
  ASSUME TypeOK, OwnershipInv, NEW w \in Workers, NEW label \in Owning,
         NEW s \in StatusAt(label), pc[w] \in Owning, cur[w] \in Jobs,
         pc' = [pc EXCEPT ![w] = label], cur' = cur, claimEp' = claimEp,
         episode' = episode, attr' = attr, amiss \subseteq amiss',
         status' = [status EXCEPT ![cur[w]] = s],
         label = "finally" /\ s = "running" => Abandoned(cur[w])',
         s = "running" => status[cur[w]] = "running" /\ claimed_by' = claimed_by,
         \A j \in Jobs \ {cur[w]} : claimed_by'[j] = claimed_by[j],
         s = status[cur[w]] \/ CanTransition(status[cur[w]], s)
  PROVE  OwnershipInv' /\ TransitionAllowed
<1> USE DEF TypeOK, WorkerTypeOK, StoreTypeOK
<1>0. \A v \in Workers : v # w => pc'[v] = pc[v]
  OBVIOUS
<1>1. \A v \in Workers : pc[v] \in Owning => cur[v] \in Jobs
  BY DEF Owning
<1>2. ASSUME NEW v \in Workers, pc'[v] \in Owning  PROVE InHand(v)'
  <2>1. CASE v = w
    BY <2>1 DEF OwnershipInv, InHand
  <2>2. CASE v # w
    <3>1. pc[v] \in Owning /\ cur[v] # cur[w]
      BY <1>0, <1>2, <2>2 DEF OwnershipInv, SoleOwner
    <3>2. status'[cur[v]] = status[cur[v]] /\ pc'[v] = pc[v]
      BY <1>0, <1>1, <2>2, <3>1
    <3> QED  BY <1>0, <1>1, <3>1, <3>2 DEF OwnershipInv, InHand, Abandoned
  <2> QED  BY <2>1, <2>2
<1>3. SoleOwner'
  BY <1>0 DEF OwnershipInv, SoleOwner
<1>4. RunningIsOwned'
  <2> SUFFICES ASSUME NEW j \in Jobs, status'[j] = "running", ~Abandoned(j)'
               PROVE  \E v \in Workers : /\ claimed_by'[j] = v
                                         /\ pc'[v] \in Owning
                                         /\ cur'[v] = j
                                         /\ claimEp'[v] = episode'[j]
    BY DEF RunningIsOwned
  <2>1. status[j] = "running"
    <3>1. CASE j # cur[w]  BY <3>1
    <3>2. CASE j = cur[w]  BY <3>2
    <3> QED  BY <3>1, <3>2
  <2>2. PICK v \in Workers : /\ claimed_by[j] = v
                             /\ pc[v] \in Owning
                             /\ cur[v] = j
                             /\ claimEp[v] = episode[j]
    BY <2>1 DEF OwnershipInv, RunningIsOwned, Abandoned
  <2>3. claimed_by'[j] = v
    <3>1. CASE j # cur[w]  BY <2>2, <3>1
    <3>2. CASE j = cur[w]  BY <2>2, <3>2
    <3> QED  BY <3>1, <3>2
  <2>4. pc'[v] \in Owning
    BY <1>0, <2>2
  <2> QED  BY <2>2, <2>3, <2>4
<1>5. TransitionAllowed
  <2>1. status[cur[w]] # "absent"
    BY InHandStatus DEF OwnershipInv, InHand, JobStatus
  <2> QED  BY <2>1 DEF TransitionAllowed
<1> QED
  BY <1>2, <1>3, <1>4, <1>5 DEF OwnershipInv

\* A job is known to be abandoned after a step.
LeftBehind(j) == <<"unhandled", j>> \in amiss' \/ <<"escaped", j>> \in amiss'

\* A worker that owns nothing before or after, and writes nothing.
LEMMA OtherMoves ==
  ASSUME TypeOK, OwnershipInv, UNCHANGED storeVars, NEW w \in Workers,
         \A v \in Workers \ {w} : /\ pc'[v] = pc[v] /\ cur'[v] = cur[v]
                                  /\ claimEp'[v] = claimEp[v],
         pc'[w] \notin Owning,
         amiss \subseteq amiss',
         pc[w] \in Owning => status[cur[w]] # "running" \/ LeftBehind(cur[w])
  PROVE  OwnershipInv' /\ TransitionAllowed
<1> USE DEF TypeOK, WorkerTypeOK, StoreTypeOK, storeVars
<1>1. ASSUME NEW v \in Workers, pc'[v] \in Owning  PROVE InHand(v)'
  BY <1>1 DEF OwnershipInv, InHand, Abandoned
<1>2. SoleOwner'
  BY DEF OwnershipInv, SoleOwner
<1>3. RunningIsOwned'
  BY DEF OwnershipInv, RunningIsOwned, Abandoned, LeftBehind
<1> QED
  BY <1>1, <1>2, <1>3 DEF OwnershipInv, TransitionAllowed

\* A job that is not there yet is queued, by a submission or as a dead letter.
LEMMA JobArrives ==
  ASSUME TypeOK, OwnershipInv, NEW k \in Absent, NEW x \in JobAttr, enqueue(k, x),
         cur' = cur, claimEp' = claimEp, amiss' = amiss,
         \/ pc' = pc
         \/ \E w \in Workers : pc[w] = "deadletter" /\ pc' = [pc EXCEPT ![w] = "finally"]
  PROVE  OwnershipInv' /\ TransitionAllowed
<1> USE DEF TypeOK, WorkerTypeOK, StoreTypeOK
<1>0. k \in Jobs /\ status[k] = "absent"
  BY DEF Absent
<1>1. \A v \in Workers : /\ pc'[v] \in Owning <=> pc[v] \in Owning
                         /\ pc[v] \in Owning => StatusAt(pc[v]) \subseteq StatusAt(pc'[v])
                         /\ pc[v] \in Owning => cur[v] \in Jobs
                         /\ pc'[v] = pc[v] \/ (pc[v] = "deadletter" /\ pc[v] \in Owning)
  BY DEF Owning, StatusAt
<1>2. \A v \in Workers : pc[v] \in Owning => cur[v] # k
  BY <1>0, <1>1, InHandStatus DEF OwnershipInv, InHand, JobStatus
<1>3. \A j \in Jobs \ {k} : /\ status'[j] = status[j] /\ episode'[j] = episode[j]
                            /\ attr'[j] = attr[j] /\ claimed_by'[j] = claimed_by[j]
  BY <1>0 DEF enqueue
<1>4. status'[k] = "queued"
  BY <1>0 DEF enqueue
<1>5. ASSUME NEW v \in Workers, pc'[v] \in Owning  PROVE InHand(v)'
  <2>1. pc[v] = "deadletter" => status[cur[v]] # "running"
    BY <1>1, <1>5 DEF OwnershipInv, InHand, StatusAt
  <2> QED  BY <1>1, <1>2, <1>3, <1>5, <2>1 DEF OwnershipInv, InHand, Abandoned
<1>6. SoleOwner'
  BY <1>1 DEF OwnershipInv, SoleOwner
<1>7. RunningIsOwned'
  <2> SUFFICES ASSUME NEW j \in Jobs, status'[j] = "running", ~Abandoned(j)'
               PROVE  \E v \in Workers : /\ claimed_by'[j] = v
                                         /\ pc'[v] \in Owning
                                         /\ cur'[v] = j
                                         /\ claimEp'[v] = episode'[j]
    BY DEF RunningIsOwned
  <2>1. j # k /\ status[j] = "running" /\ ~Abandoned(j)
    BY <1>3, <1>4 DEF Abandoned
  <2> QED  BY <1>1, <1>3, <2>1 DEF OwnershipInv, RunningIsOwned
<1> QED
  BY <1>0, <1>3, <1>4, <1>5, <1>6, <1>7 DEF OwnershipInv, TransitionAllowed

\* A won claim: the job is queued, so it is in nobody's hands.
LEMMA OwnerEnters ==
  ASSUME TypeOK, OwnershipInv, NEW w \in Workers, cur[w] \in Jobs, pc[w] \notin Owning,
         claim(w, cur[w]), Goto(w, "claimed"), cur' = cur, amiss' = amiss,
         claimEp' = [claimEp EXCEPT ![w] = episode[cur[w]]]
  PROVE  OwnershipInv' /\ TransitionAllowed
<1> USE DEF TypeOK, WorkerTypeOK, StoreTypeOK
<1>0. /\ status[cur[w]] = "queued" /\ pc' = [pc EXCEPT ![w] = "claimed"]
      /\ status' = [status EXCEPT ![cur[w]] = "running"]
      /\ claimed_by' = [claimed_by EXCEPT ![cur[w]] = w]
      /\ episode' = episode /\ attr' = attr
  BY DEF claim, Goto
<1>1. \A v \in Workers : v # w => pc'[v] = pc[v] /\ claimEp'[v] = claimEp[v]
  BY <1>0
<1>2. \A v \in Workers : pc[v] \in Owning => cur[v] \in Jobs /\ cur[v] # cur[w]
  <2> SUFFICES ASSUME NEW v \in Workers, pc[v] \in Owning
               PROVE  cur[v] \in Jobs /\ cur[v] # cur[w]
    OBVIOUS
  <2>1. status[cur[v]] # "queued"
    BY InHandStatus DEF OwnershipInv, InHand
  <2> QED  BY <1>0, <2>1 DEF Owning
<1>3. pc'[w] = "claimed" /\ claimEp'[w] = episode[cur[w]] /\ "claimed" \in Owning
  BY <1>0 DEF Owning
<1>4. ASSUME NEW v \in Workers, pc'[v] \in Owning  PROVE InHand(v)'
  <2>1. CASE v = w
    BY <1>0, <1>3, <2>1 DEF InHand, StatusAt
  <2>2. CASE v # w
    BY <1>0, <1>1, <1>2, <1>4, <2>2 DEF OwnershipInv, InHand, Abandoned
  <2> QED  BY <2>1, <2>2
<1>5. SoleOwner'
  BY <1>1, <1>2 DEF OwnershipInv, SoleOwner
<1>6. RunningIsOwned'
  <2> SUFFICES ASSUME NEW j \in Jobs, status'[j] = "running", ~Abandoned(j)'
               PROVE  \E v \in Workers : /\ claimed_by'[j] = v
                                         /\ pc'[v] \in Owning
                                         /\ cur'[v] = j
                                         /\ claimEp'[v] = episode'[j]
    BY DEF RunningIsOwned
  <2>1. CASE j = cur[w]
    BY <1>0, <1>3, <2>1
  <2>2. CASE j # cur[w]
    <3>1. PICK v \in Workers : /\ claimed_by[j] = v
                               /\ pc[v] \in Owning
                               /\ cur[v] = j
                               /\ claimEp[v] = episode[j]
      BY <1>0, <2>2 DEF OwnershipInv, RunningIsOwned, Abandoned
    <3>2. v # w  BY <3>1
    <3> QED  BY <1>0, <1>1, <2>2, <3>1, <3>2
  <2> QED  BY <2>1, <2>2
<1>7. TransitionAllowed
  BY <1>0 DEF TransitionAllowed, CanTransition, DEFAULT_TRANSITIONS
<1> QED
  BY <1>4, <1>5, <1>6, <1>7 DEF OwnershipInv

\* A mishap is not forgotten.
LEMMA MishapsStay ==
  ASSUME WorkerNext
  PROVE  amiss \subseteq amiss'
<1>1. ASSUME NEW w \in Workers, RunOnce(w)  PROVE amiss \subseteq amiss'
  BY <1>1 DEF RunOnce, SelectJob, PollEmpty, vars, CheckDependency, Runnable, AcquireResources,
              acquire, Claim, StartHandler, UnknownJobType, HandlerReturns, HandlerRaises,
              HandlerEscapes, TimesOut, HandlerDrains, ApplyFallback, EnqueueDeadLetter, Notify,
              ReleaseJob, release, poolVars
<1> QED  BY <1>1 DEF WorkerNext, Submit, Stop, Restart, poolVars

\* Each phase of run_once keeps ownership and follows the state machine.
LEMMA RunOnceOwnership ==
  ASSUME TypeOK, OwnershipInv, NEW w \in Workers, RunOnce(w)
  PROVE  OwnershipInv' /\ TransitionAllowed
<1> USE DEF TypeOK, WorkerTypeOK
<1>a. pc[w] \notin {"idle", "stopped", "dead"} => cur[w] \in Jobs
  OBVIOUS
<1>m. amiss \subseteq amiss'
  BY MishapsStay DEF WorkerNext
<1>h. pc[w] \in Owning => status[cur[w]] \in StatusAt(pc[w])
  BY DEF OwnershipInv, InHand
<1>g. GiveUp(w) \/ EndRun(w) => /\ pc'[w] \notin Owning
                                /\ \A v \in Workers \ {w} : /\ pc'[v] = pc[v] /\ cur'[v] = cur[v]
                                                            /\ claimEp'[v] = claimEp[v]
  BY DEF GiveUp, EndRun, Goto, Owning
<1>1. CASE SelectJob(w)
  <2>1. /\ pc'[w] \notin Owning /\ pc[w] \notin Owning /\ UNCHANGED storeVars
        /\ \A v \in Workers \ {w} : /\ pc'[v] = pc[v] /\ cur'[v] = cur[v]
                                    /\ claimEp'[v] = claimEp[v]
    BY <1>1 DEF SelectJob, Goto, Owning
  <2> QED  BY <2>1, OtherMoves, <1>m
<1>2. CASE PollEmpty(w)
  <2>1. pc'[w] \notin Owning /\ pc[w] \notin Owning /\ UNCHANGED storeVars
    BY <1>2 DEF PollEmpty, vars, workerVars, Owning
  <2> QED  BY <1>2, <2>1, OtherMoves, <1>m DEF PollEmpty, vars, workerVars
<1>3. CASE CheckDependency(w)
  <2>1. /\ pc'[w] \notin Owning /\ pc[w] \notin Owning /\ UNCHANGED storeVars
        /\ \A v \in Workers \ {w} : /\ pc'[v] = pc[v] /\ cur'[v] = cur[v]
                                    /\ claimEp'[v] = claimEp[v]
    BY <1>3, <1>g DEF CheckDependency, Owning
  <2> QED  BY <2>1, OtherMoves, <1>m
<1>4. CASE Runnable(w)
  <2>1. /\ pc'[w] \notin Owning /\ pc[w] \notin Owning /\ UNCHANGED storeVars
        /\ \A v \in Workers \ {w} : /\ pc'[v] = pc[v] /\ cur'[v] = cur[v]
                                    /\ claimEp'[v] = claimEp[v]
    BY <1>4 DEF Runnable, Goto, Owning
  <2> QED  BY <2>1, OtherMoves, <1>m
<1>5. CASE AcquireResources(w)
  <2>0. GiveUp(w) \/ (Goto(w, "claim") /\ UNCHANGED <<cur, claimEp>>)
    BY <1>5 DEF AcquireResources
  <2>1. /\ pc'[w] \notin Owning /\ pc[w] \notin Owning /\ UNCHANGED storeVars
        /\ \A v \in Workers \ {w} : /\ pc'[v] = pc[v] /\ cur'[v] = cur[v]
                                    /\ claimEp'[v] = claimEp[v]
    BY <1>5, <1>g, <2>0 DEF AcquireResources, Goto, Owning
  <2> QED  BY <2>1, OtherMoves, <1>m
<1>6. CASE Claim(w)
  <2>0. pc[w] \notin Owning /\ cur[w] \in Jobs
    BY <1>6, <1>a DEF Claim, Owning
  <2>1. CASE claim(w, cur[w]) /\ Goto(w, "claimed")
              /\ claimEp' = [claimEp EXCEPT ![w] = episode[cur[w]]]
    BY <1>6, <2>0, <2>1, OwnerEnters DEF Claim, poolVars
  <2>2. CASE Goto(w, "unclaim") /\ UNCHANGED <<storeVars, claimEp>>
    <3>1. /\ pc'[w] \notin Owning /\ UNCHANGED storeVars
          /\ \A v \in Workers \ {w} : /\ pc'[v] = pc[v] /\ cur'[v] = cur[v]
                                      /\ claimEp'[v] = claimEp[v]
      BY <1>6, <2>2 DEF Claim, Goto, Owning
    <3> QED  BY <2>0, <3>1, OtherMoves, <1>m
  <2> QED  BY <1>6, <2>1, <2>2 DEF Claim
<1>7. CASE StartHandler(w)
  <2>1. /\ pc[w] = "claimed" /\ cur[w] \in Jobs /\ pc' = [pc EXCEPT ![w] = "running"]
        /\ status' = status /\ claimed_by' = claimed_by /\ episode' = episode /\ attr' = attr
        /\ cur' = cur /\ claimEp' = claimEp
    BY <1>7, <1>a DEF StartHandler, heartbeat, Goto
  <2>2. pc[w] \in Owning /\ "running" \in Owning /\ status[cur[w]] = "running"
        /\ "running" \in StatusAt("running")
    BY <2>1, <1>h DEF Owning, StatusAt
  <2>3. status' = [status EXCEPT ![cur[w]] = "running"]
    BY <2>1, <2>2 DEF StoreTypeOK
  <2> QED  BY <2>1, <2>2, <2>3, OwnerMoves, <1>m
<1>8. CASE UnknownJobType(w)
  <2>1. /\ pc'[w] \notin Owning /\ UNCHANGED storeVars /\ LeftBehind(cur[w])
        /\ \A v \in Workers \ {w} : /\ pc'[v] = pc[v] /\ cur'[v] = cur[v]
                                    /\ claimEp'[v] = claimEp[v]
    BY <1>8 DEF UnknownJobType, Goto, Owning, LeftBehind
  <2> QED  BY <2>1, OtherMoves, <1>m
<1>u. ASSUME NEW label \in Owning, NEW s \in StatusAt(label), s # "running",
             pc[w] \in Owning, Goto(w, label), update_status(cur[w], s),
             UNCHANGED <<cur, claimEp>>, CanTransition(status[cur[w]], s)
      PROVE  OwnershipInv' /\ TransitionAllowed
  <2>1. cur[w] \in Jobs
    BY <1>a, <1>u DEF Owning
  <2>2. s # "queued"
    BY <1>u, InHandStatus
  <2>3. /\ pc' = [pc EXCEPT ![w] = label] /\ status' = [status EXCEPT ![cur[w]] = s]
        /\ episode' = episode /\ attr' = attr
        /\ \A j \in Jobs \ {cur[w]} : claimed_by'[j] = claimed_by[j]
    BY <1>u, <2>1, <2>2 DEF update_status, Goto, StoreTypeOK
  <2> QED  BY <1>u, <2>1, <2>3, OwnerMoves, <1>m
<1>k. ASSUME NEW label \in Owning, status[cur[w]] \in StatusAt(label), pc[w] \in Owning,
             Goto(w, label), UNCHANGED <<storeVars, cur, claimEp>>,
             label = "finally" /\ status[cur[w]] = "running" => Abandoned(cur[w])'
      PROVE  OwnershipInv' /\ TransitionAllowed
  <2>1. cur[w] \in Jobs
    BY <1>a, <1>k DEF Owning
  <2>2. /\ pc' = [pc EXCEPT ![w] = label] /\ status' = [status EXCEPT ![cur[w]] = status[cur[w]]]
        /\ episode' = episode /\ attr' = attr /\ claimed_by' = claimed_by
    BY <1>k, <2>1 DEF storeVars, Goto, StoreTypeOK
  <2> QED  BY <1>k, <2>1, <2>2, OwnerMoves, <1>m
<1>9. CASE HandlerReturns(w)
  <2>1. pc[w] \in Owning /\ "finally" \in Owning /\ "succeeded" \in StatusAt("finally")
        /\ CanTransition(status[cur[w]], "succeeded")
    BY <1>9, <1>h DEF HandlerReturns, Owning, StatusAt, CanTransition, DEFAULT_TRANSITIONS
  <2> QED  BY <1>9, <2>1, <1>u DEF HandlerReturns
<1>10. CASE HandlerRaises(w)
  <2>1. pc[w] \in Owning /\ "except" \in Owning /\ status[cur[w]] \in StatusAt("except")
    BY <1>10, <1>h DEF HandlerRaises, Owning, StatusAt
  <2> QED  BY <1>10, <2>1, <1>k DEF HandlerRaises
<1>11. CASE TimesOut(w)
  <2>1. pc[w] \in Owning /\ "draining" \in Owning /\ "timeout" \in StatusAt("draining")
        /\ CanTransition(status[cur[w]], "timeout")
    BY <1>11, <1>h DEF TimesOut, Owning, StatusAt, CanTransition, DEFAULT_TRANSITIONS
  <2> QED  BY <1>11, <2>1, <1>u DEF TimesOut
<1>12. CASE HandlerDrains(w)
  <2>1. pc[w] \in Owning /\ "except" \in Owning /\ status[cur[w]] \in StatusAt("except")
    BY <1>12, <1>h DEF HandlerDrains, Owning, StatusAt
  <2> QED  BY <1>12, <2>1, <1>k DEF HandlerDrains
<1>13. CASE ApplyFallback(w)
  <2> DEFINE s == FallbackStatus(PolicyOf(w))
             label == FallbackNext(PolicyOf(w))
  <2>1. pc[w] \in Owning /\ label \in Owning
    BY <1>13 DEF ApplyFallback, FallbackNext, Owning
  <2>2. s \in StatusAt(label) /\ s \in {"retry_wait", "failed"}
    BY DEF FallbackStatus, FallbackNext, StatusAt
  <2>3. status[cur[w]] \in {"running", "timeout"}
    BY <1>13, <1>h, <2>1 DEF ApplyFallback, StatusAt
  <2>4. CanTransition(status[cur[w]], s)
    <3> HIDE DEF s
    <3> QED  BY <2>2, <2>3 DEF CanTransition, DEFAULT_TRANSITIONS
  <2>5. Goto(w, label) /\ update_status(cur[w], s) /\ UNCHANGED <<cur, claimEp>>
    BY <1>13 DEF ApplyFallback
  <2> HIDE DEF s, label
  <2> QED  BY <2>1, <2>2, <2>4, <2>5, <1>u
<1>14. ASSUME NEW k \in Jobs, EnqueueDeadLetter(w, k)  PROVE OwnershipInv' /\ TransitionAllowed
  <2>1. CloneInto(attr[cur[w]], DeadLetterQueue) \in JobAttr
    BY <1>14, <1>a, StoredTypes, CloneType, ConfigType DEF EnqueueDeadLetter
  <2> QED  BY <1>14, <2>1, JobArrives DEF EnqueueDeadLetter, Goto, poolVars
<1>15. CASE Notify(w)
  <2>1. pc[w] \in Owning /\ "finally" \in Owning /\ status[cur[w]] \in StatusAt("finally")
          /\ status[cur[w]] # "running"
    BY <1>15, <1>h DEF Notify, Owning, StatusAt
  <2> QED  BY <1>15, <2>1, <1>k DEF Notify
<1>16. CASE ReleaseJob(w)
  <2>1. pc[w] \in Owning => status[cur[w]] # "running" \/ LeftBehind(cur[w])
    BY <1>16, <1>m DEF ReleaseJob, Owning, OwnershipInv, InHand, Abandoned, LeftBehind
  <2> QED  BY <1>16, <1>g, <2>1, OtherMoves, <1>m DEF ReleaseJob
<1>17. CASE HandlerEscapes(w)
  <2>1. pc[w] \in Owning /\ "finally" \in Owning /\ status[cur[w]] \in StatusAt("finally")
    BY <1>17, <1>h DEF HandlerEscapes, Owning, StatusAt
  <2>2. Abandoned(cur[w])'
    BY <1>17 DEF HandlerEscapes, Abandoned
  <2> QED  BY <1>17, <2>1, <2>2, <1>k DEF HandlerEscapes
<1> QED
  BY <1>1, <1>2, <1>3, <1>4, <1>5, <1>6, <1>7, <1>8, <1>9, <1>10, <1>11, <1>12,
     <1>13, <1>14, <1>15, <1>16, <1>17 DEF RunOnce

\* Submissions, stop and restart do too.
LEMMA WorkerNextOwnership ==
  ASSUME TypeOK, OwnershipInv, WorkerNext
  PROVE  OwnershipInv' /\ TransitionAllowed
<1>1. ASSUME NEW j \in Jobs, Submit(j)  PROVE OwnershipInv' /\ TransitionAllowed
  <2>1. Request[j] \in JobAttr
    BY RequestType
  <2> QED  BY <1>1, <2>1, JobArrives DEF Submit, workerVars, poolVars
<1>2. ASSUME NEW w \in Workers, RunOnce(w)  PROVE OwnershipInv' /\ TransitionAllowed
  BY <1>2, RunOnceOwnership
<1>3. ASSUME NEW w \in Workers, Stop(w) \/ Restart(w)  PROVE OwnershipInv' /\ TransitionAllowed
  <2>1. /\ pc'[w] \notin Owning /\ pc[w] \notin Owning /\ UNCHANGED storeVars
        /\ \A v \in Workers \ {w} : /\ pc'[v] = pc[v] /\ cur'[v] = cur[v]
                                    /\ claimEp'[v] = claimEp[v]
    BY <1>3 DEF Stop, Restart, Goto, Owning, TypeOK, WorkerTypeOK
  <2> QED  BY <2>1, OtherMoves, MishapsStay
<1> QED
  BY <1>1, <1>2, <1>3 DEF WorkerNext

\* The types and the ownership invariant hold of workers and submissions.
LEMMA WorkerOwnership == WorkerSpec => [](TypeOK /\ OwnershipInv)
<1>1. Init => TypeOK
  BY RequestType, MaxNowIsNat
  DEF Init, TypeOK, StoreInit, StoreTypeOK, PoolInit, PoolTypeOK, NoSlots, WorkerTypeOK,
      PC, Time, JobStatus, MaxNowIsNat
<1>2. Init => OwnershipInv
  BY DEF Init, StoreInit, OwnershipInv, SoleOwner, RunningIsOwned, Owning
<1>3. TypeOK /\ OwnershipInv /\ [WorkerNext]_vars => (TypeOK /\ OwnershipInv)'
  <2> SUFFICES ASSUME TypeOK, OwnershipInv, [WorkerNext]_vars
               PROVE  (TypeOK /\ OwnershipInv)'
    OBVIOUS
  <2>1. CASE WorkerNext
    BY <2>1, WorkerNextType, WorkerNextOwnership
  <2>2. CASE UNCHANGED vars
    <3>1. TypeOK'
      BY <2>2 DEF vars, storeVars, poolVars, workerVars, TypeOK, StoreTypeOK, PoolTypeOK,
                  WorkerTypeOK
    <3>2. OwnershipInv'
      BY <2>2 DEF vars, storeVars, poolVars, workerVars, OwnershipInv, InHand, SoleOwner,
                  RunningIsOwned, Abandoned
    <3> QED  BY <3>1, <3>2
  <2> QED  BY <2>1, <2>2
<1> QED
  BY <1>1, <1>2, <1>3, PTL DEF WorkerSpec

\* The claimed_by of a running job names a worker that has it in hand, except
\* after the two outcomes that leave a job running: a type without a handler,
\* and a handler whose exception is no Exception.
THEOREM RunningJobsAreOwned == WorkerSpec => []RunningIsOwned
<1>1. OwnershipInv => RunningIsOwned
  BY DEF OwnershipInv
<1> QED
  BY WorkerOwnership, <1>1, PTL

\* Workers follow DEFAULT_TRANSITIONS although update_status checks nothing.
THEOREM WorkersFollowStateMachine == WorkerSpec => TransitionsEnforced
<1>1. TypeOK /\ OwnershipInv /\ [WorkerNext]_vars => [TransitionAllowed]_vars
  BY WorkerNextOwnership
<1> QED
  BY WorkerOwnership, <1>1, PTL DEF WorkerSpec, TransitionsEnforced
-----------------------------------------------------------------------------
(* The resource pool's ledger.                                             *)

\* A stored job keeps what the pool and the queues go by; one that arrives
\* asks for what its request says, or for nothing.
KeepsNeeds ==
  \A j \in Jobs :
    \/ /\ status[j] # "absent" /\ status'[j] # "absent"
       /\ attr'[j].resources = attr[j].resources
       /\ attr'[j].job_type = attr[j].job_type
       /\ attr'[j].queue_name = attr[j].queue_name
    \/ /\ status[j] = "absent"
       /\ status'[j] = "absent" \/ attr'[j] = Request[j] \/ attr'[j].resources = NoSlots

\* What a step does to the pool and to those who owe it slots.
AtRest == {"idle", "stopped", "dead"}
OthersStand(w) == \A v \in Workers \ {w} : pc'[v] = pc[v] /\ cur'[v] = cur[v]
SelectDoes(w) == /\ UNCHANGED poolVars
                 /\ OthersStand(w)
                 /\ pc[w] = "idle" /\ pc'[w] = "deps"
                 /\ cur'[w] \in InQueue(WorkerQueue[w])
PoolStill == UNCHANGED <<used, holders>> /\ amiss \subseteq amiss'
QuietDoes == /\ PoolStill
             /\ \A v \in Workers :
                  /\ pc'[v] \notin AtRest => pc[v] \notin AtRest /\ cur'[v] = cur[v]
                  /\ pc'[v] \in Holding => pc[v] \in Holding
                  /\ pc[v] \in Holding /\ pc'[v] \notin Holding =>
                       Backend = "sql" \/ <<"unhandled", cur[v]>> \in amiss'
AcquireDoes(w) == /\ OthersStand(w)
                  /\ pc[w] = "acquire" /\ pc'[w] = "claim" /\ cur'[w] = cur[w]
                  /\ acquire(cur[w], StoredResources(cur[w]))
ReleaseDoes(w) == /\ OthersStand(w)
                  /\ pc[w] \in {"finally", "unclaim"} /\ pc'[w] \in AtRest
                  /\ release(cur[w])
LedgerDoes == /\ KeepsNeeds
              /\ QuietDoes \/ \E w \in Workers : SelectDoes(w) \/ AcquireDoes(w) \/ ReleaseDoes(w)

\* No method of the backend changes what a stored job needs.
LEMMA MethodsKeepNeeds ==
  ASSUME StoreTypeOK
  PROVE  /\ UNCHANGED storeVars => KeepsNeeds
         /\ Tick => KeepsNeeds
         /\ \A j \in Jobs : heartbeat(j) => KeepsNeeds
         /\ \A w \in Workers, j \in Jobs : claim(w, j) => KeepsNeeds
         /\ \A j \in Jobs : \A s \in JobStatus : update_status(j, s) => KeepsNeeds
<1> USE DEF StoreTypeOK, KeepsNeeds, JobStatus
<1>1. UNCHANGED storeVars => KeepsNeeds
  BY DEF storeVars
<1>2. Tick => KeepsNeeds
  BY DEF Tick
<1>3. ASSUME NEW j \in Jobs, heartbeat(j)  PROVE KeepsNeeds
  BY <1>3 DEF heartbeat
<1>4. ASSUME NEW w \in Workers, NEW j \in Jobs, claim(w, j)  PROVE KeepsNeeds
  BY <1>4 DEF claim
<1>5. ASSUME NEW j \in Jobs, NEW s \in JobStatus, update_status(j, s)  PROVE KeepsNeeds
  BY <1>5 DEF update_status
<1> QED
  BY <1>1, <1>2, <1>3, <1>4, <1>5

\* Nor does a new job, which brings its request's needs or none.
LEMMA EnqueueKeepsNeeds ==
  ASSUME StoreTypeOK, NEW k \in Absent, NEW x, enqueue(k, x), x = Request[k] \/ x.resources = NoSlots
  PROVE  KeepsNeeds
BY DEF StoreTypeOK, enqueue, KeepsNeeds, Absent

\* A clone needs nothing.
LEMMA CloneNeeds ==
  ASSUME NEW x \in JobAttr, NEW q
  PROVE  CloneInto(x, q).resources = NoSlots
BY DEF CloneInto, JobAttr, NoSlots

\* A worker that moves among the phases that owe slots, or among those that do
\* not, leaves the pool as it is.
LEMMA GotoIsQuiet ==
  ASSUME TypeOK, NEW w \in Workers, NEW label, Goto(w, label), cur' = cur, PoolStill,
         pc[w] \in AtRest => label \in AtRest, pc[w] \in Holding <=> label \in Holding
  PROVE  QuietDoes
BY DEF TypeOK, WorkerTypeOK, Goto, QuietDoes, AtRest

\* Every step of a worker.
LEMMA RunOnceLedger ==
  ASSUME TypeOK, NEW w \in Workers, RunOnce(w)
  PROVE  LedgerDoes
<1>m. StoreTypeOK
  BY DEF TypeOK
<1>0. pc[w] \notin {"idle", "stopped", "dead"} => cur[w] \in Jobs
  BY DEF TypeOK, WorkerTypeOK
<1>s. UNCHANGED storeVars => KeepsNeeds
  BY <1>m, MethodsKeepNeeds
<1>p. UNCHANGED poolVars => PoolStill
  BY DEF poolVars, PoolStill
\* Giving up, before anything was acquired.
<1>e. ASSUME GiveUp(w), pc[w] \in {"deps", "acquire"}, UNCHANGED poolVars  PROVE QuietDoes
  BY <1>e, <1>p DEF GiveUp, Goto, TypeOK, WorkerTypeOK, QuietDoes, AtRest, Holding, Owning
<1>1. CASE SelectJob(w)
  <2>1. PICK j \in dequeue(WorkerQueue[w]) : cur' = [cur EXCEPT ![w] = j] /\ Goto(w, "deps")
    BY <1>1 DEF SelectJob
  <2>2. SelectDoes(w)
    BY <1>1, <2>1 DEF SelectJob, SelectDoes, OthersStand, Goto, dequeue, TypeOK, WorkerTypeOK
  <2> QED  BY <1>1, <1>s, <2>2 DEF SelectJob, LedgerDoes
<1>2. CASE PollEmpty(w)
  <2>1. QuietDoes
    BY <1>2, <1>p DEF PollEmpty, vars, workerVars, QuietDoes
  <2> QED  BY <1>2, <1>s, <2>1 DEF PollEmpty, vars, LedgerDoes
<1>3. CASE CheckDependency(w)
  <2>1. QuietDoes
    <3>1. CASE GiveUp(w)
      BY <1>3, <1>e, <3>1 DEF CheckDependency
    <3>2. CASE UNCHANGED <<pc, cur>>
      BY <1>3, <1>p, <3>2 DEF CheckDependency, QuietDoes
    <3> QED  BY <1>3, <3>1, <3>2 DEF CheckDependency
  <2> QED  BY <1>3, <1>s, <2>1 DEF CheckDependency, LedgerDoes
<1>4. CASE Runnable(w)
  <2>1. QuietDoes
    BY <1>4, <1>p, GotoIsQuiet DEF Runnable, AtRest, Holding, Owning
  <2> QED  BY <1>4, <1>s, <2>1 DEF Runnable, LedgerDoes
<1>5. CASE AcquireResources(w)
  <2>1. KeepsNeeds /\ pc[w] = "acquire"
    BY <1>5, <1>s DEF AcquireResources
  <2>2. CASE GiveUp(w) /\ UNCHANGED poolVars
    BY <1>e, <2>1, <2>2 DEF LedgerDoes
  <2>3. CASE acquire(cur[w], StoredResources(cur[w])) /\ Goto(w, "claim") /\ cur' = cur
    <3>1. AcquireDoes(w)
      BY <2>1, <2>3 DEF AcquireDoes, OthersStand, Goto, TypeOK, WorkerTypeOK
    <3> QED  BY <2>1, <3>1 DEF LedgerDoes
  <2> QED  BY <1>5, <2>2, <2>3 DEF AcquireResources
\* From here on the worker owes what it acquired.
<1>h. ASSUME NEW label \in Holding, Goto(w, label), pc[w] \in Holding, cur' = cur,
             PoolStill, KeepsNeeds
      PROVE  LedgerDoes
  <2>1. QuietDoes
    BY <1>h, GotoIsQuiet DEF AtRest, Holding, Owning
  <2> QED  BY <1>h, <2>1 DEF LedgerDoes
<1>6. CASE Claim(w)
  <2>0. pc[w] = "claim" /\ cur[w] \in Jobs
    BY <1>6, <1>0 DEF Claim
  <2>1. KeepsNeeds
    BY <1>6, <1>s, <1>m, <2>0, MethodsKeepNeeds DEF Claim
  <2> QED  BY <1>6, <1>h, <1>p, <2>0, <2>1 DEF Claim, Holding, Owning
<1>7. CASE StartHandler(w)
  <2>0. pc[w] = "claimed" /\ cur[w] \in Jobs
    BY <1>7, <1>0 DEF StartHandler
  <2>1. KeepsNeeds
    BY <1>7, <1>m, <2>0, MethodsKeepNeeds DEF StartHandler
  <2> QED  BY <1>7, <1>h, <1>p, <2>0, <2>1 DEF StartHandler, Holding, Owning
<1>8. CASE UnknownJobType(w)
  <2>1. QuietDoes
    BY <1>8 DEF UnknownJobType, Goto, QuietDoes, PoolStill, AtRest, Holding, Owning, TypeOK, WorkerTypeOK
  <2> QED  BY <1>8, <1>s, <2>1 DEF UnknownJobType, LedgerDoes
<1>9. CASE HandlerReturns(w) \/ TimesOut(w) \/ ApplyFallback(w)
  <2>0. pc[w] \in Holding /\ cur[w] \in Jobs
    BY <1>9, <1>0 DEF HandlerReturns, TimesOut, ApplyFallback, Holding, Owning
  <2>1. /\ "succeeded" \in JobStatus /\ "timeout" \in JobStatus
        /\ FallbackStatus(PolicyOf(w)) \in JobStatus /\ FallbackNext(PolicyOf(w)) \in Holding
    BY DEF JobStatus, FallbackStatus, FallbackNext, Holding, Owning
  <2>2. KeepsNeeds
    BY <1>9, <1>m, <2>0, <2>1, MethodsKeepNeeds DEF HandlerReturns, TimesOut, ApplyFallback
  <2> QED
    BY <1>9, <1>h, <1>p, <2>0, <2>1, <2>2 DEF HandlerReturns, TimesOut, ApplyFallback, Holding, Owning
<1>10. CASE HandlerRaises(w) \/ HandlerEscapes(w) \/ HandlerDrains(w) \/ Notify(w)
  <2>1. KeepsNeeds
    BY <1>10, <1>s DEF HandlerRaises, HandlerEscapes, HandlerDrains, Notify
  <2>2. HandlerEscapes(w) => PoolStill
    BY DEF HandlerEscapes, PoolStill
  <2> QED
    BY <1>10, <1>h, <1>p, <2>1, <2>2
    DEF HandlerRaises, HandlerEscapes, HandlerDrains, Notify, Holding, Owning
<1>11. ASSUME NEW k \in Jobs, EnqueueDeadLetter(w, k)  PROVE LedgerDoes
  <2>1. CloneInto(attr[cur[w]], DeadLetterQueue).resources = NoSlots
    BY <1>11, <1>0, StoredTypes, CloneNeeds DEF EnqueueDeadLetter
  <2>2. KeepsNeeds
    BY <1>11, <1>m, <2>1, EnqueueKeepsNeeds DEF EnqueueDeadLetter
  <2> QED  BY <1>11, <1>h, <1>p, <2>2 DEF EnqueueDeadLetter, Holding, Owning
<1>12. CASE ReleaseJob(w)
  <2>1. ReleaseDoes(w)
    BY <1>12 DEF ReleaseJob, EndRun, Goto, ReleaseDoes, OthersStand, AtRest, TypeOK, WorkerTypeOK
  <2> QED  BY <1>12, <1>s, <2>1 DEF ReleaseJob, LedgerDoes
<1> QED
  BY <1>1, <1>2, <1>3, <1>4, <1>5, <1>6, <1>7, <1>8, <1>9, <1>10, <1>11, <1>12 DEF RunOnce

\* Submissions, stop and restart.
LEMMA WorkerNextLedger ==
  ASSUME TypeOK, [WorkerNext]_vars
  PROVE  LedgerDoes
<1>m. StoreTypeOK
  BY DEF TypeOK
<1>1. ASSUME NEW j \in Jobs, Submit(j)  PROVE LedgerDoes
  <2>1. KeepsNeeds
    BY <1>1, <1>m, EnqueueKeepsNeeds DEF Submit
  <2>2. QuietDoes
    BY <1>1 DEF Submit, workerVars, QuietDoes, PoolStill, poolVars
  <2> QED  BY <2>1, <2>2 DEF LedgerDoes
<1>2. ASSUME NEW w \in Workers, RunOnce(w)  PROVE LedgerDoes
  BY <1>2, RunOnceLedger
<1>3. ASSUME NEW w \in Workers, Stop(w) \/ Restart(w)  PROVE LedgerDoes
  <2>1. KeepsNeeds
    BY <1>3, <1>m, MethodsKeepNeeds DEF Stop, Restart
  <2>2. QuietDoes
    BY <1>3, GotoIsQuiet DEF PoolStill, poolVars, Stop, Restart, AtRest, Holding, Owning
  <2> QED  BY <2>1, <2>2 DEF LedgerDoes
<1>4. CASE UNCHANGED vars
  <2>1. KeepsNeeds
    BY <1>4, <1>m, MethodsKeepNeeds DEF vars
  <2>2. QuietDoes
    BY <1>4 DEF vars, workerVars, QuietDoes, PoolStill, poolVars
  <2> QED  BY <2>1, <2>2 DEF LedgerDoes
<1> QED
  BY <1>1, <1>2, <1>3, <1>4 DEF WorkerNext

\* Administrators and sweeps touch neither the pool nor what a job needs; a
\* process that dies held no slots.
LEMMA OpNextLedger ==
  ASSUME OpTypeOK, [OpNext]_opVars
  PROVE  LedgerDoes
<1>t. TypeOK /\ StoreTypeOK
  BY DEF OpTypeOK, TypeOK
<1>q. ASSUME UNCHANGED <<poolVars, workerVars>>, KeepsNeeds  PROVE LedgerDoes
  BY <1>q DEF workerVars, QuietDoes, PoolStill, poolVars, LedgerDoes
<1>v. ASSUME UNCHANGED vars  PROVE LedgerDoes
  BY <1>t, <1>v, WorkerNextLedger
<1>1. CASE WorkerNext
  BY <1>t, <1>1, WorkerNextLedger
<1>2. ASSUME NEW j \in Jobs, AdminSubmit(j)  PROVE LedgerDoes
  BY <1>2, <1>t, <1>q, EnqueueKeepsNeeds DEF AdminSubmit
<1>3. ASSUME NEW j \in Jobs, CancelJob(j) \/ RetryNow(j)  PROVE LedgerDoes
  <2>1. "cancelled" \in JobStatus /\ "queued" \in JobStatus
    BY DEF JobStatus
  <2> QED  BY <1>3, <1>t, <1>q, <2>1, MethodsKeepNeeds DEF CancelJob, RetryNow
<1>4. ASSUME NEW j \in Jobs, NEW pri \in Priorities, UpdateJob(j, pri)  PROVE LedgerDoes
  <2>1. \A i \in Jobs : /\ attr'[i].resources = attr[i].resources
                        /\ attr'[i].job_type = attr[i].job_type
                        /\ attr'[i].queue_name = attr[i].queue_name
    BY <1>4, <1>t DEF UpdateJob, StoreTypeOK, JobAttr
  <2>2. KeepsNeeds
    BY <1>4, <1>t, <2>1 DEF UpdateJob, StoreTypeOK, KeepsNeeds
  <2> QED  BY <1>4, <1>q, <2>2 DEF UpdateJob
<1>r. ASSUME NEW j \in Jobs, UpdateReleases(j)  PROVE LedgerDoes
  <2>1. KeepsNeeds
    BY <1>r, <1>t DEF UpdateReleases, requeue, StoreTypeOK, KeepsNeeds
  <2> QED  BY <1>r, <1>q, <2>1 DEF UpdateReleases
<1>5. ASSUME NEW j \in Jobs, NEW k \in Jobs,
             ResubmitJob(j, k) \/ \E q \in Queues : ReassignQueue(j, k, q)
      PROVE  LedgerDoes
  <2>1. \A q : CloneInto(attr[j], q).resources = NoSlots
    BY <1>t, StoredTypes, CloneNeeds
  <2> QED  BY <1>5, <1>t, <1>q, <2>1, EnqueueKeepsNeeds DEF ResubmitJob, ReassignQueue
<1>6. CASE AdminStep \/ UpdateStep
  BY <1>2, <1>3, <1>4, <1>5, <1>6, <1>r DEF AdminStep, UpdateStep
<1>7. ASSUME NEW j \in Jobs, SweepApply(j)  PROVE LedgerDoes
  <2>1. verdict[j] \in JobStatus
    BY <1>7 DEF SweepApply, OpTypeOK, SweepTypeOK
  <2> QED  BY <1>7, <1>t, <1>q, <2>1, MethodsKeepNeeds DEF SweepApply
<1>8. CASE SweepStep
  BY <1>7, <1>8, <1>v DEF SweepStep, SweepBegin, SweepJudge, SweepRaises, SweepSkip, SweepEnd
<1>9. ASSUME NEW w \in Workers, Crash(w)  PROVE LedgerDoes
  <2>1. QuietDoes
    BY <1>9, <1>t DEF Crash, Goto, QuietDoes, PoolStill, poolVars, AtRest, Holding, Owning, TypeOK, WorkerTypeOK
  <2> QED  BY <1>9, <1>t, <2>1, MethodsKeepNeeds DEF Crash, LedgerDoes
<1>10. CASE Clock
  BY <1>10, <1>t, <1>q, MethodsKeepNeeds DEF Clock
<1>11. CASE UNCHANGED opVars
  BY <1>11, <1>v DEF opVars
<1> QED
  BY <1>1, <1>6, <1>8, <1>9, <1>10, <1>11 DEF OpNext

-----------------------------------------------------------------------------
(* Slots in hand.                                                          *)

\* What a stored job needs stays the same.
LEMMA NeedsStay ==
  ASSUME KeepsNeeds, NEW j \in Jobs, status[j] # "absent"
  PROVE  /\ StoredResources(j)' = StoredResources(j)
         /\ status'[j] # "absent"
         /\ attr'[j].queue_name = attr[j].queue_name
BY DEF KeepsNeeds, StoredResources

\* A worker's slots are as many as its job needs.
LEMMA SlotsOfOne ==
  ASSUME NEW w, NEW n \in Nat
  PROVE  IsFiniteSet({w} \X (1..n)) /\ Cardinality({w} \X (1..n)) = n
<1>1. IsFiniteSet({w}) /\ Cardinality({w}) = 1
  BY FS_Singleton
<1>2. IsFiniteSet(1..n) /\ Cardinality(1..n) = n
  <2>1. IsFiniteSet(1..n) /\ Cardinality(1..n) = IF 1 > n THEN 0 ELSE n - 1 + 1
    BY FS_Interval, 1 \in Int, n \in Int
  <2> QED  BY <2>1
<1>3. IsFiniteSet({w} \X (1..n)) /\ Cardinality({w} \X (1..n)) = Cardinality({w}) * Cardinality(1..n)
  BY <1>1, <1>2, FS_Product, Zenon
<1>4. Cardinality({w}) * Cardinality(1..n) = n
  BY <1>1, <1>2
<1> QED  BY <1>3, <1>4, Zenon

\* One worker's slots and those of the others add up.
LEMMA SlotsAddUp ==
  ASSUME NEW S, NEW T, NEW n \in Nat, NEW w,
         T = S \cup ({w} \X (1..n)), S \cap ({w} \X (1..n)) = {}
  PROVE  /\ IsFiniteSet(S) <=> IsFiniteSet(T)
         /\ IsFiniteSet(S) => /\ Cardinality(T) = Cardinality(S) + n
                              /\ Cardinality(S) \in Nat /\ Cardinality(T) \in Nat
<1> DEFINE P == {w} \X (1..n)
<1>1. IsFiniteSet(P) /\ Cardinality(P) = n
  BY SlotsOfOne
<1>2. T = S \cup P /\ S \cap P = {} /\ S \subseteq T
  OBVIOUS
<1> HIDE DEF P
<1>3. IsFiniteSet(T) => IsFiniteSet(S)
  BY <1>2, FS_Subset
<1>4. ASSUME IsFiniteSet(S)
      PROVE  IsFiniteSet(T) /\ Cardinality(T) = Cardinality(S) + n /\ Cardinality(S) \in Nat /\ Cardinality(T) \in Nat
  <2>1. IsFiniteSet(T) /\ Cardinality(T) = Cardinality(S) + Cardinality(P) - Cardinality(S \cap P)
    BY <1>1, <1>2, <1>4, FS_Union
  <2>2. Cardinality(S \cap P) = 0
    BY <1>2, FS_EmptySet
  <2>3. Cardinality(S) \in Nat /\ Cardinality(T) \in Nat
    BY <1>4, <2>1, FS_CardinalityType
  <2> QED  BY <1>1, <2>1, <2>2, <2>3
<1> QED  BY <1>3, <1>4

\* The slots of worker w, before and after a step.
Hand(w, p) == {w} \X (1..StoredResources(cur[w])[p])

\* The slots in hand, worker by worker.
LEMMA SlotsAre ==
  ASSUME NEW p
  PROVE  /\ \A x : x \in SlotsInHand(p) <=> \E w \in SlotHolders : x \in Hand(w, p)
         /\ \A x : x \in SlotsInHand(p)' <=> \E w \in SlotHolders' : x \in Hand(w, p)'
<1>1. \A x : x \in SlotsInHand(p) <=> \E w \in SlotHolders : x \in Hand(w, p)
  BY Zenon DEF SlotsInHand, Hand
<1>2. \A x : x \in SlotsInHand(p)' <=> \E w \in SlotHolders' : x \in Hand(w, p)'
  BY Zenon DEF SlotsInHand, Hand
<1> QED  BY <1>1, <1>2

\* A worker that keeps its job keeps the job's slots.
LEMMA HandStays ==
  ASSUME TypeOK, KeepsNeeds, WorksOnServed, NEW w \in Workers, NEW p,
         pc[w] \notin AtRest, cur'[w] = cur[w]
  PROVE  Hand(w, p)' = Hand(w, p)
<1>1. cur[w] \in Jobs /\ status[cur[w]] # "absent"
  BY DEF TypeOK, WorkerTypeOK, WorksOnServed, AtRest
<1>2. StoredResources(cur[w])' = StoredResources(cur[w])
  BY <1>1 DEF KeepsNeeds, StoredResources
<1> QED  BY <1>2, Zenon DEF Hand

\* Slots of different workers are different.
LEMMA HandsApart ==
  ASSUME NEW v, NEW w, NEW p, NEW x, x \in Hand(v, p), x \in Hand(w, p)
  PROVE  v = w
<1>1. x[1] = v /\ x[1] = w
  BY DEF Hand
<1> QED  BY <1>1

\* Owing slots is being at work.
LEMMA HoldersWork ==
  ASSUME NEW w \in Workers
  PROVE  /\ w \in SlotHolders => pc[w] \notin AtRest
         /\ w \in SlotHolders' => pc'[w] \notin AtRest
BY DEF SlotHolders, AtRest, Holding, Owning

\* A quiet step brings no slots into anyone's hands, and loses none unless a
\* thread ends with some.
LEMMA QuietSlots ==
  ASSUME TypeOK, KeepsNeeds, WorksOnServed, QuietDoes, NEW p
  PROVE  /\ SlotsInHand(p)' \subseteq SlotsInHand(p)
         /\ (\A w \in SlotHolders \ SlotHolders' : Hand(w, p) = {}) => SlotsInHand(p)' = SlotsInHand(p)
<1>1. ASSUME NEW w \in SlotHolders'  PROVE w \in SlotHolders /\ Hand(w, p)' = Hand(w, p)
  <2>1. w \in Workers /\ pc'[w] \in Holding
    BY <1>1 DEF SlotHolders
  <2>2. w \in SlotHolders /\ pc'[w] \notin AtRest
    BY <2>1, HoldersWork DEF SlotHolders, QuietDoes
  <2>3. pc[w] \notin AtRest /\ cur'[w] = cur[w]
    BY <2>1, <2>2 DEF QuietDoes
  <2> QED  BY <2>1, <2>2, <2>3, HandStays
<1>2. SlotsInHand(p)' \subseteq SlotsInHand(p)
  <2>1. ASSUME NEW x, x \in SlotsInHand(p)'  PROVE x \in SlotsInHand(p)
    BY <1>1, <2>1, SlotsAre, Zenon
  <2> QED  BY <2>1
<1>3. ASSUME \A w \in SlotHolders \ SlotHolders' : Hand(w, p) = {}, NEW x, x \in SlotsInHand(p)
      PROVE  x \in SlotsInHand(p)'
  <2>1. PICK w \in SlotHolders : x \in Hand(w, p)
    BY <1>3, SlotsAre, Zenon
  <2>2. w \in SlotHolders'
    BY <1>3, <2>1
  <2> QED  BY <1>1, <2>1, <2>2, SlotsAre, Zenon
<1> QED
  BY <1>2, <1>3

\* A selection leaves all slots where they are.
LEMMA SelectSlots ==
  ASSUME TypeOK, KeepsNeeds, WorksOnServed, NEW w \in Workers, SelectDoes(w), NEW p
  PROVE  SlotsInHand(p)' = SlotsInHand(p)
<1>1. SlotHolders' = SlotHolders /\ w \notin SlotHolders
  BY DEF SelectDoes, OthersStand, SlotHolders, Holding, Owning
<1>2. ASSUME NEW v \in SlotHolders  PROVE Hand(v, p)' = Hand(v, p)
  <2>1. v \in Workers /\ cur'[v] = cur[v] /\ pc[v] \notin AtRest
    BY <1>1, <1>2, HoldersWork DEF SelectDoes, OthersStand, SlotHolders
  <2> QED  BY <2>1, HandStays
<1>3. ASSUME NEW x  PROVE x \in SlotsInHand(p)' <=> x \in SlotsInHand(p)
  BY <1>1, <1>2, SlotsAre, Zenon
<1> QED  BY <1>3

\* acquire adds the worker's slots.
LEMMA AcquireSlots ==
  ASSUME TypeOK, KeepsNeeds, WorksOnServed, NEW w \in Workers, AcquireDoes(w), NEW p
  PROVE  SlotsInHand(p)' = SlotsInHand(p) \cup Hand(w, p) /\ SlotsInHand(p) \cap Hand(w, p) = {}
<1>1. SlotHolders' = SlotHolders \cup {w} /\ w \notin SlotHolders
  BY DEF AcquireDoes, OthersStand, SlotHolders, Holding, Owning
<1>2. ASSUME NEW v \in SlotHolders'  PROVE Hand(v, p)' = Hand(v, p)
  <2>1. v \in Workers /\ cur'[v] = cur[v] /\ pc[v] \notin AtRest
    BY <1>1, <1>2, HoldersWork DEF AcquireDoes, OthersStand, SlotHolders, AtRest
  <2> QED  BY <2>1, HandStays
<1>3. ASSUME NEW x  PROVE x \in SlotsInHand(p)' <=> x \in SlotsInHand(p) \/ x \in Hand(w, p)
  <2>1. /\ x \in SlotsInHand(p) <=> \E v \in SlotHolders : x \in Hand(v, p)
        /\ x \in SlotsInHand(p)' <=> \E v \in SlotHolders' : x \in Hand(v, p)'
    BY SlotsAre, Zenon
  <2>2. x \in SlotsInHand(p)' <=> \E v \in SlotHolders' : x \in Hand(v, p)
    BY <1>2, <2>1, Zenon
  <2>3. (\E v \in SlotHolders' : x \in Hand(v, p)) <=> (\E v \in SlotHolders : x \in Hand(v, p)) \/ x \in Hand(w, p)
    BY <1>1
  <2> QED  BY <2>1, <2>2, <2>3
<1>4. ASSUME NEW x, x \in SlotsInHand(p), x \in Hand(w, p)  PROVE FALSE
  <2>1. PICK v \in SlotHolders : x \in Hand(v, p)
    BY <1>4, SlotsAre, Zenon
  <2> QED  BY <1>1, <1>4, <2>1, HandsApart
<1> QED  BY <1>3, <1>4

\* release takes them away.
LEMMA ReleaseSlots ==
  ASSUME TypeOK, KeepsNeeds, WorksOnServed, NEW w \in Workers, ReleaseDoes(w), NEW p
  PROVE  SlotsInHand(p) = SlotsInHand(p)' \cup Hand(w, p) /\ SlotsInHand(p)' \cap Hand(w, p) = {}
<1>1. SlotHolders = SlotHolders' \cup {w} /\ w \notin SlotHolders'
  BY DEF ReleaseDoes, OthersStand, SlotHolders, Holding, Owning, AtRest
<1>2. ASSUME NEW v \in SlotHolders'  PROVE Hand(v, p)' = Hand(v, p)
  <2>1. v \in Workers /\ cur'[v] = cur[v] /\ pc[v] \notin AtRest
    BY <1>1, <1>2, HoldersWork DEF ReleaseDoes, OthersStand, SlotHolders
  <2> QED  BY <2>1, HandStays
<1>3. ASSUME NEW x  PROVE x \in SlotsInHand(p) <=> x \in SlotsInHand(p)' \/ x \in Hand(w, p)
  <2>1. /\ x \in SlotsInHand(p) <=> \E v \in SlotHolders : x \in Hand(v, p)
        /\ x \in SlotsInHand(p)' <=> \E v \in SlotHolders' : x \in Hand(v, p)'
    BY SlotsAre, Zenon
  <2>2. x \in SlotsInHand(p)' <=> \E v \in SlotHolders' : x \in Hand(v, p)
    BY <1>2, <2>1, Zenon
  <2>3. (\E v \in SlotHolders : x \in Hand(v, p)) <=> (\E v \in SlotHolders' : x \in Hand(v, p)) \/ x \in Hand(w, p)
    BY <1>1
  <2> QED  BY <2>1, <2>2, <2>3
<1>4. ASSUME NEW x, x \in SlotsInHand(p)', x \in Hand(w, p)  PROVE FALSE
  <2>1. PICK v \in SlotHolders' : x \in Hand(v, p)'
    BY <1>4, SlotsAre, Zenon
  <2>2. x \in Hand(v, p)
    BY <1>2, <2>1
  <2> QED  BY <1>1, <1>4, <2>1, <2>2, HandsApart
<1> QED  BY <1>3, <1>4

\* Every step keeps a worker on a stored job of a queue it serves.
LEMMA ServedSteps ==
  ASSUME TypeOK, TypeOK', WorksOnServed, LedgerDoes
  PROVE  WorksOnServed'
<1>1. KeepsNeeds
  BY DEF LedgerDoes
<1>2. ASSUME NEW v \in Workers, pc'[v] \notin AtRest
      PROVE  status'[cur'[v]] # "absent" /\ WorkerQueue[v] \in {None, attr'[cur'[v]].queue_name}
  <2>1. CASE pc[v] \notin AtRest /\ cur'[v] = cur[v]
    <3>1. /\ cur[v] \in Jobs /\ status[cur[v]] # "absent"
          /\ WorkerQueue[v] \in {None, attr[cur[v]].queue_name}
      BY <2>1 DEF TypeOK, WorkerTypeOK, WorksOnServed, Serves, AtRest
    <3> QED  BY <1>1, <2>1, <3>1, NeedsStay
  <2>2. CASE SelectDoes(v)
    <3>1. /\ cur'[v] \in Jobs /\ status[cur'[v]] # "absent"
          /\ WorkerQueue[v] \in {None, attr[cur'[v]].queue_name}
      BY <2>2 DEF SelectDoes, InQueue
    <3> QED  BY <1>1, <3>1, NeedsStay
  <2>3. CASE QuietDoes
    BY <1>2, <2>1, <2>3 DEF QuietDoes
  <2>4. ASSUME NEW w \in Workers, SelectDoes(w) \/ AcquireDoes(w) \/ ReleaseDoes(w)
        PROVE  SelectDoes(v) \/ (pc[v] \notin AtRest /\ cur'[v] = cur[v])
    BY <1>2, <2>4 DEF SelectDoes, AcquireDoes, ReleaseDoes, OthersStand, AtRest
  <2> QED  BY <2>1, <2>2, <2>3, <2>4 DEF LedgerDoes
<1> QED
  BY <1>2 DEF WorksOnServed, Serves, AtRest

\* Every step keeps the entries of _holders true.
LEMMA HolderSteps ==
  ASSUME TypeOK, WorksOnServed, HoldersAgree, LedgerDoes
  PROVE  HoldersAgree'
<1>1. KeepsNeeds
  BY DEF LedgerDoes
<1>2. ASSUME NEW j \in Jobs, holders'[j] # None
      PROVE  status'[j] # "absent" /\ holders'[j] = StoredResources(j)'
  <2>1. CASE holders'[j] = holders[j]
    BY <1>1, <1>2, <2>1, NeedsStay DEF HoldersAgree
  <2>2. ASSUME NEW w \in Workers, AcquireDoes(w)
        PROVE  holders'[j] = holders[j] \/ (status[j] # "absent" /\ holders'[j] = StoredResources(j))
    <3>1. cur[w] \in Jobs /\ status[cur[w]] # "absent"
      BY <2>2 DEF AcquireDoes, TypeOK, WorkerTypeOK, WorksOnServed
    <3> QED  BY <2>2, <3>1 DEF AcquireDoes, acquire, poolVars, TypeOK, PoolTypeOK
  <2>3. ASSUME NEW w \in Workers, ReleaseDoes(w)
        PROVE  holders'[j] = holders[j]
    BY <1>2, <2>3 DEF ReleaseDoes, release, TypeOK, PoolTypeOK
  <2>4. ASSUME QuietDoes \/ \E w \in Workers : SelectDoes(w)  PROVE holders'[j] = holders[j]
    BY <2>4 DEF QuietDoes, PoolStill, SelectDoes, poolVars
  <2> QED  BY <1>1, <2>1, <2>2, <2>3, <2>4, NeedsStay DEF LedgerDoes
<1> QED
  BY <1>2 DEF HoldersAgree

-----------------------------------------------------------------------------
(* The pool is never oversubscribed.                                       *)

\* The slots in hand before and after a step that moves n of them.
LEMMA SlotCounts ==
  ASSUME NEW w, NEW p, NEW S, NEW T, StoredResources(cur[w])[p] \in Nat, IsFiniteSet(S) \/ IsFiniteSet(T),
         T = S \cup Hand(w, p), S \cap Hand(w, p) = {}
  PROVE  /\ IsFiniteSet(S) /\ IsFiniteSet(T)
         /\ Cardinality(S) \in Nat /\ Cardinality(T) \in Nat
         /\ Cardinality(T) = Cardinality(S) + StoredResources(cur[w])[p]
<1>1. T = S \cup ({w} \X (1..StoredResources(cur[w])[p])) /\ S \cap ({w} \X (1..StoredResources(cur[w])[p])) = {}
  BY DEF Hand
<1> QED  BY <1>1, SlotsAddUp, ZenonT(60)

\* Slots that are covered stay so.
LEMMA CoverSteps ==
  ASSUME TypeOK, PoolInv, LedgerDoes, NEW p \in Pools
  PROVE  /\ IsFiniteSet(SlotsInHand(p))' /\ Cardinality(SlotsInHand(p))' <= used'[p]
         /\ p \in DOMAIN Limit => used'[p] <= Limit[p]
<1>0. KeepsNeeds /\ WorksOnServed /\ HoldersAgree
  BY DEF LedgerDoes, PoolInv
<1>1. /\ used[p] \in Nat
      /\ IsFiniteSet(SlotsInHand(p)) /\ Cardinality(SlotsInHand(p)) <= used[p]
      /\ p \in DOMAIN Limit => used[p] <= Limit[p] /\ Limit[p] \in Nat
  BY LimitType DEF PoolInv, TypeOK, PoolTypeOK
<1>2. ASSUME NEW w \in Workers, pc[w] \notin AtRest
      PROVE  /\ cur[w] \in Jobs /\ StoredResources(cur[w]) \in [Pools -> Nat]
             /\ StoredResources(cur[w])[p] \in Nat
  <2>1. cur[w] \in Jobs
    BY <1>2 DEF TypeOK, WorkerTypeOK, AtRest
  <2> QED  BY <2>1, StoredTypes
<1>3. ASSUME UNCHANGED used, SlotsInHand(p)' \subseteq SlotsInHand(p)
      PROVE  /\ IsFiniteSet(SlotsInHand(p)') /\ Cardinality(SlotsInHand(p)') <= used'[p]
             /\ p \in DOMAIN Limit => used'[p] <= Limit[p]
  <2>1. /\ IsFiniteSet(SlotsInHand(p)') /\ Cardinality(SlotsInHand(p)') <= Cardinality(SlotsInHand(p))
    BY <1>1, <1>3, FS_Subset
  <2>2. Cardinality(SlotsInHand(p)') \in Nat /\ Cardinality(SlotsInHand(p)) \in Nat
    BY <1>1, <2>1, FS_CardinalityType
  <2> QED  BY <1>1, <1>3, <2>1, <2>2
<1>4. CASE QuietDoes
  <2>1. SlotsInHand(p)' \subseteq SlotsInHand(p)
    BY <1>0, <1>4, QuietSlots
  <2> QED  BY <1>3, <1>4, <2>1 DEF QuietDoes, PoolStill
<1>5. ASSUME NEW w \in Workers, SelectDoes(w)
      PROVE  /\ IsFiniteSet(SlotsInHand(p)') /\ Cardinality(SlotsInHand(p)') <= used'[p]
             /\ p \in DOMAIN Limit => used'[p] <= Limit[p]
  <2>1. SlotsInHand(p)' = SlotsInHand(p)
    BY <1>0, <1>5, SelectSlots
  <2> QED  BY <1>3, <1>5, <2>1 DEF SelectDoes, poolVars
<1>6. ASSUME NEW w \in Workers, AcquireDoes(w)
      PROVE  /\ IsFiniteSet(SlotsInHand(p)') /\ Cardinality(SlotsInHand(p)') <= used'[p]
             /\ p \in DOMAIN Limit => used'[p] <= Limit[p]
  <2>1. SlotsInHand(p)' = SlotsInHand(p) \cup Hand(w, p) /\ SlotsInHand(p) \cap Hand(w, p) = {}
    BY <1>0, <1>6, AcquireSlots
  <2>2. StoredResources(cur[w]) \in [Pools -> Nat] /\ StoredResources(cur[w])[p] \in Nat
    BY <1>2, <1>6 DEF AcquireDoes, AtRest
  <2>3. /\ IsFiniteSet(SlotsInHand(p)')
        /\ Cardinality(SlotsInHand(p)) \in Nat /\ Cardinality(SlotsInHand(p)') \in Nat
        /\ Cardinality(SlotsInHand(p)') = Cardinality(SlotsInHand(p)) + StoredResources(cur[w])[p]
    BY <1>1, <2>1, <2>2, SlotCounts
  <2>4. /\ used'[p] = used[p] + StoredResources(cur[w])[p]
        /\ p \in DOMAIN Limit => used'[p] <= Limit[p]
    <3>1. CASE StoredResources(cur[w]) = NoSlots
      BY <1>1, <1>6, <3>1 DEF AcquireDoes, acquire, NoSlots, poolVars
    <3>2. CASE StoredResources(cur[w]) # NoSlots
      BY <1>1, <1>6, <2>2, <3>2 DEF AcquireDoes, acquire, can_acquire
    <3> QED  BY <3>1, <3>2
  <2> QED  BY <1>1, <2>2, <2>3, <2>4
<1>7. ASSUME NEW w \in Workers, ReleaseDoes(w)
      PROVE  /\ IsFiniteSet(SlotsInHand(p)') /\ Cardinality(SlotsInHand(p)') <= used'[p]
             /\ p \in DOMAIN Limit => used'[p] <= Limit[p]
  <2>1. SlotsInHand(p) = SlotsInHand(p)' \cup Hand(w, p) /\ SlotsInHand(p)' \cap Hand(w, p) = {}
    BY <1>0, <1>7, ReleaseSlots
  <2>2. cur[w] \in Jobs /\ StoredResources(cur[w])[p] \in Nat
    BY <1>2, <1>7 DEF ReleaseDoes, AtRest
  <2>3. /\ IsFiniteSet(SlotsInHand(p)')
        /\ Cardinality(SlotsInHand(p)) \in Nat /\ Cardinality(SlotsInHand(p)') \in Nat
        /\ Cardinality(SlotsInHand(p)) = Cardinality(SlotsInHand(p)') + StoredResources(cur[w])[p]
    BY <1>1, <2>1, <2>2, SlotCounts
  <2>4. CASE holders[cur[w]] = None
    <3>1. used'[p] = used[p]
      BY <1>7, <2>4 DEF ReleaseDoes, release
    <3> QED  BY <1>1, <2>2, <2>3, <3>1
  <2>5. CASE holders[cur[w]] # None
    <3>1. holders[cur[w]] = StoredResources(cur[w])
      BY <1>0, <2>2, <2>5 DEF HoldersAgree
    <3>2. used'[p] = IF used[p] > StoredResources(cur[w])[p] THEN used[p] - StoredResources(cur[w])[p] ELSE 0
      BY <1>7, <2>5, <3>1 DEF ReleaseDoes, release
    <3> QED  BY <1>1, <2>2, <2>3, <3>2
  <2> QED  BY <2>4, <2>5
<1> QED
  BY <1>4, <1>5, <1>6, <1>7 DEF LedgerDoes

\* No pool hands out more slots than its limit, and all slots of workers
\* between acquire and release_job are accounted for, although two workers
\* that acquired for the same job share its one entry of _holders: an entry
\* says what its job asks for, so the first release gives back no more than
\* its own worker held.
THEOREM SlotsNeverOversubscribed == OpSpec => []NeverOversubscribed
<1>1. OpInit /\ OpTypeOK => PoolInv
  <2> SUFFICES ASSUME OpInit, OpTypeOK  PROVE PoolInv
    OBVIOUS
  <2>1. SlotHolders = {}
    BY DEF OpInit, Init, SlotHolders, Holding, Owning
  <2>2. \A p : SlotsInHand(p) = {}
    BY <2>1 DEF SlotsInHand
  <2>3. IsFiniteSet({}) /\ Cardinality({}) = 0
    BY FS_EmptySet
  <2>4. used = NoSlots /\ \A j \in Jobs : holders[j] = None
    BY DEF OpInit, Init, PoolInit
  <2>5. \A p \in DOMAIN Limit : used[p] <= Limit[p]
    BY <2>4, LimitType DEF NoSlots
  <2>6. \A p \in Pools : IsFiniteSet(SlotsInHand(p)) /\ Cardinality(SlotsInHand(p)) <= used[p]
    BY <2>2, <2>3, <2>4 DEF NoSlots
  <2>7. WorksOnServed
    BY DEF OpInit, Init, WorksOnServed
  <2> QED  BY <2>4, <2>5, <2>6, <2>7 DEF PoolInv, HoldersAgree
<1>2. OpTypeOK /\ OpTypeOK' /\ PoolInv /\ [OpNext]_opVars => PoolInv'
  <2> SUFFICES ASSUME OpTypeOK, OpTypeOK', PoolInv, [OpNext]_opVars  PROVE PoolInv'
    OBVIOUS
  <2>1. LedgerDoes /\ TypeOK /\ TypeOK'
    BY OpNextLedger DEF OpTypeOK
  <2>2. WorksOnServed' /\ HoldersAgree'
    BY <2>1, ServedSteps, HolderSteps DEF PoolInv
  <2>3. \A p \in Pools : /\ IsFiniteSet(SlotsInHand(p))' /\ Cardinality(SlotsInHand(p))' <= used'[p]
                         /\ p \in DOMAIN Limit => used'[p] <= Limit[p]
    BY <2>1, CoverSteps
  <2> QED  BY <2>2, <2>3, LimitType DEF PoolInv
<1>3. PoolInv => NeverOversubscribed
  BY LimitType DEF PoolInv, NeverOversubscribed
<1> QED
  BY OpTypeCorrect, <1>1, <1>2, <1>3, PTL DEF OpSpec

-----------------------------------------------------------------------------
(* Every slot comes back.                                                  *)

\* What went amiss stays known, so a step after which nothing is lost is one
\* before which nothing was.
LEMMA NothingLostYet ==
  ASSUME LedgerDoes, NoSlotLost'
  PROVE  NoSlotLost
<1>1. amiss \subseteq amiss'
  BY DEF LedgerDoes, QuietDoes, PoolStill, SelectDoes, AcquireDoes, acquire, ReleaseDoes, release, poolVars
<1> QED  BY <1>1 DEF NoSlotLost

\* What max(0, used - slots) leaves of a sum.
LEMMA GiveBack ==
  ASSUME NEW u \in Nat, NEW c \in Nat, NEW n \in Nat, u = c + n
  PROVE  c = (IF u > n THEN u - n ELSE 0) /\ (n = 0 => c = u)
OBVIOUS

\* What the pool has handed out stays what the workers hold.
LEMMA ExactSteps ==
  ASSUME TypeOK, LedgerInv, LedgerDoes, NoSlotLost', NEW p \in Pools
  PROVE  IsFiniteSet(SlotsInHand(p))' /\ Cardinality(SlotsInHand(p))' = used'[p]
<1>0. KeepsNeeds /\ WorksOnServed /\ HoldersAgree /\ EntryEach
  BY NothingLostYet DEF LedgerDoes, LedgerInv
<1>1. used[p] \in Nat /\ IsFiniteSet(SlotsInHand(p)) /\ Cardinality(SlotsInHand(p)) = used[p]
  BY NothingLostYet DEF LedgerInv, TypeOK, PoolTypeOK
<1>2. ASSUME NEW w \in Workers, pc[w] \notin AtRest
      PROVE  /\ cur[w] \in Jobs /\ StoredResources(cur[w]) \in [Pools -> Nat]
             /\ StoredResources(cur[w])[p] \in Nat
  <2>1. cur[w] \in Jobs
    BY <1>2 DEF TypeOK, WorkerTypeOK, AtRest
  <2> QED  BY <2>1, StoredTypes
<1>3. CASE QuietDoes
  <2>1. ASSUME NEW w \in SlotHolders \ SlotHolders'  PROVE Hand(w, p) = {}
    <3>1. w \in Workers /\ pc[w] \in Holding /\ pc'[w] \notin Holding
      BY <2>1 DEF SlotHolders
    <3>2. pc[w] \notin AtRest /\ (Backend = "sql" \/ <<"unhandled", cur[w]>> \in amiss')
      BY <1>3, <3>1, HoldersWork DEF QuietDoes, SlotHolders
    <3>3. Backend = "sql"
      BY <1>2, <3>1, <3>2 DEF NoSlotLost
    <3>4. StoredResources(cur[w])[p] = 0
      BY <3>3 DEF StoredResources
    <3>5. 1..StoredResources(cur[w])[p] = {}
      BY <3>4
    <3> QED  BY <3>5 DEF Hand
  <2>2. SlotsInHand(p)' = SlotsInHand(p)
    BY <1>0, <1>3, <2>1, QuietSlots
  <2> QED  BY <1>1, <1>3, <2>2 DEF QuietDoes, PoolStill
<1>4. ASSUME NEW w \in Workers, SelectDoes(w)
      PROVE  IsFiniteSet(SlotsInHand(p)') /\ Cardinality(SlotsInHand(p)') = used'[p]
  <2>1. SlotsInHand(p)' = SlotsInHand(p)
    BY <1>0, <1>4, SelectSlots
  <2> QED  BY <1>1, <1>4, <2>1 DEF SelectDoes, poolVars
<1>5. ASSUME NEW w \in Workers, AcquireDoes(w)
      PROVE  IsFiniteSet(SlotsInHand(p)') /\ Cardinality(SlotsInHand(p)') = used'[p]
  <2>1. SlotsInHand(p)' = SlotsInHand(p) \cup Hand(w, p) /\ SlotsInHand(p) \cap Hand(w, p) = {}
    BY <1>0, <1>5, AcquireSlots
  <2>2. StoredResources(cur[w]) \in [Pools -> Nat] /\ StoredResources(cur[w])[p] \in Nat
    BY <1>2, <1>5 DEF AcquireDoes, AtRest
  <2>3. /\ IsFiniteSet(SlotsInHand(p)')
        /\ Cardinality(SlotsInHand(p)') = Cardinality(SlotsInHand(p)) + StoredResources(cur[w])[p]
    BY <1>1, <2>1, <2>2, SlotCounts
  <2>4. used'[p] = used[p] + StoredResources(cur[w])[p]
    <3>1. CASE StoredResources(cur[w]) = NoSlots
      BY <1>1, <1>5, <3>1 DEF AcquireDoes, acquire, NoSlots, poolVars
    <3>2. CASE StoredResources(cur[w]) # NoSlots
      BY <1>1, <1>5, <2>2, <3>2 DEF AcquireDoes, acquire, can_acquire
    <3> QED  BY <3>1, <3>2
  <2> QED  BY <1>1, <2>3, <2>4
<1>6. ASSUME NEW w \in Workers, ReleaseDoes(w)
      PROVE  IsFiniteSet(SlotsInHand(p)') /\ Cardinality(SlotsInHand(p)') = used'[p]
  <2>1. SlotsInHand(p) = SlotsInHand(p)' \cup Hand(w, p) /\ SlotsInHand(p)' \cap Hand(w, p) = {}
    BY <1>0, <1>6, ReleaseSlots
  <2>2. cur[w] \in Jobs /\ StoredResources(cur[w])[p] \in Nat
    BY <1>2, <1>6 DEF ReleaseDoes, AtRest
  <2>3. /\ IsFiniteSet(SlotsInHand(p)')
        /\ Cardinality(SlotsInHand(p)) \in Nat /\ Cardinality(SlotsInHand(p)') \in Nat
        /\ Cardinality(SlotsInHand(p)) = Cardinality(SlotsInHand(p)') + StoredResources(cur[w])[p]
    BY <1>1, <2>1, <2>2, SlotCounts
  <2>c. /\ Cardinality(SlotsInHand(p)') = IF used[p] > StoredResources(cur[w])[p]
                                          THEN used[p] - StoredResources(cur[w])[p] ELSE 0
        /\ StoredResources(cur[w])[p] = 0 => Cardinality(SlotsInHand(p)') = used[p]
    <3>1. used[p] = Cardinality(SlotsInHand(p)') + StoredResources(cur[w])[p]
      BY <1>1, <2>3
    <3> QED  BY <1>1, <2>2, <2>3, <3>1, GiveBack
  <2>4. CASE holders[cur[w]] = None
    <3>1. w \in SlotHolders
      BY <1>6 DEF ReleaseDoes, SlotHolders, Holding, Owning
    <3>2. StoredResources(cur[w])[p] = 0
      BY <1>0, <2>4, <3>1 DEF EntryEach, NoSlots
    <3>3. used'[p] = used[p]
      BY <1>6, <2>4 DEF ReleaseDoes, release
    <3> QED  BY <2>3, <2>c, <3>2, <3>3
  <2>5. CASE holders[cur[w]] # None
    <3>1. holders[cur[w]] = StoredResources(cur[w])
      BY <1>0, <2>2, <2>5 DEF HoldersAgree
    <3>2. used'[p] = IF used[p] > StoredResources(cur[w])[p] THEN used[p] - StoredResources(cur[w])[p] ELSE 0
      BY <1>6, <2>5, <3>1 DEF ReleaseDoes, release
    <3> QED  BY <2>3, <2>c, <3>2
  <2> QED  BY <2>4, <2>5
<1> QED
  BY <1>3, <1>4, <1>5, <1>6 DEF LedgerDoes

\* A worker that holds slots keeps its entry of _holders until it releases
\* them, as nobody else has acquired for its job.
LEMMA EntrySteps ==
  ASSUME TypeOK, LedgerInv, LedgerDoes, NoSlotLost',
         NEW v \in SlotHolders', StoredResources(cur[v])' # NoSlots
  PROVE  holders'[cur'[v]] # None
<1>0. KeepsNeeds /\ WorksOnServed /\ EntryEach
  BY NothingLostYet DEF LedgerDoes, LedgerInv
<1>1. v \in Workers /\ pc'[v] \in Holding /\ pc'[v] \notin AtRest
  BY HoldersWork DEF SlotHolders
<1>2. ASSUME pc[v] \notin AtRest, cur'[v] = cur[v]
      PROVE  /\ cur[v] \in Jobs /\ StoredResources(cur[v]) # NoSlots
             /\ StoredResources(cur[v]) \in [Pools -> Nat]
             /\ pc[v] \in Holding => holders[cur[v]] # None
  <2>1. cur[v] \in Jobs /\ status[cur[v]] # "absent"
    BY <1>0, <1>1, <1>2 DEF WorksOnServed, TypeOK, WorkerTypeOK, AtRest
  <2>2. StoredResources(cur[v])' = StoredResources(cur[v])
    BY <1>0, <1>2, <2>1 DEF KeepsNeeds, StoredResources
  <2>3. StoredResources(cur[v]) \in [Pools -> Nat]
    BY <2>1, StoredTypes
  <2>4. pc[v] \in Holding => holders[cur[v]] # None
    BY <1>0, <1>1, <2>2 DEF EntryEach, SlotHolders
  <2> QED  BY <2>1, <2>2, <2>3, <2>4
<1>3. CASE QuietDoes
  BY <1>1, <1>2, <1>3 DEF QuietDoes, PoolStill
<1>4. ASSUME NEW w \in Workers, SelectDoes(w)  PROVE holders'[cur'[v]] # None
  <2>1. v # w /\ pc[v] = pc'[v] /\ cur'[v] = cur[v]
    BY <1>1, <1>4 DEF SelectDoes, OthersStand, Holding, Owning
  <2> QED  BY <1>1, <1>2, <1>4, <2>1 DEF SelectDoes, poolVars
<1>5. ASSUME NEW w \in Workers, AcquireDoes(w)  PROVE holders'[cur'[v]] # None
  <2>1. pc[v] \notin AtRest /\ cur'[v] = cur[v] /\ (v # w => pc[v] \in Holding)
    BY <1>1, <1>5 DEF AcquireDoes, OthersStand, AtRest
  <2>2. cur[w] \in Jobs
    BY <1>5 DEF AcquireDoes, TypeOK, WorkerTypeOK
  <2>3. StoredResources(cur[w]) \in [Pools -> Nat]
    BY <2>2, StoredTypes
  <2>4. StoredResources(cur[w]) # None
    BY <2>3, NoneIsNoEntry
  <2>5. holders' = holders \/ holders' = [holders EXCEPT ![cur[w]] = StoredResources(cur[w])]
    BY <1>5 DEF AcquireDoes, acquire, poolVars
  <2>6. holders \in [Jobs -> [Pools -> Nat] \cup {None}]
    BY DEF TypeOK, PoolTypeOK
  <2>7. CASE v # w
    BY <1>2, <2>1, <2>4, <2>5, <2>6, <2>7
  <2>8. CASE v = w
    <3>1. holders' = [holders EXCEPT ![cur[w]] = StoredResources(cur[w])]
      BY <1>2, <1>5, <2>1, <2>8 DEF AcquireDoes, acquire
    <3> QED  BY <2>1, <2>2, <2>4, <2>6, <2>8, <3>1
  <2> QED  BY <2>7, <2>8
<1>6. ASSUME NEW w \in Workers, ReleaseDoes(w)  PROVE holders'[cur'[v]] # None
  <2>1. v # w /\ pc[v] = pc'[v] /\ cur'[v] = cur[v] /\ pc[w] \notin AtRest
    BY <1>1, <1>6 DEF ReleaseDoes, OthersStand, AtRest
  <2>2. cur[v] # cur[w]
    <3>1. v \in SlotHolders /\ w \in SlotHolders /\ StoredResources(cur[v]) # NoSlots
      BY <1>1, <1>2, <1>6, <2>1 DEF ReleaseDoes, SlotHolders, Holding, Owning
    <3> QED  BY <1>0, <2>1, <3>1 DEF EntryEach
  <2>3. holders' = [holders EXCEPT ![cur[w]] = None]
    BY <1>6 DEF ReleaseDoes, release
  <2>4. holders \in [Jobs -> [Pools -> Nat] \cup {None}]
    BY DEF TypeOK, PoolTypeOK
  <2> QED  BY <1>1, <1>2, <2>1, <2>2, <2>3, <2>4
<1> QED
  BY <1>3, <1>4, <1>5, <1>6 DEF LedgerDoes

\* Two workers that hold slots hold them for different jobs: the second
\* acquire would have overwritten the entry of the first.
LEMMA ApartSteps ==
  ASSUME TypeOK, LedgerInv, LedgerDoes, NoSlotLost',
         NEW u \in SlotHolders', NEW v \in SlotHolders', u # v, cur'[u] = cur'[v]
  PROVE  StoredResources(cur[v])' = NoSlots
<1>0. KeepsNeeds /\ WorksOnServed /\ EntryEach
  BY NothingLostYet DEF LedgerDoes, LedgerInv
<1>1. /\ u \in Workers /\ pc'[u] \in Holding /\ pc'[u] \notin AtRest
      /\ v \in Workers /\ pc'[v] \in Holding /\ pc'[v] \notin AtRest
  BY HoldersWork DEF SlotHolders
<1>2. ASSUME NEW x \in Workers, pc[x] \notin AtRest, cur'[x] = cur[x]
      PROVE  /\ cur[x] \in Jobs /\ StoredResources(cur[x]) \in [Pools -> Nat]
             /\ StoredResources(cur[x])' = StoredResources(cur[x])
  <2>1. cur[x] \in Jobs /\ status[cur[x]] # "absent"
    BY <1>0, <1>2 DEF WorksOnServed, TypeOK, WorkerTypeOK, AtRest
  <2>2. StoredResources(cur[x])' = StoredResources(cur[x])
    BY <1>0, <1>2, <2>1 DEF KeepsNeeds, StoredResources
  <2> QED  BY <2>1, <2>2, StoredTypes
\* Both held slots before.
<1>3. ASSUME pc[u] \in Holding, pc[v] \in Holding, cur'[u] = cur[u], cur'[v] = cur[v]
      PROVE  StoredResources(cur[v])' = NoSlots
  <2>1. u \in SlotHolders /\ v \in SlotHolders /\ pc[v] \notin AtRest
    BY <1>1, <1>3, HoldersWork DEF SlotHolders
  <2>2. StoredResources(cur[v]) = NoSlots
    BY <1>0, <1>3, <2>1 DEF EntryEach
  <2> QED  BY <1>1, <1>2, <1>3, <2>1, <2>2
<1>4. CASE QuietDoes
  BY <1>1, <1>3, <1>4 DEF QuietDoes
<1>5. ASSUME NEW w \in Workers, SelectDoes(w) \/ ReleaseDoes(w)
      PROVE  StoredResources(cur[v])' = NoSlots
  <2>1. w # u /\ w # v
    BY <1>1, <1>5 DEF SelectDoes, ReleaseDoes, AtRest, Holding, Owning
  <2> QED  BY <1>1, <1>3, <1>5, <2>1 DEF SelectDoes, ReleaseDoes, OthersStand
\* One of them has just acquired.
<1>6. ASSUME NEW w \in Workers, AcquireDoes(w)  PROVE StoredResources(cur[v])' = NoSlots
  <2>1. CASE w # u /\ w # v
    BY <1>1, <1>3, <1>6, <2>1 DEF AcquireDoes, OthersStand
  <2>2. ASSUME NEW x \in {u, v}, x # w, w \in {u, v}
        PROVE  StoredResources(cur[w]) = NoSlots
    <3>1. x \in SlotHolders /\ cur'[x] = cur[x] /\ cur'[w] = cur[w] /\ cur[x] = cur[w] /\ cur[w] \in Jobs
      BY <1>1, <1>6, <2>2 DEF AcquireDoes, OthersStand, SlotHolders, TypeOK, WorkerTypeOK
    <3>2. StoredResources(cur[w]) # NoSlots => holders[cur[w]] # None
      BY <1>0, <3>1 DEF EntryEach
    <3>3. <<"overwritten", cur[w]>> \notin amiss'
      BY <3>1 DEF NoSlotLost
    <3> QED  BY <1>6, <3>2, <3>3 DEF AcquireDoes, acquire
  <2>3. CASE w \in {u, v}
    <3>1. StoredResources(cur[w]) = NoSlots
      BY <2>2, <2>3
    <3>2. pc[w] \notin AtRest /\ cur'[w] = cur[w]
      BY <1>6 DEF AcquireDoes, AtRest
    <3>3. StoredResources(cur[w])' = NoSlots /\ cur'[v] = cur'[w]
      BY <1>2, <2>3, <3>1, <3>2
    <3> QED  BY <3>3 DEF StoredResources
  <2> QED  BY <2>1, <2>3
<1> QED
  BY <1>4, <1>5, <1>6 DEF LedgerDoes

\* The ledger is exact from the start,
LEMMA LedgerInit ==
  ASSUME Init
  PROVE  LedgerInv
<1>1. SlotHolders = {}
  BY DEF Init, SlotHolders, Holding, Owning
<1>2. \A p : SlotsInHand(p) = {}
  BY <1>1 DEF SlotsInHand
<1>3. IsFiniteSet({}) /\ Cardinality({}) = 0
  BY FS_EmptySet
<1>4. used = NoSlots /\ \A j \in Jobs : holders[j] = None
  BY DEF Init, PoolInit
<1>5. \A p \in Pools : IsFiniteSet(SlotsInHand(p)) /\ Cardinality(SlotsInHand(p)) = used[p]
  BY <1>2, <1>3, <1>4 DEF NoSlots
<1>6. WorksOnServed
  BY DEF Init, WorksOnServed
<1> QED  BY <1>1, <1>4, <1>5, <1>6 DEF LedgerInv, HoldersAgree, EntryEach

\* and every step keeps it so.
LEMMA LedgerSteps ==
  ASSUME TypeOK, TypeOK', LedgerInv, LedgerDoes
  PROVE  LedgerInv'
<1>1. WorksOnServed' /\ HoldersAgree'
  BY ServedSteps, HolderSteps DEF LedgerInv
<1>2. NoSlots' = NoSlots
  BY DEF NoSlots
<1>3. ASSUME NoSlotLost'  PROVE EntryEach'
  <2>1. \A w \in SlotHolders' : StoredResources(cur[w])' # NoSlots => holders'[cur'[w]] # None
    BY <1>3, EntrySteps
  <2>2. \A u, v \in SlotHolders' : u # v /\ cur'[u] = cur'[v] => StoredResources(cur[v])' = NoSlots
    BY <1>3, ApartSteps
  <2> QED  BY <1>2, <2>1, <2>2 DEF EntryEach
<1>4. ASSUME NoSlotLost', NEW p \in Pools
      PROVE  IsFiniteSet(SlotsInHand(p))' /\ Cardinality(SlotsInHand(p))' = used'[p]
  BY <1>4, ExactSteps
<1> QED
  BY <1>1, <1>3, <1>4 DEF LedgerInv

\* With nobody owing anything, an exact ledger is empty.
LEMMA LedgerEmpty ==
  ASSUME TypeOK, LedgerInv
  PROVE  SlotsReturned
<1> SUFFICES ASSUME NoSlotLost, \A w \in Workers : pc[w] \notin Holding  PROVE used = NoSlots
  BY DEF SlotsReturned, AllReleased
<1>1. SlotHolders = {}
  BY DEF SlotHolders
<1>2. \A p : SlotsInHand(p) = {}
  BY <1>1 DEF SlotsInHand
<1>3. \A p \in Pools : used[p] = 0
  BY <1>2, FS_EmptySet DEF LedgerInv
<1> QED
  BY <1>3 DEF TypeOK, PoolTypeOK, NoSlots

\* However many workers share a queue and whatever administrators and sweeps do
\* to the jobs meanwhile, every slot acquired is given back, unless a second
\* acquire overwrote the entry of a job in hand or a job had no handler:
\* run_once ends in a release_job on every other path behind acquire.
THEOREM SlotsComeBack == OpSpec => []SlotsReturned
<1>1. OpInit => LedgerInv
  BY LedgerInit DEF OpInit
<1>2. OpTypeOK /\ OpTypeOK' /\ LedgerInv /\ [OpNext]_opVars => LedgerInv'
  BY OpNextLedger, LedgerSteps DEF OpTypeOK
<1>3. OpTypeOK /\ LedgerInv => SlotsReturned
  BY LedgerEmpty DEF OpTypeOK
<1> QED
  BY OpTypeCorrect, <1>1, <1>2, <1>3, PTL DEF OpSpec

\* The same for the workers by themselves, the system WorkerSpec describes.
THEOREM WorkersReturnSlots == WorkerSpec => []SlotsReturned
<1>1. Init => LedgerInv
  BY LedgerInit
<1>2. TypeOK /\ TypeOK' /\ LedgerInv /\ [WorkerNext]_vars => LedgerInv'
  BY WorkerNextLedger, LedgerSteps
<1>3. TypeOK /\ LedgerInv => SlotsReturned
  BY LedgerEmpty
<1> QED
  BY WorkerOwnership, <1>1, <1>2, <1>3, PTL DEF WorkerSpec
=============================================================================
