----------------------------- MODULE WorkerPool -----------------------------
(***************************************************************************)
(* Worker threads of one process (worker/worker.py) that share a backend,  *)
(* a ResourcePool and a DependencyTracker through the Dispatcher           *)
(* (scheduler/dispatcher.py), and the JobQueue facade that submits to them *)
(* (queue.py).  Worker.run_once is cut at every call that takes a lock or  *)
(* runs code of the application; between two cuts the threads interleave.  *)
(*                                                                         *)
(*   idle      in the run_forever loop, between two calls of run_once      *)
(*   deps      is_runnable is reading the dependencies' statuses           *)
(*   acquire   about to ask the ResourcePool                               *)
(*   claim     slots held, about to claim                                  *)
(*   unclaim   claim lost, about to give the slots back                    *)
(*   claimed   claim won, about to look up the handler                     *)
(*   running   the handler is running                                      *)
(*   draining  timed out, the executor's exit waits for the handler        *)
(*   except    in the except clause, fallback policy not applied yet       *)
(*   deadletter, notify   inside FallbackPolicyManager.apply               *)
(*   finally   about to release the slots                                  *)
(*   stopped   run_forever returned after stop()                           *)
(*   dead      an exception, or the end of its process, ended run_forever  *)
(***************************************************************************)
EXTENDS JobStore, ResourcePool, FiniteSets

CONSTANTS
  Handlers,        \* the job types with a registered handler
  Policy,          \* the fallback action per type; "none": no policy manager
  RunTimeout,      \* whether run_timeout_seconds is set
  WorkerQueue,     \* the queue_name of each worker, None for every queue
  DeadLetterQueue

Actions == {"none", "retry", "dead_letter", "notify", "ignore"}

ASSUME HandlersType == Handlers \subseteq Types
ASSUME PolicyType == Policy \in [Types -> Actions]
ASSUME ConfigType == /\ RunTimeout \in BOOLEAN
                     /\ WorkerQueue \in [Workers -> Queues \cup {None}]
                     /\ DeadLetterQueue \in Queues

VARIABLES
  edges,       \* DependencyTracker._edges
  pc, cur,     \* where each worker is and the job it works on
  unchecked,   \* dependencies is_runnable has not read yet
  raising,     \* an exception is on its way out of run_once
  claimEp      \* history: the episode a worker's claim is for, 0 without one

workerVars == <<pc, cur, unchecked, raising, claimEp>>
vars == <<storeVars, poolVars, edges, workerVars>>

PC == {"idle", "deps", "acquire", "claim", "unclaim", "claimed", "running", "draining",
       "except", "deadletter", "notify", "finally", "stopped", "dead"}

\* The phases between a won claim and the end of run_once, and those in which
\* release_job is still owed.
Owning == {"claimed", "running", "draining", "except", "deadletter", "notify", "finally"}
Holding == Owning \cup {"claim", "unclaim"}

WorkerTypeOK ==
  /\ pc \in [Workers -> PC]
  /\ cur \in [Workers -> Jobs \cup {None}]
  /\ unchecked \in [Workers -> SUBSET Jobs]
  /\ raising \in [Workers -> BOOLEAN]
  /\ claimEp \in [Workers -> Nat]
  /\ \A w \in Workers : pc[w] \notin {"idle", "stopped", "dead"} => cur[w] \in Jobs

TypeOK == /\ StoreTypeOK
          /\ PoolTypeOK
          /\ edges \in [Jobs -> SUBSET Jobs]
          /\ WorkerTypeOK

Init == /\ StoreInit
        /\ PoolInit
        /\ edges = [j \in Jobs |-> {}]
        /\ pc = [w \in Workers |-> "idle"]
        /\ cur = [w \in Workers |-> None]
        /\ unchecked = [w \in Workers |-> {}]
        /\ raising = [w \in Workers |-> FALSE]
        /\ claimEp = [w \in Workers |-> 0]

Goto(w, label) == pc' = [pc EXCEPT ![w] = label]

\* run_once ends: back to the loop, out of it when an exception escapes.
EndRun(w) == /\ Goto(w, IF raising[w] THEN "dead" ELSE "idle")
             /\ cur' = [cur EXCEPT ![w] = None]
             /\ raising' = [raising EXCEPT ![w] = FALSE]
             /\ claimEp' = [claimEp EXCEPT ![w] = 0]
             /\ UNCHANGED unchecked

\* run_once gives up on a job it holds nothing of.
GiveUp(w) == /\ Goto(w, "idle")
             /\ cur' = [cur EXCEPT ![w] = None]
             /\ unchecked' = [unchecked EXCEPT ![w] = {}]
             /\ UNCHANGED <<raising, claimEp>>

-----------------------------------------------------------------------------
\* JobQueue.submit.

\* A bound, not a guard of the code: an id is kept free for every worker that
\* is about to write a dead letter.
DeadLettersDue == {w \in Workers : /\ pc[w] \in {"draining", "except", "deadletter"}
                                   /\ Policy[attr[cur[w]].job_type] = "dead_letter"}
Room == Cardinality(Absent) > Cardinality(DeadLettersDue)

\* A request names ids that earlier submits returned, so the fresh id closes no
\* cycle and validate_and_register records the edges.  Nobody looks at the fresh
\* id before it is enqueued, so the two calls are one step.  (A request that
\* names an id of no job is accepted too; it is never runnable and left out.)
Submit(j) ==
  /\ j \in Absent
  /\ Room
  /\ Request[j].depends_on \subseteq Stored
  /\ edges' = [edges EXCEPT ![j] = Request[j].depends_on]
  /\ enqueue(j, Request[j])
  /\ UNCHANGED <<poolVars, workerVars>>

-----------------------------------------------------------------------------
\* Dispatcher.select_eligible(limit=1).

\* dequeue finds a job; without depends_on the tracker is not asked, otherwise
\* is_runnable takes a copy of the edges and then reads one status at a time.
SelectJob(w) ==
  /\ pc[w] = "idle"
  /\ \E j \in dequeue(WorkerQueue[w]) :
       /\ cur' = [cur EXCEPT ![w] = j]
       /\ unchecked' = [unchecked EXCEPT ![w] = IF StoredDependsOn(j) = {} THEN {}
                                                ELSE edges[j]]
       /\ Goto(w, "deps")
  /\ UNCHANGED <<storeVars, poolVars, edges, raising, claimEp>>

\* Nothing queued: run_once returns False and the loop sleeps.
PollEmpty(w) == /\ pc[w] = "idle"
                /\ dequeue(WorkerQueue[w]) = {}
                /\ UNCHANGED vars

\* is_runnable that lets a dependency pass when it merely ended.
DependencyDone(s) == s \in FinishedStatus

DependencySatisfied(s) == s = "succeeded"

CheckDependency(w) ==
  /\ pc[w] = "deps"
  /\ \E d \in unchecked[w] :
       IF DependencySatisfied(status[d])
       THEN /\ unchecked' = [unchecked EXCEPT ![w] = @ \ {d}]
            /\ UNCHANGED <<pc, cur, raising, claimEp>>
       ELSE GiveUp(w)
  /\ UNCHANGED <<storeVars, poolVars, edges>>

Runnable(w) == /\ pc[w] = "deps"
               /\ unchecked[w] = {}
               /\ Goto(w, "acquire")
               /\ UNCHANGED <<storeVars, poolVars, edges, cur, unchecked, raising, claimEp>>

AcquireResources(w) ==
  /\ pc[w] = "acquire"
  /\ \/ /\ acquire(cur[w], StoredResources(cur[w]))
        /\ Goto(w, "claim")
        /\ UNCHANGED <<cur, unchecked, raising, claimEp>>
     \/ /\ ~can_acquire(StoredResources(cur[w]))
        /\ GiveUp(w)
        /\ UNCHANGED poolVars
  /\ UNCHANGED <<storeVars, edges>>

-----------------------------------------------------------------------------
\* Worker.run_once from the claim on.

Claim(w) ==
  /\ pc[w] = "claim"
  /\ \/ /\ claim(w, cur[w])
        /\ Goto(w, "claimed")
        /\ claimEp' = [claimEp EXCEPT ![w] = episode[cur[w]]]
     \/ /\ status[cur[w]] # "queued"
        /\ Goto(w, "unclaim")
        /\ UNCHANGED <<storeVars, claimEp>>
  /\ UNCHANGED <<poolVars, edges, cur, unchecked, raising>>

\* registry.get finds the handler; heartbeat, then the handler starts.
StartHandler(w) ==
  /\ pc[w] = "claimed"
  /\ attr[cur[w]].job_type \in Handlers
  /\ heartbeat(cur[w])
  /\ Goto(w, "running")
  /\ UNCHANGED <<poolVars, edges, cur, unchecked, raising, claimEp>>

\* registry.get raises KeyError before the try statement is entered: neither
\* the except nor the finally clause runs.
UnknownJobType(w) ==
  /\ pc[w] = "claimed"
  /\ attr[cur[w]].job_type \notin Handlers
  /\ Goto(w, "dead")
  /\ cur' = [cur EXCEPT ![w] = None]
  /\ claimEp' = [claimEp EXCEPT ![w] = 0]
  /\ amiss' = amiss \cup {<<"unhandled", cur[w]>>}
  /\ UNCHANGED <<storeVars, used, holders, edges, unchecked, raising>>

HandlerReturns(w) ==
  /\ pc[w] = "running"
  /\ update_status(cur[w], "succeeded")
  /\ Goto(w, "finally")
  /\ UNCHANGED <<poolVars, edges, cur, unchecked, raising, claimEp>>

PolicyOf(w) == Policy[attr[cur[w]].job_type]

HandlerRaises(w) ==
  /\ pc[w] = "running"
  /\ PolicyOf(w) = "dead_letter" => Room
  /\ Goto(w, "except")
  /\ UNCHANGED <<storeVars, poolVars, edges, cur, unchecked, raising, claimEp>>

\* SystemExit and KeyboardInterrupt are no Exception: the finally clause runs,
\* the status is left as it is and run_forever ends.
HandlerEscapes(w) ==
  /\ pc[w] = "running"
  /\ Goto(w, "finally")
  /\ raising' = [raising EXCEPT ![w] = TRUE]
  /\ amiss' = amiss \cup {<<"escaped", cur[w]>>}
  /\ UNCHANGED <<storeVars, used, holders, edges, cur, unchecked, claimEp>>

\* future.result times out: the job is marked at once, but leaving the
\* executor's with-block waits for the handler's thread.
TimesOut(w) ==
  /\ pc[w] = "running"
  /\ RunTimeout
  /\ PolicyOf(w) = "dead_letter" => Room
  /\ update_status(cur[w], "timeout")
  /\ Goto(w, "draining")
  /\ UNCHANGED <<poolVars, edges, cur, unchecked, raising, claimEp>>

HandlerDrains(w) ==
  /\ pc[w] = "draining"
  /\ Goto(w, "except")
  /\ UNCHANGED <<storeVars, poolVars, edges, cur, unchecked, raising, claimEp>>

\* Policies that leave a retried job as it is, or queue it at once.
FallbackKeepsRunning(p) == IF p = "retry" THEN "running" ELSE "failed"
FallbackRequeues(p) == IF p = "retry" THEN "queued" ELSE "failed"

\* The status FallbackPolicyManager.apply writes, where it goes on from there
\* and whether the exception is re-raised.
FallbackStatus(p) == IF p = "retry" THEN "retry_wait" ELSE "failed"
FallbackNext(p) == IF p = "dead_letter" THEN "deadletter"
                   ELSE IF p = "notify" THEN "notify" ELSE "finally"

ApplyFallback(w) ==
  /\ pc[w] = "except"
  /\ update_status(cur[w], FallbackStatus(PolicyOf(w)))
  /\ Goto(w, FallbackNext(PolicyOf(w)))
  /\ raising' = [raising EXCEPT ![w] = PolicyOf(w) \in {"none", "retry"}]
  /\ UNCHANGED <<poolVars, edges, cur, unchecked, claimEp>>

EnqueueDeadLetter(w, k) ==
  /\ pc[w] = "deadletter"
  /\ k \in Absent
  /\ enqueue(k, CloneInto(attr[cur[w]], DeadLetterQueue))
  /\ Goto(w, "finally")
  /\ UNCHANGED <<poolVars, edges, cur, unchecked, raising, claimEp>>

\* The notifier's HTTP call returns, or raises out of the except clause.
Notify(w) ==
  /\ pc[w] = "notify"
  /\ Goto(w, "finally")
  /\ \E failed \in BOOLEAN : raising' = [raising EXCEPT ![w] = failed]
  /\ UNCHANGED <<storeVars, poolVars, edges, cur, unchecked, claimEp>>

\* Dispatcher.release_job, from the finally clause or after a lost claim.
ReleaseJob(w) ==
  /\ pc[w] \in {"finally", "unclaim"}
  /\ release(cur[w])
  /\ EndRun(w)
  /\ UNCHANGED <<storeVars, edges>>

\* stop() takes effect between two polls.
Stop(w) == /\ pc[w] = "idle"
           /\ Goto(w, "stopped")
           /\ UNCHANGED <<storeVars, poolVars, edges, cur, unchecked, raising, claimEp>>

\* The application calls run_forever again.
Restart(w) == /\ pc[w] \in {"stopped", "dead"}
              /\ Goto(w, "idle")
              /\ UNCHANGED <<storeVars, poolVars, edges, cur, unchecked, raising, claimEp>>

RunOnce(w) == \/ SelectJob(w)
              \/ PollEmpty(w)
              \/ CheckDependency(w)
              \/ Runnable(w)
              \/ AcquireResources(w)
              \/ Claim(w)
              \/ StartHandler(w)
              \/ UnknownJobType(w)
              \/ HandlerReturns(w)
              \/ HandlerRaises(w)
              \/ HandlerEscapes(w)
              \/ TimesOut(w)
              \/ HandlerDrains(w)
              \/ ApplyFallback(w)
              \/ \E k \in Jobs : EnqueueDeadLetter(w, k)
              \/ Notify(w)
              \/ ReleaseJob(w)

WorkerNext == \/ \E j \in Jobs : Submit(j)
              \/ \E w \in Workers : RunOnce(w) \/ Stop(w) \/ Restart(w)

WorkerSpec == Init /\ [][WorkerNext]_vars

\* A worker's thread is scheduled again and again, handlers end (by returning,
\* raising or timing out) and the notifier's call has a timeout.
FairWorkerSpec == WorkerSpec /\ \A w \in Workers : WF_vars(RunOnce(w))
-----------------------------------------------------------------------------
\* Properties.

\* Two workers that hold a won claim on the same job won it for different
\* stays of the job in the queue: the status test of claim admits one worker
\* per stay, however the admin operations move the job afterwards.
ExclusivePerEpisode ==
  \A v, w \in Workers :
    v # w /\ pc[v] \in Owning /\ pc[w] \in Owning /\ cur[v] = cur[w]
      => claimEp[v] # claimEp[w]

\* What makes ExclusivePerEpisode inductive: a won claim belongs to the job's
\* latest stay in the queue or an earlier one, to an earlier one while the job
\* waits again.
ClaimsArePast ==
  \A w \in Workers : pc[w] \in Owning =>
    /\ claimEp[w] <= episode[cur[w]]
    /\ status[cur[w]] = "queued" => claimEp[w] < episode[cur[w]]

ClaimInv == ExclusivePerEpisode /\ ClaimsArePast

\* A job is claimed only after every job it depends on has succeeded, although
\* is_runnable reads the statuses one by one and the claim comes later still.
DependenciesFirst ==
  \A w \in Workers : pc[w] \in Owning => attr[cur[w]].depends_on \subseteq succeeded

\* What makes DependenciesFirst inductive: the tracker and the store agree on
\* what a job waits for, and a worker past the check has seen it all succeed.
TrackerAgrees ==
  \A j \in Jobs : edges[j] = IF status[j] = "absent" THEN {} ELSE attr[j].depends_on
SuccessRecorded == \A j \in Jobs : status[j] = "succeeded" => j \in succeeded
SeenBy(w) ==
  /\ pc[w] \notin {"idle", "stopped", "dead"} => status[cur[w]] # "absent"
  /\ pc[w] = "deps" => attr[cur[w]].depends_on \subseteq unchecked[w] \cup succeeded
  /\ pc[w] \in Holding \cup {"acquire"} => attr[cur[w]].depends_on \subseteq succeeded
DependencyInv == TrackerAgrees /\ SuccessRecorded /\ \A w \in Workers : SeenBy(w)

\* Workers, administrators and sweeps together are a queue of exclusive claims:
\* a job waits while it is queued, and a worker holds the stay it won until
\* run_once ends or its process does.
Queue == INSTANCE ClaimQueue WITH
  waiting <- {j \in Jobs : status[j] = "queued"},
  stay <- episode,
  held <- [w \in Workers |-> {<<j, claimEp[w]>> : j \in {k \in Jobs : pc[w] \in Owning /\ cur[w] = k}}]
ImplementsClaimQueue == Queue!Spec

\* The slots of the jobs in hand, as acquire was asked for them: the n-th slot
\* of pool p a worker holds is <<w, n>>.
SlotHolders == {w \in Workers : pc[w] \in Holding}
SlotsInHand(p) == UNION {{w} \X (1..StoredResources(cur[w])[p]) : w \in SlotHolders}

\* ResourcePool never promises more than its limit: the slots of all workers
\* between acquire and release_job are covered by _used, even when two workers
\* acquired for the same job and share its one _holders entry.
NeverOversubscribed ==
  \A p \in DOMAIN Limit : Cardinality(SlotsInHand(p)) <= used[p] /\ used[p] <= Limit[p]

\* When no worker owes a release_job, every slot is free again: the finally
\* clause and the lost-claim path of run_once give back what acquire took, on
\* every outcome but two.  A second acquire for a job overwrites its _holders
\* entry, so that one of the two releases finds nothing to give back; and a job
\* type without a handler raises before the try statement.
AllReleased == (\A w \in Workers : pc[w] \notin Holding) => used = NoSlots
NoSlotLost == \A j \in Jobs : <<"overwritten", j>> \notin amiss /\ <<"unhandled", j>> \notin amiss
SlotsReturned == NoSlotLost => AllReleased

\* What makes the two inductive.  An entry of _holders says what its job asks
\* for, and a worker works on a stored job of a queue it serves.
Serves(w, j) == WorkerQueue[w] \in {None, attr[j].queue_name}
HoldersAgree ==
  \A j \in Jobs : holders[j] # None => status[j] # "absent" /\ holders[j] = StoredResources(j)
WorksOnServed ==
  \A w \in Workers : pc[w] \notin {"idle", "stopped", "dead"} =>
    status[cur[w]] # "absent" /\ Serves(w, cur[w])

\* The slots in hand are covered.
PoolInv ==
  /\ HoldersAgree
  /\ WorksOnServed
  /\ \A p \in Pools : IsFiniteSet(SlotsInHand(p)) /\ Cardinality(SlotsInHand(p)) <= used[p]
  /\ \A p \in DOMAIN Limit : used[p] <= Limit[p]

\* The slots in hand are all there is: as long as no entry was overwritten and
\* no job abandoned, every worker that holds slots has an entry of its own.
EntryEach ==
  /\ \A w \in SlotHolders : StoredResources(cur[w]) # NoSlots => holders[cur[w]] # None
  /\ \A v, w \in SlotHolders : v # w /\ cur[v] = cur[w] => StoredResources(cur[w]) = NoSlots
LedgerInv ==
  /\ HoldersAgree
  /\ WorksOnServed
  /\ NoSlotLost => EntryEach
  /\ NoSlotLost =>
       \A p \in Pools : IsFiniteSet(SlotsInHand(p)) /\ Cardinality(SlotsInHand(p)) = used[p]

\* A running job is in the hands of the worker its claimed_by names, and that
\* worker won the job's latest stay in the queue.  A job is left running with
\* nobody to finish it in two ways only: its type has no handler, or the handler
\* raised what `except Exception` does not catch.
Abandoned(j) == <<"unhandled", j>> \in amiss \/ <<"escaped", j>> \in amiss
RunningIsOwned ==
  \A j \in Jobs : status[j] = "running" /\ ~Abandoned(j) =>
    \E w \in Workers : /\ claimed_by[j] = w
                       /\ pc[w] \in Owning
                       /\ cur[w] = j
                       /\ claimEp[w] = episode[j]

\* Every status change of a stored job is one DEFAULT_TRANSITIONS allows,
\* although no backend asks JobStateMachine.
TransitionAllowed ==
  \A j \in Jobs : \/ status'[j] = status[j]
                  \/ status[j] = "absent" /\ status'[j] = "queued"
                  \/ status[j] # "absent" /\ CanTransition(status[j], status'[j])
TransitionsEnforced == [][TransitionAllowed]_vars

\* A worker that serves the job's queue and keeps polling does take the job.
EveryJobRuns ==
  \A j \in Jobs : \A w \in Workers :
    (status[j] = "queued" /\ Serves(w, j))
      ~> (status[j] # "queued" \/ pc[w] \in {"stopped", "dead"})
=============================================================================
