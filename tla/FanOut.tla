------------------------------- MODULE FanOut -------------------------------
(***************************************************************************)
(* FanOutManager (fanout/manager.py) over JobQueue: a thread submits the   *)
(* children of a parent one by one and records the list at the end; a      *)
(* poller reads the children's statuses one by one and aggregates them;    *)
(* another call cancels the parent and its children.  Meanwhile workers    *)
(* run the children, and administrators, callers and sweeps rewrite them.  *)
(* Of a worker only its writes to the status are kept                      *)
(* (worker/worker.py:114-148), of the others what they write; like the     *)
(* code, none looks at the status it replaces.                             *)
(***************************************************************************)
EXTENDS Submission, Integers

CONSTANTS
  Workers,
  Fan,         \* the number of child specs
  Thresholds   \* values of partial_success_threshold, <<numerator, denominator>>
               \* or None

CONSTANT MaxRewrites   \* a bound: writes of others than workers

ASSUME FanAssumption ==
  Fan \in Nat \ {0} /\ MaxRewrites \in Nat /\ Thresholds \subseteq (Int \X (Nat \ {0})) \cup {None}

VARIABLES
  children,    \* _children_by_parent, <<>> without an entry
  gathered,    \* of each thread in create_fan_out: the parent and child_ids
  tag,         \* payload["__fanout_parent_job_id"] of each job, 0 without
  work,        \* of each worker: its job, 0 without, and whether that timed out
  rewrites,    \* how many such writes there were
  poll,        \* the call of aggregate_parent_status under way
  verdict,     \* what the last one returned
  cancelling,  \* the ids cancel_parent_and_children has still to cancel
  done,        \* history: jobs that succeeded
  disturbed    \* history: parents cancelled, fanned out twice, forgotten,
               \* judged with a threshold while a child was timing out, or
               \* with a child rewritten in a worker's hands or after its end

fanVars == <<children, gathered, tag, work, rewrites, poll, verdict, cancelling, done, disturbed>>
allVars == <<submitVars, fanVars>>

NoFan == [parent |-> 0, ids |-> <<>>]
NoPoll == [parent |-> 0, th |-> None, left |-> <<>>, seen |-> <<>>]
NoVerdict == [parent |-> 0, th |-> None, is |-> None]
NoWork == [job |-> 0, late |-> FALSE]

Children(p) == {j \in Jobs : tag[j] = p}

\* The statuses that a job of this module can have.
Moves == {"absent", "queued", "running", "retry_wait", "timeout", "succeeded", "failed", "cancelled",
          "ttl_expired"}

ASSUME NoneAssumption == None \notin Moves

FanTypeOK ==
  /\ clock \in 1..MaxNow /\ restarts \in 0..MaxRestarts /\ ids \in 0..MaxJobs
  /\ entries \in [Keys -> [job : 0..MaxJobs, expires : 0..(MaxNow + Ttl)]]
  /\ status \in [Jobs -> Moves]
  /\ pc \in [Threads -> {"idle", "get", "set", "enqueue"}]
  /\ children \in [Jobs -> Seq(Jobs)] /\ \A p \in Jobs : Len(children[p]) \in {0, Fan}
  /\ gathered \in [Threads -> [parent : 0..MaxJobs, ids : Seq(Jobs)]]
  /\ tag \in [Jobs -> 0..MaxJobs]
  /\ work \in [Workers -> [job : 0..MaxJobs, late : BOOLEAN]] /\ rewrites \in 0..MaxRewrites
  /\ poll \in [parent : 0..MaxJobs, th : Thresholds \cup {None}, left : Seq(Jobs), seen : Seq(Moves)]
  /\ verdict.is \in Moves \cup {None}
  /\ cancelling \in Seq(Jobs)
  /\ done \subseteq Jobs /\ disturbed \subseteq Jobs

FanInit ==
  /\ SubmitInit
  /\ children = [j \in Jobs |-> <<>>]
  /\ gathered = [t \in Threads |-> NoFan]
  /\ tag = [j \in Jobs |-> 0]
  /\ work = [w \in Workers |-> NoWork] /\ rewrites = 0
  /\ poll = NoPoll /\ verdict = NoVerdict /\ cancelling = <<>>
  /\ done = {} /\ disturbed = {}
-----------------------------------------------------------------------------
\* JobQueue.submit by an application, as Submission has it.
Submit(t) ==
  /\ gathered[t] = NoFan
  /\ (\E k \in Keys : Begin(t, k)) \/ Deduplicated(t) \/ Lookup(t) \/ Store(t) \/ Enqueue(t) \/ Raise(t)
  /\ UNCHANGED fanVars

\* create_fan_out
CreateBegin(t, p) ==
  /\ gathered[t] = NoFan /\ pc[t] = "idle"
  /\ status[p] # "absent" /\ tag[p] = 0
  /\ ids + Fan <= MaxJobs
  /\ gathered' = [gathered EXCEPT ![t].parent = p]
  /\ disturbed' = IF Children(p) = {} /\ \A u \in Threads : gathered[u].parent # p
                  THEN disturbed ELSE disturbed \cup {p}
  /\ UNCHANGED <<submitVars, children, tag, work, rewrites, poll, verdict, cancelling, done>>

SubmitChild(t) ==
  /\ gathered[t] # NoFan /\ Len(gathered[t].ids) < Fan
  /\ Begin(t, None)
  /\ tag' = [tag EXCEPT ![ids + 1] = gathered[t].parent]
  /\ UNCHANGED <<children, gathered, work, rewrites, poll, verdict, cancelling, done, disturbed>>

\* create_fan_out that records the list as it grows.
ChildStoredAtOnce(t) == LET p == gathered[t].parent IN
  /\ gathered[t] # NoFan
  /\ Enqueue(t)
  /\ gathered' = [gathered EXCEPT ![t].ids = Append(@, cur[t])]
  /\ children' = [children EXCEPT ![p] = Append(gathered[t].ids, cur[t])]
  /\ UNCHANGED <<tag, work, rewrites, poll, verdict, cancelling, done, disturbed>>

ChildStored(t) ==
  /\ gathered[t] # NoFan
  /\ Enqueue(t)
  /\ gathered' = [gathered EXCEPT ![t].ids = Append(@, cur[t])]
  /\ UNCHANGED <<children, tag, work, rewrites, poll, verdict, cancelling, done, disturbed>>

\* submit raises: the children stored so far run on, and nothing records them.
ChildRefused(t) ==
  /\ gathered[t] # NoFan
  /\ Raise(t)
  /\ gathered' = [gathered EXCEPT ![t] = NoFan]
  /\ UNCHANGED <<children, tag, work, rewrites, poll, verdict, cancelling, done, disturbed>>

CreateEnd(t) ==
  /\ gathered[t] # NoFan /\ pc[t] = "idle" /\ Len(gathered[t].ids) = Fan
  /\ children' = [children EXCEPT ![gathered[t].parent] = gathered[t].ids]
  /\ gathered' = [gathered EXCEPT ![t] = NoFan]
  /\ UNCHANGED <<submitVars, tag, work, rewrites, poll, verdict, cancelling, done, disturbed>>
-----------------------------------------------------------------------------
\* A worker: the claim, the outcome, the fallback after a timeout.  What is
\* not an Exception escapes run_once and leaves the job running.  Only
\* children matter to the aggregate.
Put(j, s) == status' = [status EXCEPT ![j] = s]

Has(w, x) == work' = [work EXCEPT ![w] = x]

Claim(w, j) ==
  /\ work[w] = NoWork
  /\ tag[j] # 0 /\ status[j] = "queued"
  /\ Put(j, "running") /\ Has(w, [job |-> j, late |-> FALSE])
  /\ UNCHANGED done

HandlerEnds(w) == LET j == work[w].job IN
  /\ j # 0
  /\ \/ ~work[w].late /\ Put(j, "succeeded") /\ Has(w, NoWork) /\ done' = done \cup {j}
     \/ ~work[w].late /\ Put(j, "timeout") /\ Has(w, [job |-> j, late |-> TRUE]) /\ UNCHANGED done
     \/ ~work[w].late /\ Has(w, NoWork) /\ UNCHANGED <<status, done>>
     \/ \E s \in {"failed", "retry_wait"} : Put(j, s) /\ Has(w, NoWork) /\ UNCHANGED done

WorkerMoves(w) ==
  /\ HandlerEnds(w) \/ \E j \in Jobs : Claim(w, j)
  /\ UNCHANGED <<clock, restarts, manager, threadVars, failed>>
  /\ UNCHANGED <<children, gathered, tag, rewrites, poll, verdict, cancelling, disturbed>>

\* aggregate_child_statuses' active_states.
Active == {"queued", "scheduled", "running", "retry_wait", "paused"}

\* Everybody else who writes the status of one child: retry_now, reschedule_job,
\* update_job and the bulk operations queue it; JobQueue.cancel, cancel_job and
\* the retention sweep cancel it; sweeps fail or expire it.  The sweeps choose
\* by a status read earlier, so any status may be replaced.
Rewritten(j, s) ==
  /\ rewrites < MaxRewrites /\ rewrites' = rewrites + 1
  /\ tag[j] # 0 /\ status[j] # "absent"
  /\ s \in {"queued", "cancelled", "failed", "ttl_expired"}
  /\ Put(j, s)
  /\ disturbed' = IF status[j] \in Active /\ \A w \in Workers : work[w].job # j
                  THEN disturbed ELSE disturbed \cup {tag[j]}
  /\ UNCHANGED <<clock, restarts, manager, threadVars, failed>>
  /\ UNCHANGED <<children, gathered, tag, work, poll, verdict, cancelling, done>>
-----------------------------------------------------------------------------
\* aggregate_child_statuses
Count(seen, S) == Cardinality({i \in DOMAIN seen : seen[i] \in S})

\* min(max(partial_success_threshold, 0), 1)
Clamp(th) == IF th[1] < 0 THEN <<0, 1>> ELSE IF th[1] > th[2] THEN <<1, 1>> ELSE th

\* The aggregate that takes "none failed, none active" for success.
AggregateNoFailure(seen, th) ==
  IF seen # <<>> /\ Count(seen, {"failed"}) = 0 /\ Count(seen, Active \ {"retry_wait"}) = 0
  THEN "succeeded" ELSE "running"

Aggregate(seen, th) ==
  LET good == Count(seen, {"succeeded"})
      active == Count(seen, Active)
      share == Clamp(th)
  IN IF seen = <<>> THEN "queued"
     ELSE IF th = None
     THEN IF Count(seen, {"failed"}) > 0 THEN "failed"
          ELSE IF good = Len(seen) THEN "succeeded"
          ELSE IF active > 0 THEN "running" ELSE "queued"
     ELSE IF active > 0 THEN "running"
          ELSE IF good * share[2] >= share[1] * Len(seen) THEN "succeeded" ELSE "failed"

PollBegin(p, th) ==
  /\ poll = NoPoll /\ status[p] # "absent" /\ tag[p] = 0
  /\ poll' = [parent |-> p, th |-> th, left |-> children[p], seen |-> <<>>]
  /\ UNCHANGED <<submitVars, children, gathered, tag, work, rewrites, verdict, cancelling, done, disturbed>>

\* JobQueue.get of the next child; a job the backend has not is a failed one.
PollRead ==
  /\ poll.parent # 0 /\ poll.left # <<>>
  /\ LET s == status[Head(poll.left)] IN
       /\ poll' = [poll EXCEPT !.left = Tail(@),
                               !.seen = Append(@, IF s = "absent" THEN "failed" ELSE s)]
       /\ disturbed' = IF s = "timeout" /\ poll.th # None THEN disturbed \cup {poll.parent} ELSE disturbed
  /\ UNCHANGED <<submitVars, children, gathered, tag, work, rewrites, verdict, cancelling, done>>

PollEnd ==
  /\ poll.parent # 0 /\ poll.left = <<>>
  /\ verdict' = [parent |-> poll.parent, th |-> poll.th, is |-> Aggregate(poll.seen, poll.th)]
  /\ poll' = NoPoll
  /\ UNCHANGED <<submitVars, children, gathered, tag, work, rewrites, cancelling, done, disturbed>>

\* cancel_parent_and_children: JobQueue.cancel of each, whatever its status.
CancelBegin(p) ==
  /\ cancelling = <<>> /\ status[p] # "absent" /\ tag[p] = 0
  /\ cancelling' = <<p>> \o children[p]
  /\ disturbed' = disturbed \cup {p}
  /\ UNCHANGED <<submitVars, children, gathered, tag, work, rewrites, poll, verdict, done>>

CancelNext ==
  /\ cancelling # <<>>
  /\ Put(Head(cancelling), "cancelled")
  /\ cancelling' = Tail(cancelling)
  /\ UNCHANGED <<clock, restarts, manager, threadVars, failed>>
  /\ UNCHANGED <<children, gathered, tag, work, rewrites, poll, verdict, done, disturbed>>

\* The list of children is in memory only; the workers run elsewhere.
RestartAll ==
  /\ Restart
  /\ children' = [j \in Jobs |-> <<>>]
  /\ gathered' = [t \in Threads |-> NoFan]
  /\ poll' = NoPoll /\ cancelling' = <<>>
  /\ disturbed' = disturbed \cup {p \in Jobs : Children(p) # {}}
  /\ UNCHANGED <<tag, work, rewrites, verdict, done>>

FanNext ==
  \/ \E t \in Threads : \/ Submit(t) \/ SubmitChild(t) \/ ChildStored(t) \/ ChildRefused(t) \/ CreateEnd(t)
                        \/ \E p \in Jobs : CreateBegin(t, p)
  \/ \E w \in Workers : WorkerMoves(w)
  \/ \E j \in Jobs : \/ CancelBegin(j)
                     \/ \E s \in Moves : Rewritten(j, s)
                     \/ \E th \in Thresholds : PollBegin(j, th)
  \/ PollRead \/ PollEnd \/ CancelNext \/ RestartAll
  \/ Tick /\ UNCHANGED fanVars

FanSpec == FanInit /\ [][FanNext]_allVars
-----------------------------------------------------------------------------
\* Properties.

\* A parent is reported succeeded only when as many of its children as it was
\* given specs (or the clamped threshold's share) have succeeded at some time, although the
\* statuses are read one by one and polls come while children are created.
SucceededMeansAll ==
  verdict.is = "succeeded" =>
    LET good == Cardinality(Children(verdict.parent) \cap done)
        share == Clamp(verdict.th)
    IN IF verdict.th = None THEN good >= Fan ELSE good * share[2] >= share[1] * Fan

\* What aggregate_parent_status once reported as final it reports ever after,
\* unless the parent was cancelled, fanned out again or forgotten, a child was
\* between its timeout and the fallback policy's verdict, or somebody rewrote a
\* child that a worker had in hand or that had already ended: a retry of a
\* failed child and the retention sweep take a verdict back.  Cancelling,
\* expiring, failing or requeueing a child that waits does not.
VerdictStands ==
  [][ /\ verdict.is \in {"succeeded", "failed"}
      /\ verdict'.parent = verdict.parent /\ verdict'.th = verdict.th
      /\ verdict.parent \notin disturbed
      => verdict'.is = verdict.is ]_allVars

=============================================================================
