---------------------------- MODULE FanOutProofs ----------------------------
(***************************************************************************)
(* Proofs about JobQueue.submit with its idempotency keys and about fan-   *)
(* out, for any number of threads, keys, jobs and restarts.                *)
(***************************************************************************)
EXTENDS FanOut, FiniteSetTheorems, SequenceTheorems, TLAPS

-----------------------------------------------------------------------------
(* The inductive invariants.                                               *)

\* FanTypeOK in two parts, with the threads' registers and the histories: what
\* submit works on, and what fan-out adds.
ThreadOK(t) ==
  /\ pc[t] # "idle" => cur[t] \in 1..ids
  /\ pc[t] \in {"get", "set"} => key[t] \in Keys
QueueTypeOK ==
  /\ clock \in 1..MaxNow /\ restarts \in 0..MaxRestarts /\ ids \in 0..MaxJobs
  /\ entries \in [Keys -> [job : 0..MaxJobs, expires : 0..(MaxNow + Ttl)]]
  /\ status \in [Jobs -> Moves]
  /\ pc \in [Threads -> {"idle", "get", "set", "enqueue"}]
  /\ cur \in [Threads -> 0..MaxJobs] /\ key \in [Threads -> Keys \cup {None}]
  /\ now \in [Threads -> 0..MaxNow]
  /\ born \in [Jobs -> [key : Keys \cup {None}, at : 0..MaxNow]]
  /\ raced \subseteq Jobs /\ answered \subseteq Keys \X Jobs /\ failed \subseteq Jobs
  /\ \A t \in Threads : ThreadOK(t)

Work == [job : 0..MaxJobs, late : BOOLEAN]
Gather == [parent : 0..MaxJobs, ids : Seq(Jobs)]
Poll == [parent : 0..MaxJobs, th : Thresholds \cup {None}, left : Seq(Jobs), seen : Seq(Moves)]
ListTypeOK ==
  /\ children \in [Jobs -> Seq(Jobs)] /\ \A p \in Jobs : Len(children[p]) \in {0, Fan}
  /\ gathered \in [Threads -> Gather]
  /\ \A t \in Threads : gathered[t].parent = 0 => gathered[t] = NoFan
  /\ tag \in [Jobs -> 0..MaxJobs]
  /\ work \in [Workers -> Work] /\ rewrites \in 0..MaxRewrites
  /\ poll \in Poll
  /\ verdict.is \in Moves \cup {None}
  /\ cancelling \in Seq(Jobs)
  /\ done \subseteq Jobs /\ disturbed \subseteq Jobs
AllTypeOK == QueueTypeOK /\ ListTypeOK

\* What makes AnswersNameJobs inductive: every entry names such a job already.
Named(k, j) ==
  \/ status[j] # "absent"
  \/ \E t \in Threads : pc[t] = "enqueue" /\ cur[t] = j /\ key[t] = k
  \/ j \in failed
AnswerInv == /\ \A k \in Keys : entries[k].job # 0 => Named(k, entries[k].job)
             /\ \A x \in answered : Named(x[1], x[2])

\* What makes OneJobPerWindow inductive: of two threads about to store the
\* same key both are marked; an unmarked registration's window ends before the
\* key's entry expires, and before the time of anybody about to replace it.
Born(i, k) == i \notin raced /\ k # None /\ born[i].key = k
Marked ==
  \A t, u \in Threads : t # u /\ pc[t] = "set" /\ pc[u] = "set" /\ key[t] = key[u] =>
    cur[t] \in raced /\ cur[u] \in raced
Covered ==
  \A i \in Jobs : \A k \in Keys : Born(i, k) =>
    /\ entries[k].job # 0 /\ born[i].at + Ttl <= entries[k].expires
    /\ \A t \in Threads : pc[t] = "set" /\ key[t] = k => born[i].at + Ttl <= now[t]
Apart ==
  \A i, j \in Jobs : \A k \in Keys : i # j /\ Born(i, k) /\ Born(j, k) =>
    born[i].at + Ttl <= born[j].at \/ born[j].at + Ttl <= born[i].at
WindowInv == Marked /\ Covered /\ Apart

\* What makes SucceededMeansAll inductive: the lists name each child once, and
\* what a poll has read as succeeded has succeeded.
ListOf(p, s) == /\ \A i \in 1..Len(s) : tag[s[i]] = p /\ s[i] <= ids
                /\ \A i, k \in 1..Len(s) : i # k => s[i] # s[k]
Gathering(t) ==
  LET g == gathered[t] IN
  g.parent # 0 =>
    /\ ListOf(g.parent, g.ids)
    /\ pc[t] \in {"idle", "enqueue"}
    /\ pc[t] = "enqueue" => /\ tag[cur[t]] = g.parent
                            /\ \A i \in 1..Len(g.ids) : g.ids[i] # cur[t]
Polled ==
  poll.parent # 0 =>
    \E s \in Seq(Jobs) :
      /\ ListOf(poll.parent, s) /\ Len(s) \in {0, Fan}
      /\ Len(s) = Len(poll.seen) + Len(poll.left)
      /\ \A i \in 1..Len(poll.left) : poll.left[i] = s[Len(poll.seen) + i]
      /\ \A i \in 1..Len(poll.seen) : poll.seen[i] = "succeeded" => s[i] \in done
Untagged == \A j \in Jobs : j > ids => tag[j] = 0
SuccessKept == \A j \in Jobs : status[j] = "succeeded" => j \in done
Listed == \A p \in Jobs : ListOf(p, children[p])
FanInv == Untagged /\ SuccessKept /\ Listed /\ (\A t \in Threads : Gathering(t)) /\ Polled
VerdictInv == /\ verdict.is = "succeeded" => verdict.parent \in Jobs
              /\ verdict.th \in Thresholds \cup {None}
              /\ SucceededMeansAll

\* What makes VerdictStands provable.  A child of a parent that nothing
\* disturbed has a worker only while it runs or times out, and then one, so
\* nobody overwrites a final status of it.  Names are given once, lists name
\* stored jobs, and of such a parent no child is about to be cancelled and at
\* most one thread gathers the children, before there is a list.
Final == {"succeeded", "failed", "cancelled", "ttl_expired"}
Spared(j) == tag[j] # 0 /\ tag[j] \notin disturbed
Fresh == \A j \in Jobs : j > ids => status[j] = "absent"
Free(j) == \A w \in Workers : work[w].job # j
InHand(j) == status[j] \in {"running", "timeout"}
Hands(j) == /\ status[j] = "absent" => Free(j)
            /\ Spared(j) /\ ~InHand(j) => Free(j)
            /\ Spared(j) => \A v, w \in Workers : work[v].job = j /\ work[w].job = j => v = w
Pending(t) ==
  pc[t] # "idle" => /\ status[cur[t]] = "absent"
                    /\ \A u \in Threads : u # t /\ pc[u] # "idle" => cur[u] # cur[t]
Stored(s) == \A i \in 1..Len(s) : status[s[i]] # "absent"
Lists == /\ \A p \in Jobs : Stored(children[p])
         /\ \A t \in Threads : Stored(gathered[t].ids)
         /\ Stored(cancelling)
Marks == \A i \in 1..Len(cancelling) : ~Spared(cancelling[i])
OneFan(t) ==
  LET p == gathered[t].parent IN
  p # 0 /\ p \notin disturbed => /\ children[p] = <<>>
                                 /\ \A u \in Threads : u # t => gathered[u].parent # p
StoreInv == Fresh /\ (\A j \in Jobs : Hands(j)) /\ (\A t \in Threads : Pending(t)) /\ Lists /\ Marks
            /\ (\A t \in Threads : OneFan(t))

\* What a poll of such a parent has read: an empty list, or as much of the list
\* as it has passed, and what it saw as final still is.
Reads(c) ==
  /\ Len(c) = Len(poll.seen) + Len(poll.left)
  /\ \A i \in 1..Len(poll.left) : poll.left[i] = c[Len(poll.seen) + i]
  /\ \A i \in 1..Len(poll.seen) :
       /\ poll.seen[i] \in Final => poll.seen[i] = status[c[i]]
       /\ poll.seen[i] # "absent"
       /\ poll.th # None => poll.seen[i] # "timeout"
EmptyPoll == poll.left = <<>> /\ poll.seen = <<>>
Reading == poll.parent # 0 /\ poll.parent \notin disturbed => EmptyPoll \/ Reads(children[poll.parent])

\* What a final verdict on such a parent rests on: a child that failed, or all
\* children with their final statuses; a poll under way reads the same.
Fixed(p, i) == LET j == children[p][i] IN
  /\ status[j] \in Final
  /\ poll.parent = p /\ i <= Len(poll.seen) => poll.seen[i] = status[j]
Statuses(p) == [i \in 1..Len(children[p]) |-> status[children[p][i]]]
Stands ==
  LET p == verdict.parent
      n == Len(children[p])
  IN verdict.is \in Final /\ p \notin disturbed =>
       /\ p \in Jobs /\ children[p] # <<>>
       /\ poll.parent = p => ~EmptyPoll
       /\ \/ /\ verdict.th = None /\ verdict.is = "failed"
             /\ \E i \in 1..n : Fixed(p, i) /\ status[children[p][i]] = "failed"
          \/ /\ \A i \in 1..n : Fixed(p, i)
             /\ verdict.is = Aggregate(Statuses(p), verdict.th)

-----------------------------------------------------------------------------
(* Type correctness.                                                       *)

\* What a step of the fan-out does to the queue underneath.
StatusMoves ==
  /\ \E j \in Jobs : \E s \in Moves \ {"absent"} : Put(j, s)
  /\ UNCHANGED <<clock, restarts, manager, threadVars, failed>>
Submits(t) ==
  \/ \E k \in Keys \cup {None} : Begin(t, k)
  \/ Deduplicated(t) \/ Lookup(t) \/ Store(t) \/ Enqueue(t) \/ Raise(t)
QueueStep ==
  (\E t \in Threads : Submits(t)) \/ StatusMoves \/ Restart \/ Tick \/ UNCHANGED submitVars

\* The first of a list's elements, and the rest.
LEMMA HeadTail ==
  ASSUME NEW S, NEW s \in Seq(S), s # <<>>
  PROVE  /\ Head(s) \in S /\ Head(s) = s[1]
         /\ Tail(s) \in Seq(S)
         /\ Len(s) \in Nat \ {0}
         /\ Len(Tail(s)) = Len(s) - 1
         /\ \A i \in 1..(Len(s) - 1) : Tail(s)[i] = s[i + 1]
OBVIOUS

\* What a worker writes.
LEMMA WorkerWrites ==
  ASSUME ListTypeOK, NEW w \in Workers, WorkerMoves(w)
  PROVE  /\ UNCHANGED status \/ \E j \in Jobs : \E s \in Moves \ {"absent"} : Put(j, s)
         /\ work[w].job \in Jobs \cup {0}
<1>1. work[w].job \in Jobs \cup {0}
  BY DEF ListTypeOK, Work, Jobs
<1>2. CASE HandlerEnds(w)
  BY <1>1, <1>2 DEF HandlerEnds, Moves
<1>3. ASSUME NEW j \in Jobs, Claim(w, j)
      PROVE  \E s \in Moves \ {"absent"} : Put(j, s)
  <2>1. "running" \in Moves \ {"absent"}
    BY DEF Moves
  <2> QED  BY <1>3, <2>1 DEF Claim
<1> QED  BY <1>1, <1>2, <1>3 DEF WorkerMoves

\* Every step of the fan-out is one of these for the queue.
LEMMA QueueSteps ==
  ASSUME ListTypeOK, [FanNext]_allVars
  PROVE  QueueStep
<1>1. ASSUME NEW t \in Threads,
             Submit(t) \/ SubmitChild(t) \/ ChildStored(t) \/ ChildRefused(t)
      PROVE  QueueStep
  BY <1>1 DEF Submit, SubmitChild, ChildStored, ChildRefused, QueueStep, Submits
<1>2. ASSUME NEW t \in Threads, CreateEnd(t) \/ \E p \in Jobs : CreateBegin(t, p)
      PROVE  QueueStep
  BY <1>2 DEF CreateEnd, CreateBegin, QueueStep
<1>3. ASSUME NEW w \in Workers, WorkerMoves(w)  PROVE QueueStep
  BY <1>3, WorkerWrites DEF WorkerMoves, QueueStep, StatusMoves, submitVars
<1>8. ASSUME NEW j \in Jobs, NEW s \in Moves, Rewritten(j, s)  PROVE QueueStep
  <2>1. s \in Moves \ {"absent"} /\ Put(j, s)
    BY <1>8 DEF Rewritten
  <2> QED  BY <1>8, <2>1 DEF Rewritten, QueueStep, StatusMoves
<1>4. ASSUME NEW j \in Jobs, CancelBegin(j) \/ \E th \in Thresholds : PollBegin(j, th)
      PROVE  QueueStep
  BY <1>4 DEF CancelBegin, PollBegin, QueueStep
<1>5. CASE PollRead \/ PollEnd
  BY <1>5 DEF PollRead, PollEnd, QueueStep
<1>6. CASE CancelNext
  <2>1. Head(cancelling) \in Jobs
    BY <1>6, HeadTail DEF CancelNext, ListTypeOK
  <2> QED  BY <1>6, <2>1 DEF CancelNext, QueueStep, StatusMoves, Moves
<1>7. CASE RestartAll \/ (Tick /\ UNCHANGED fanVars) \/ UNCHANGED allVars
  BY <1>7 DEF RestartAll, QueueStep, allVars
<1> QED
  BY <1>1, <1>2, <1>3, <1>4, <1>5, <1>6, <1>7, <1>8 DEF FanNext

\* A thread has a job while it submits, and a key while it asks the manager.
LEMMA ThreadTypes ==
  ASSUME QueueTypeOK, NEW t \in Threads
  PROVE  /\ ids \in Nat /\ cur[t] \in 0..MaxJobs /\ now[t] \in 0..MaxNow /\ now[t] \in Nat
         /\ key[t] \in Keys \cup {None}
         /\ pc[t] # "idle" => cur[t] \in 1..ids /\ cur[t] \in Jobs
         /\ pc[t] \in {"get", "set"} => key[t] \in Keys /\ key[t] # None
BY SubmissionAssumption DEF SubmissionAssumption, QueueTypeOK, ThreadOK, Jobs

\* What an entry and a registration hold.
LEMMA EntryTypes ==
  ASSUME QueueTypeOK
  PROVE  /\ \A k \in Keys : entries[k].job \in 0..MaxJobs /\ entries[k].expires \in Nat
         /\ \A i \in Jobs : born[i].at \in Nat /\ born[i].key \in Keys \cup {None}
<1> USE SubmissionAssumption DEF SubmissionAssumption
<1>1. \A k \in Keys : entries[k] \in [job : 0..MaxJobs, expires : 0..(MaxNow + Ttl)]
  BY DEF QueueTypeOK
<1>2. \A i \in Jobs : born[i] \in [key : Keys \cup {None}, at : 0..MaxNow]
  BY DEF QueueTypeOK
<1>3. 0..(MaxNow + Ttl) \subseteq Nat /\ 0..MaxNow \subseteq Nat
  OBVIOUS
<1> QED  BY <1>1, <1>2, <1>3

\* Registers are written with what fits them.
LEMMA EnterTypes ==
  ASSUME QueueTypeOK, NEW t \in Threads, NEW label \in {"idle", "get", "set", "enqueue"},
         NEW j \in 0..MaxJobs, NEW k \in Keys \cup {None}, NEW n \in 0..MaxNow,
         Enter(t, label, j, k, n), ids' \in 0..MaxJobs, ids' >= ids,
         label # "idle" => j \in 1..ids',
         label \in {"get", "set"} => k \in Keys
  PROVE  /\ pc' \in [Threads -> {"idle", "get", "set", "enqueue"}]
         /\ cur' \in [Threads -> 0..MaxJobs] /\ key' \in [Threads -> Keys \cup {None}]
         /\ now' \in [Threads -> 0..MaxNow]
         /\ \A u \in Threads : ThreadOK(u)'
<1>1. /\ pc' \in [Threads -> {"idle", "get", "set", "enqueue"}]
      /\ cur' \in [Threads -> 0..MaxJobs] /\ key' \in [Threads -> Keys \cup {None}]
      /\ now' \in [Threads -> 0..MaxNow]
  BY DEF Enter, QueueTypeOK
<1>2. ASSUME NEW u \in Threads  PROVE ThreadOK(u)'
  <2>1. CASE u = t
    BY <2>1 DEF Enter, QueueTypeOK, ThreadOK
  <2>2. CASE u # t
    <3>1. /\ pc'[u] = pc[u] /\ cur'[u] = cur[u] /\ key'[u] = key[u]
          /\ pc[u] # "idle" => cur[u] \in 1..ids
          /\ pc[u] \in {"get", "set"} => key[u] \in Keys
      BY <2>2 DEF Enter, QueueTypeOK, ThreadOK
    <3>2. ids \in Nat /\ ids' \in Nat
      BY DEF QueueTypeOK
    <3> QED  BY <3>1, <3>2 DEF ThreadOK
  <2> QED  BY <2>1, <2>2
<1> QED  BY <1>1, <1>2

\* Every step keeps the queue well typed.
LEMMA QueueType == ASSUME QueueTypeOK, QueueStep  PROVE QueueTypeOK'
<1> USE SubmissionAssumption DEF SubmissionAssumption
<1>z. 0 \in 0..MaxJobs /\ 0 \in 0..MaxNow /\ None \in Keys \cup {None} /\ ids \in Nat
  BY DEF QueueTypeOK
<1>1. ASSUME NEW t \in Threads, NEW k \in Keys \cup {None}, Begin(t, k)  PROVE QueueTypeOK'
  <2>1. ids' = ids + 1 /\ ids' \in 0..MaxJobs /\ ids + 1 \in 1..ids' /\ ids + 1 \in 0..MaxJobs
    BY <1>1, <1>z DEF Begin, QueueTypeOK
  <2>2. (IF k = None THEN 0 ELSE clock) \in 0..MaxNow
    BY DEF QueueTypeOK
  <2>3. /\ (IF k = None THEN "enqueue" ELSE "get") \in {"idle", "get", "set", "enqueue"}
        /\ (IF k = None THEN "enqueue" ELSE "get") \in {"get", "set"} => k \in Keys
    OBVIOUS
  <2>4. Enter(t, IF k = None THEN "enqueue" ELSE "get", ids + 1, k, IF k = None THEN 0 ELSE clock)
    BY <1>1 DEF Begin
  <2>5. ids' >= ids
    BY <1>z, <2>1
  <2>6. /\ pc' \in [Threads -> {"idle", "get", "set", "enqueue"}]
        /\ cur' \in [Threads -> 0..MaxJobs] /\ key' \in [Threads -> Keys \cup {None}]
        /\ now' \in [Threads -> 0..MaxNow]
        /\ \A u \in Threads : ThreadOK(u)'
    BY <2>1, <2>2, <2>3, <2>4, <2>5, EnterTypes
  <2>7. UNCHANGED <<clock, restarts, entries, status, born, raced, answered, failed>>
    BY <1>1 DEF Begin
  <2> QED  BY <2>1, <2>6, <2>7 DEF QueueTypeOK
<1>r. ASSUME NEW t \in Threads, Return(t), ids' = ids
      PROVE  /\ pc' \in [Threads -> {"idle", "get", "set", "enqueue"}]
             /\ cur' \in [Threads -> 0..MaxJobs] /\ key' \in [Threads -> Keys \cup {None}]
             /\ now' \in [Threads -> 0..MaxNow]
             /\ \A u \in Threads : ThreadOK(u)'
  BY <1>r, <1>z, EnterTypes DEF Return, QueueTypeOK
<1>2. ASSUME NEW t \in Threads, Deduplicated(t)  PROVE QueueTypeOK'
  <2>1. key[t] \in Keys /\ entries[key[t]].job \in Jobs
    <3>1. key[t] \in Keys
      BY <1>2, ThreadTypes DEF Deduplicated
    <3>2. entries[key[t]].job \in 0..MaxJobs /\ entries[key[t]].job # 0
      BY <1>2, <3>1, EntryTypes DEF Deduplicated, Valid
    <3> QED  BY <3>1, <3>2 DEF Jobs
  <2>2. answered' \subseteq Keys \X Jobs
    BY <1>2, <2>1 DEF Deduplicated, QueueTypeOK
  <2>3. Return(t) /\ ids' = ids
    BY <1>2 DEF Deduplicated
  <2>4. UNCHANGED <<clock, restarts, ids, entries, born, raced, status, failed>>
    BY <1>2 DEF Deduplicated
  <2> QED  BY <1>r, <2>2, <2>3, <2>4 DEF QueueTypeOK
<1>3. ASSUME NEW t \in Threads, Lookup(t)  PROVE QueueTypeOK'
  <2>1. raced' \subseteq Jobs
    <3>1. \A u \in Threads : pc[u] # "idle" => cur[u] \in Jobs
      BY ThreadTypes
    <3> QED  BY <1>3, <3>1 DEF Lookup, QueueTypeOK
  <2>2. UNCHANGED <<clock, restarts, ids, entries, born, answered, status, cur, key, now, failed>>
    BY <1>3 DEF Lookup
  <2>3. pc' \in [Threads -> {"idle", "get", "set", "enqueue"}] /\ \A u \in Threads : ThreadOK(u)'
    BY <1>3, <2>2 DEF Lookup, QueueTypeOK, ThreadOK
  <2> QED  BY <2>1, <2>2, <2>3 DEF QueueTypeOK
<1>4. ASSUME NEW t \in Threads, Store(t)  PROVE QueueTypeOK'
  <2>1. key[t] \in Keys /\ cur[t] \in Jobs /\ now[t] \in 0..MaxNow /\ cur[t] \in 0..MaxJobs
    BY <1>4, ThreadTypes DEF Store
  <2>2. now[t] + Ttl \in 0..(MaxNow + Ttl)
    BY <2>1
  <2>3. entries' \in [Keys -> [job : 0..MaxJobs, expires : 0..(MaxNow + Ttl)]]
    BY <1>4, <2>1, <2>2 DEF Store, QueueTypeOK
  <2>4. born' \in [Jobs -> [key : Keys \cup {None}, at : 0..MaxNow]]
    BY <1>4, <2>1 DEF Store, QueueTypeOK
  <2>5. UNCHANGED <<clock, restarts, ids, raced, answered, status, cur, key, now, failed>>
    BY <1>4 DEF Store
  <2>6. pc' \in [Threads -> {"idle", "get", "set", "enqueue"}] /\ \A u \in Threads : ThreadOK(u)'
    BY <1>4, <2>5 DEF Store, QueueTypeOK, ThreadOK
  <2> QED  BY <2>3, <2>4, <2>5, <2>6 DEF QueueTypeOK
<1>5. ASSUME NEW t \in Threads, Enqueue(t)  PROVE QueueTypeOK'
  <2>1. status' \in [Jobs -> Moves]
    BY <1>5 DEF Enqueue, QueueTypeOK, Moves
  <2>2. Return(t) /\ UNCHANGED <<clock, restarts, ids, entries, born, raced, answered, failed>>
    BY <1>5 DEF Enqueue, manager
  <2> QED  BY <1>r, <2>1, <2>2 DEF QueueTypeOK
<1>6. ASSUME NEW t \in Threads, Raise(t)  PROVE QueueTypeOK'
  <2>1. failed' \subseteq Jobs
    BY <1>6, ThreadTypes DEF Raise, QueueTypeOK
  <2>2. Return(t) /\ UNCHANGED <<clock, restarts, ids, entries, born, raced, answered, status>>
    BY <1>6 DEF Raise, manager
  <2> QED  BY <1>r, <2>1, <2>2 DEF QueueTypeOK
<1>7. CASE StatusMoves
  <2>1. status' \in [Jobs -> Moves]
    BY <1>7 DEF StatusMoves, Put, QueueTypeOK
  <2> QED  BY <1>7, <2>1 DEF StatusMoves, manager, threadVars, QueueTypeOK, ThreadOK
<1>8. CASE Restart
  <2>1. failed' \subseteq Jobs
    BY <1>8, ThreadTypes DEF Restart, QueueTypeOK
  <2>2. restarts' \in 0..MaxRestarts
    BY <1>8 DEF Restart, QueueTypeOK
  <2>3. /\ entries' \in [Keys -> [job : 0..MaxJobs, expires : 0..(MaxNow + Ttl)]]
        /\ born' \in [Jobs -> [key : Keys \cup {None}, at : 0..MaxNow]]
    BY <1>8, <1>z DEF Restart, NoEntry, Unborn
  <2>4. /\ pc' \in [Threads -> {"idle", "get", "set", "enqueue"}]
        /\ cur' \in [Threads -> 0..MaxJobs] /\ key' \in [Threads -> Keys \cup {None}]
        /\ now' \in [Threads -> 0..MaxNow]
        /\ \A u \in Threads : ThreadOK(u)'
    BY <1>8, <1>z DEF Restart, ThreadOK
  <2>5. UNCHANGED <<clock, ids, raced, answered, status>>
    BY <1>8 DEF Restart
  <2> QED  BY <2>1, <2>2, <2>3, <2>4, <2>5 DEF QueueTypeOK
<1>9. CASE Tick
  <2>1. clock' \in 1..MaxNow
    BY <1>9 DEF Tick, QueueTypeOK
  <2> QED  BY <1>9, <2>1 DEF Tick, manager, threadVars, QueueTypeOK, ThreadOK
<1>10. CASE UNCHANGED submitVars
  BY <1>10 DEF submitVars, manager, threadVars, QueueTypeOK, ThreadOK
<1> QED
  BY <1>1, <1>2, <1>3, <1>4, <1>5, <1>6, <1>7, <1>8, <1>9, <1>10 DEF QueueStep, Submits

\* aggregate_child_statuses answers with a status.
LEMMA AggregateType ==
  ASSUME NEW seen, NEW th
  PROVE  Aggregate(seen, th) \in Moves
BY DEF Aggregate, Moves

\* Every step keeps the lists of children, the poll and the marks well typed.
LEMMA ListType ==
  ASSUME QueueTypeOK, ListTypeOK, [FanNext]_allVars
  PROVE  ListTypeOK'
<1> USE FanAssumption, SubmissionAssumption DEF FanAssumption, SubmissionAssumption
<1>u. ASSUME UNCHANGED fanVars  PROVE ListTypeOK'
  BY <1>u DEF fanVars, ListTypeOK
<1>g. \A t \in Threads : /\ gathered[t].parent \in 0..MaxJobs /\ gathered[t].ids \in Seq(Jobs)
                         /\ gathered[t] # NoFan => gathered[t].parent # 0
  BY DEF ListTypeOK, Gather
<1>p. /\ poll.parent \in 0..MaxJobs /\ poll.th \in Thresholds \cup {None}
      /\ poll.left \in Seq(Jobs) /\ poll.seen \in Seq(Moves)
  BY DEF ListTypeOK, Poll
<1>n. NoFan \in Gather /\ NoPoll \in Poll
  BY DEF NoFan, Gather, NoPoll, Poll
<1>e. ASSUME NEW t \in Threads, NEW g \in Gather, gathered' = [gathered EXCEPT ![t] = g],
             g.parent = 0 => g = NoFan
      PROVE  /\ gathered' \in [Threads -> Gather]
             /\ \A u \in Threads : gathered'[u].parent = 0 => gathered'[u] = NoFan
  <2> USE DEF ListTypeOK
  <2>1. gathered' \in [Threads -> Gather]
    BY <1>e
  <2>2. gathered'[t] = g /\ \A u \in Threads \ {t} : gathered'[u] = gathered[u]
    BY <1>e
  <2> QED  BY <1>e, <2>1, <2>2
<1>1. ASSUME NEW t \in Threads, Submit(t)  PROVE ListTypeOK'
  BY <1>1, <1>u DEF Submit
<1>2. ASSUME NEW t \in Threads, NEW p \in Jobs, CreateBegin(t, p)  PROVE ListTypeOK'
  <2>1. [gathered[t] EXCEPT !.parent = p] \in Gather /\ [gathered[t] EXCEPT !.parent = p].parent # 0
    <3>1. gathered[t] \in Gather
      BY DEF ListTypeOK
    <3>2. p \in 0..MaxJobs /\ p # 0
      BY DEF Jobs
    <3> QED  BY <3>1, <3>2 DEF Gather
  <2>2. gathered' = [gathered EXCEPT ![t] = [gathered[t] EXCEPT !.parent = p]]
    BY <1>2 DEF CreateBegin
  <2>3. /\ gathered' \in [Threads -> Gather]
        /\ \A u \in Threads : gathered'[u].parent = 0 => gathered'[u] = NoFan
    BY <1>e, <2>1, <2>2
  <2>4. disturbed' \subseteq Jobs
    BY <1>2 DEF CreateBegin, ListTypeOK
  <2>5. UNCHANGED <<children, tag, work, rewrites, poll, verdict, cancelling, done>>
    BY <1>2 DEF CreateBegin
  <2> QED  BY <2>3, <2>4, <2>5 DEF ListTypeOK
<1>3. ASSUME NEW t \in Threads, SubmitChild(t)  PROVE ListTypeOK'
  <2>1. tag' \in [Jobs -> 0..MaxJobs]
    BY <1>3, <1>g DEF SubmitChild, ListTypeOK
  <2>2. UNCHANGED <<children, gathered, work, rewrites, poll, verdict, cancelling, done, disturbed>>
    BY <1>3 DEF SubmitChild
  <2> QED  BY <2>1, <2>2 DEF ListTypeOK
<1>4. ASSUME NEW t \in Threads, ChildStored(t)  PROVE ListTypeOK'
  <2>1. cur[t] \in Jobs
    BY <1>4, ThreadTypes DEF ChildStored, Enqueue
  <2>2. Append(gathered[t].ids, cur[t]) \in Seq(Jobs)
    BY <1>g, <2>1
  <2>3. gathered[t] \in Gather
    BY DEF ListTypeOK
  <2> DEFINE l == Append(gathered[t].ids, cur[t])
             g == [gathered[t] EXCEPT !.ids = l]
  <2>5. gathered' = [gathered EXCEPT ![t] = g]
    BY <1>4 DEF ChildStored
  <2> HIDE DEF l
  <2>4. g \in Gather /\ g.parent # 0
    BY <1>4, <1>g, <2>2, <2>3 DEF Gather, ChildStored, l
  <2> HIDE DEF g
  <2>6. /\ gathered' \in [Threads -> Gather]
        /\ \A u \in Threads : gathered'[u].parent = 0 => gathered'[u] = NoFan
    BY <1>e, <2>4, <2>5
  <2>7. UNCHANGED <<children, tag, work, rewrites, poll, verdict, cancelling, done, disturbed>>
    BY <1>4 DEF ChildStored
  <2> QED  BY <2>6, <2>7 DEF ListTypeOK
<1>5. ASSUME NEW t \in Threads, ChildRefused(t)  PROVE ListTypeOK'
  <2>1. /\ gathered' \in [Threads -> Gather]
        /\ \A u \in Threads : gathered'[u].parent = 0 => gathered'[u] = NoFan
    BY <1>5, <1>e, <1>n DEF ChildRefused
  <2>2. UNCHANGED <<children, tag, work, rewrites, poll, verdict, cancelling, done, disturbed>>
    BY <1>5 DEF ChildRefused
  <2> QED  BY <2>1, <2>2 DEF ListTypeOK
<1>6. ASSUME NEW t \in Threads, CreateEnd(t)  PROVE ListTypeOK'
  <2>1. /\ gathered' \in [Threads -> Gather]
        /\ \A u \in Threads : gathered'[u].parent = 0 => gathered'[u] = NoFan
    BY <1>6, <1>e, <1>n DEF CreateEnd
  <2>2. children' \in [Jobs -> Seq(Jobs)] /\ \A p \in Jobs : Len(children'[p]) \in {0, Fan}
    BY <1>6, <1>g DEF CreateEnd, ListTypeOK
  <2>3. UNCHANGED <<tag, work, rewrites, poll, verdict, cancelling, done, disturbed>>
    BY <1>6 DEF CreateEnd
  <2> QED  BY <2>1, <2>2, <2>3 DEF ListTypeOK
<1>7. ASSUME NEW w \in Workers, WorkerMoves(w)  PROVE ListTypeOK'
  <2>0. /\ NoWork \in Work /\ \A j \in Jobs : \A b \in BOOLEAN : [job |-> j, late |-> b] \in Work
        /\ work \in [Workers -> Work] /\ done \subseteq Jobs /\ work[w].job \in Jobs \cup {0}
    BY <1>7, WorkerWrites, SubmissionAssumption DEF NoWork, Work, Jobs, ListTypeOK, SubmissionAssumption
  <2>1. work' \in [Workers -> Work] /\ done' \subseteq Jobs
    <3>1. CASE HandlerEnds(w)
      BY <2>0, <3>1 DEF HandlerEnds, Has
    <3>2. CASE \E j \in Jobs : Claim(w, j)
      BY <2>0, <3>2 DEF Claim, Has
    <3> QED  BY <1>7, <3>1, <3>2 DEF WorkerMoves
  <2>2. UNCHANGED <<children, gathered, tag, rewrites, poll, verdict, cancelling, disturbed>>
    BY <1>7 DEF WorkerMoves
  <2> QED  BY <2>1, <2>2 DEF ListTypeOK
<1>15. ASSUME NEW j \in Jobs, NEW s \in Moves, Rewritten(j, s)  PROVE ListTypeOK'
  <2>1. rewrites' \in 0..MaxRewrites
    BY <1>15, FanAssumption DEF Rewritten, ListTypeOK, FanAssumption
  <2>2. disturbed' \subseteq Jobs
    <3>1. tag[j] \in Jobs
      BY <1>15 DEF Rewritten, ListTypeOK, Jobs
    <3> QED  BY <1>15, <3>1 DEF Rewritten, ListTypeOK
  <2>3. UNCHANGED <<children, gathered, tag, work, poll, verdict, cancelling, done>>
    BY <1>15 DEF Rewritten
  <2> QED  BY <2>1, <2>2, <2>3 DEF ListTypeOK
<1>8. ASSUME NEW p \in Jobs, CancelBegin(p)  PROVE ListTypeOK'
  <2>1. children[p] \in Seq(Jobs)
    BY DEF ListTypeOK
  <2>2. cancelling' \in Seq(Jobs)
    BY <1>8, <2>1 DEF CancelBegin
  <2> QED  BY <1>8, <2>2 DEF CancelBegin, ListTypeOK
<1>9. ASSUME NEW p \in Jobs, NEW th \in Thresholds, PollBegin(p, th)  PROVE ListTypeOK'
  <2>1. children[p] \in Seq(Jobs) /\ p \in 0..MaxJobs
    BY DEF ListTypeOK, Jobs
  <2>2. poll' \in Poll
    BY <1>9, <2>1 DEF PollBegin, Poll
  <2> QED  BY <1>9, <2>2 DEF PollBegin, ListTypeOK
<1>10. CASE PollRead
  <2> DEFINE s == status[Head(poll.left)]
             r == IF s = "absent" THEN "failed" ELSE s
  <2>1. Head(poll.left) \in Jobs /\ Tail(poll.left) \in Seq(Jobs)
    BY <1>10, <1>p, HeadTail DEF PollRead
  <2>2. r \in Moves
    BY <2>1 DEF QueueTypeOK, Moves
  <2>3. poll' = [poll EXCEPT !.left = Tail(poll.left), !.seen = Append(poll.seen, r)]
    BY <1>10 DEF PollRead
  <2> HIDE DEF r
  <2>4. Append(poll.seen, r) \in Seq(Moves)
    BY <1>p, <2>2
  <2>5. poll' \in Poll
    BY <1>p, <2>1, <2>3, <2>4 DEF Poll, ListTypeOK
  <2>6. disturbed' \subseteq Jobs
    BY <1>10, <1>p DEF PollRead, ListTypeOK, Jobs
  <2>7. UNCHANGED <<children, gathered, tag, work, rewrites, verdict, cancelling, done>>
    BY <1>10 DEF PollRead
  <2> QED  BY <2>5, <2>6, <2>7 DEF ListTypeOK
<1>11. CASE PollEnd
  <2>1. poll' \in Poll
    BY <1>11, <1>n DEF PollEnd
  <2>2. verdict'.is \in Moves
    BY <1>11, AggregateType DEF PollEnd
  <2>3. UNCHANGED <<children, gathered, tag, work, rewrites, cancelling, done, disturbed>>
    BY <1>11 DEF PollEnd
  <2> QED  BY <2>1, <2>2, <2>3 DEF ListTypeOK
<1>12. CASE CancelNext
  <2>1. cancelling' \in Seq(Jobs)
    BY <1>12, HeadTail DEF CancelNext, ListTypeOK
  <2> QED  BY <1>12, <2>1 DEF CancelNext, ListTypeOK
<1>13. CASE RestartAll
  <2>1. /\ gathered' \in [Threads -> Gather]
        /\ \A u \in Threads : gathered'[u].parent = 0 => gathered'[u] = NoFan
    BY <1>13, <1>n DEF RestartAll
  <2>2. children' \in [Jobs -> Seq(Jobs)] /\ \A p \in Jobs : Len(children'[p]) \in {0, Fan}
    BY <1>13 DEF RestartAll
  <2>3. poll' \in Poll /\ cancelling' \in Seq(Jobs) /\ disturbed' \subseteq Jobs
    BY <1>13, <1>n DEF RestartAll, ListTypeOK
  <2>4. UNCHANGED <<tag, work, rewrites, verdict, done>>
    BY <1>13 DEF RestartAll
  <2> QED  BY <2>1, <2>2, <2>3, <2>4 DEF ListTypeOK
<1>14. CASE (Tick /\ UNCHANGED fanVars) \/ UNCHANGED allVars
  BY <1>14, <1>u DEF allVars
<1> QED
  BY <1>1, <1>2, <1>3, <1>4, <1>5, <1>6, <1>7, <1>8, <1>9, <1>10, <1>11, <1>12, <1>13,
     <1>14, <1>15 DEF FanNext

\* The invariant behind FanTypeOK.
LEMMA AllTypes == FanSpec => []AllTypeOK
<1> USE FanAssumption, SubmissionAssumption DEF FanAssumption, SubmissionAssumption
<1>1. FanInit => QueueTypeOK
  <2> SUFFICES ASSUME FanInit  PROVE QueueTypeOK
    OBVIOUS
  <2>1. /\ entries \in [Keys -> [job : 0..MaxJobs, expires : 0..(MaxNow + Ttl)]]
        /\ born \in [Jobs -> [key : Keys \cup {None}, at : 0..MaxNow]]
    BY DEF FanInit, SubmitInit, NoEntry, Unborn
  <2>2. clock \in 1..MaxNow /\ restarts \in 0..MaxRestarts /\ ids \in 0..MaxJobs
    BY DEF FanInit, SubmitInit
  <2>3. \A t \in Threads : ThreadOK(t)
    BY DEF FanInit, SubmitInit, ThreadOK
  <2> QED  BY <2>1, <2>2, <2>3 DEF FanInit, SubmitInit, QueueTypeOK, Moves
<1>2. FanInit => ListTypeOK
  <2> SUFFICES ASSUME FanInit  PROVE ListTypeOK
    OBVIOUS
  <2>1. children \in [Jobs -> Seq(Jobs)] /\ \A p \in Jobs : Len(children[p]) \in {0, Fan}
    BY DEF FanInit
  <2>2. NoFan \in Gather /\ NoPoll \in Poll
    BY DEF NoFan, Gather, NoPoll, Poll
  <2>3. verdict.is \in Moves \cup {None} /\ tag \in [Jobs -> 0..MaxJobs]
    BY DEF FanInit, NoVerdict
  <2>4. work \in [Workers -> Work] /\ rewrites \in 0..MaxRewrites
    BY DEF FanInit, NoWork, Work
  <2> QED  BY <2>1, <2>2, <2>3, <2>4 DEF FanInit, ListTypeOK
<1>3. AllTypeOK /\ [FanNext]_allVars => AllTypeOK'
  BY QueueSteps, QueueType, ListType DEF AllTypeOK
<1> QED
  BY <1>1, <1>2, <1>3, PTL DEF FanSpec, AllTypeOK

\* Submissions and fan-outs keep their state well typed.
THEOREM FanTypeCorrect == FanSpec => []FanTypeOK
<1>1. AllTypeOK => FanTypeOK
  BY DEF AllTypeOK, QueueTypeOK, ListTypeOK, FanTypeOK, Gather, Poll, Work
<1> QED
  BY AllTypes, <1>1, PTL

-----------------------------------------------------------------------------
(* Idempotency keys.                                                       *)

\* The same after the step, of a job that was named before it.
StillNamed(k, j) ==
  \/ status'[j] # "absent"
  \/ \E t \in Threads : pc'[t] = "enqueue" /\ cur'[t] = j /\ key'[t] = k
  \/ j \in failed'

\* A job that is named stays named, whoever submits, fails or restarts.
LEMMA NamedStays ==
  ASSUME QueueTypeOK, QueueStep, NEW k \in Keys, NEW j \in Jobs, Named(k, j)
  PROVE  StillNamed(k, j)
<1>1. CASE j \in failed
  <2>1. j \in failed'
    BY <1>1 DEF QueueStep, Submits, Begin, Deduplicated, Lookup, Store, Enqueue, Raise,
                StatusMoves, Restart, Tick, submitVars
  <2> QED  BY <2>1 DEF StillNamed
<1>2. CASE status[j] # "absent"
  <2>1. status'[j] # "absent"
    BY <1>2 DEF QueueStep, Submits, Begin, Deduplicated, Lookup, Store, Enqueue, Raise,
                StatusMoves, Put, Restart, Tick, submitVars, QueueTypeOK, Moves
  <2> QED  BY <2>1 DEF StillNamed
<1>3. ASSUME NEW t \in Threads, pc[t] = "enqueue", cur[t] = j, key[t] = k  PROVE StillNamed(k, j)
  <2>0. \A u \in Threads : u # t /\ Submits(u) => pc'[t] = pc[t] /\ cur'[t] = cur[t] /\ key'[t] = key[t]
    BY DEF Submits, Begin, Deduplicated, Lookup, Store, Enqueue, Raise, Enter, Return, QueueTypeOK
  <2>1. CASE \E u \in Threads \ {t} : Submits(u)
    BY <1>3, <2>0, <2>1 DEF StillNamed
  <2>2. CASE Submits(t)
    <3>1. Enqueue(t) \/ Raise(t)
      BY <1>3, <2>2 DEF Submits, Begin, Deduplicated, Lookup, Store
    <3>2. Enqueue(t) => status'[j] = "queued"
      BY <1>3 DEF Enqueue, QueueTypeOK
    <3>3. Raise(t) => j \in failed'
      BY <1>3 DEF Raise
    <3> QED  BY <3>1, <3>2, <3>3 DEF StillNamed
  <2>3. CASE StatusMoves \/ Tick \/ UNCHANGED submitVars
    BY <1>3, <2>3 DEF StatusMoves, Tick, submitVars, threadVars, StillNamed
  <2>4. CASE Restart
    <3>1. j \in failed'
      BY <1>3, <2>4 DEF Restart
    <3> QED  BY <3>1 DEF StillNamed
  <2> QED  BY <2>1, <2>2, <2>3, <2>4 DEF QueueStep
<1> QED  BY <1>1, <1>2, <1>3 DEF Named

\* Every entry and every answer names a job.
LEMMA AnswerSteps ==
  ASSUME QueueTypeOK, QueueStep, AnswerInv
  PROVE  AnswerInv'
<1>e. \A k \in Keys : entries[k].job # 0 => entries[k].job \in Jobs
  BY EntryTypes DEF Jobs
<1>a. \A x \in answered : x[1] \in Keys /\ x[2] \in Jobs
  BY DEF QueueTypeOK
<1>k. /\ \A k \in Keys : entries[k].job # 0 => StillNamed(k, entries[k].job)
      /\ \A x \in answered : StillNamed(x[1], x[2])
  BY <1>e, <1>a, NamedStays DEF AnswerInv
<1>1. ASSUME NEW t \in Threads, Deduplicated(t)  PROVE AnswerInv'
  <2>1. key[t] \in Keys /\ entries[key[t]].job # 0
    BY <1>1, ThreadTypes DEF Deduplicated, Valid
  <2> QED  BY <1>1, <1>k, <2>1 DEF Deduplicated, AnswerInv, Named, StillNamed
<1>2. ASSUME NEW t \in Threads, Store(t)  PROVE AnswerInv'
  <2>1. key[t] \in Keys /\ cur[t] \in Jobs
    BY <1>2, ThreadTypes DEF Store
  <2>2. StillNamed(key[t], cur[t])
    BY <1>2, <2>1 DEF Store, StillNamed, QueueTypeOK
  <2>3. \A k \in Keys : entries'[k].job = IF k = key[t] THEN cur[t] ELSE entries[k].job
    BY <1>2, <2>1 DEF Store, QueueTypeOK
  <2> QED  BY <1>2, <1>k, <2>2, <2>3 DEF Store, AnswerInv, Named, StillNamed
<1>3. CASE Restart
  BY <1>3, <1>k DEF Restart, AnswerInv, NoEntry, Named, StillNamed
<1>4. ASSUME UNCHANGED <<entries, answered>>  PROVE AnswerInv'
  BY <1>4, <1>k DEF AnswerInv, Named, StillNamed
<1>5. CASE StatusMoves \/ Tick \/ UNCHANGED submitVars
  BY <1>4, <1>5 DEF StatusMoves, Tick, submitVars, manager
<1>6. ASSUME NEW t \in Threads, (\E k \in Keys \cup {None} : Begin(t, k)) \/ Lookup(t) \/ Enqueue(t) \/ Raise(t)
      PROVE  AnswerInv'
  BY <1>4, <1>6 DEF Begin, Lookup, Enqueue, Raise, manager
<1> QED
  BY <1>1, <1>2, <1>3, <1>5, <1>6 DEF QueueStep, Submits

\* A duplicate is never answered with an id that names no submission.
THEOREM DuplicatesNameJobs == FanSpec => []AnswersNameJobs
<1>1. FanInit => AnswerInv
  BY DEF FanInit, SubmitInit, AnswerInv, NoEntry
<1>2. AllTypeOK /\ AnswerInv /\ [FanNext]_allVars => AnswerInv'
  BY QueueSteps, AnswerSteps DEF AllTypeOK
<1>3. AnswerInv => AnswersNameJobs
  BY DEF AnswerInv, AnswersNameJobs, Named
<1> QED
  BY AllTypes, <1>1, <1>2, <1>3, PTL DEF FanSpec

\* A step that registers nothing, replaces no entry and lets nobody past the
\* lookup keeps the windows apart.
LEMMA KeepWindows ==
  ASSUME WindowInv, UNCHANGED <<born, entries, raced>>,
         \A t \in Threads : pc'[t] = "set" => /\ pc[t] = "set" /\ cur'[t] = cur[t]
                                              /\ key'[t] = key[t] /\ now'[t] = now[t]
  PROVE  WindowInv'
<1>1. \A i, k : Born(i, k)' <=> Born(i, k)
  BY DEF Born
<1>2. Marked'
  BY DEF WindowInv, Marked
<1>3. Covered'
  BY <1>1 DEF WindowInv, Covered
<1>4. Apart'
  BY <1>1 DEF WindowInv, Apart
<1> QED  BY <1>2, <1>3, <1>4 DEF WindowInv

\* A lookup that finds no valid entry: the windows of the key have all closed
\* by the time it goes by, or the two that met are marked.
LEMMA LookupWindows ==
  ASSUME QueueTypeOK, WindowInv, NEW t \in Threads, Lookup(t)
  PROVE  WindowInv'
<1>0. /\ pc' = [pc EXCEPT ![t] = "set"] /\ UNCHANGED <<born, entries, cur, key, now>>
      /\ key[t] \in Keys /\ now[t] \in Nat /\ raced \subseteq raced'
  BY ThreadTypes DEF Lookup
<1>p. pc'[t] = "set" /\ \A u \in Threads \ {t} : pc'[u] = pc[u]
  BY <1>0 DEF QueueTypeOK
<1>m. \A u \in Threads \ {t} : pc[u] = "set" /\ key[u] = key[t] => cur[u] \in raced' /\ cur[t] \in raced'
  <2> SUFFICES ASSUME NEW u \in Threads \ {t}, pc[u] = "set", key[u] = key[t]
               PROVE  cur[u] \in raced' /\ cur[t] \in raced'
    OBVIOUS
  <2> DEFINE others == {v \in Threads \ {t} : pc[v] = "set" /\ key[v] = key[t]}
  <2>1. u \in others
    OBVIOUS
  <2>2. raced' = IF others = {} THEN raced ELSE raced \cup {cur[v] : v \in others \cup {t}}
    BY DEF Lookup
  <2> HIDE DEF others
  <2> QED  BY <2>1, <2>2
<1>1. \A i, k : Born(i, k)' => Born(i, k)
  BY <1>0 DEF Born
<1>2. Marked'
  BY <1>0, <1>p, <1>m DEF WindowInv, Marked
<1>3. ASSUME NEW i \in Jobs, NEW k \in Keys, Born(i, k), key[t] = k
      PROVE  born[i].at + Ttl <= now[t]
  <2>1. entries[k].job # 0 /\ born[i].at + Ttl <= entries[k].expires
    BY <1>3 DEF WindowInv, Covered
  <2>2. ~(entries[k].expires > now[t])
    BY <1>3, <2>1 DEF Lookup, Valid
  <2> QED  BY <1>0, <2>1, <2>2, EntryTypes, SubmissionAssumption DEF SubmissionAssumption
<1>4. Covered'
  <2> SUFFICES ASSUME NEW i \in Jobs, NEW k \in Keys, Born(i, k)
               PROVE  /\ entries[k].job # 0 /\ born[i].at + Ttl <= entries[k].expires
                      /\ \A u \in Threads : pc'[u] = "set" /\ key[u] = k => born[i].at + Ttl <= now[u]
    BY <1>0, <1>1 DEF Covered
  <2> QED  BY <1>3, <1>p DEF WindowInv, Covered
<1>5. Apart'
  BY <1>0, <1>1 DEF WindowInv, Apart
<1> QED  BY <1>2, <1>4, <1>5 DEF WindowInv

\* A registration: whoever else is about to store the key is marked, and every
\* unmarked window of the key has closed.
LEMMA StoreWindows ==
  ASSUME QueueTypeOK, WindowInv, NEW t \in Threads, Store(t)
  PROVE  WindowInv'
<1>0. /\ key[t] \in Keys /\ key[t] # None /\ cur[t] \in Jobs /\ now[t] \in Nat
      /\ pc[t] = "set" /\ raced' = raced /\ UNCHANGED <<cur, key, now>>
  BY ThreadTypes DEF Store
<1>p. pc'[t] = "enqueue" /\ \A u \in Threads \ {t} : pc'[u] = pc[u]
  BY DEF Store, QueueTypeOK
<1>t. Ttl \in Nat
  BY SubmissionAssumption DEF SubmissionAssumption
<1>b. /\ born'[cur[t]].key = key[t] /\ born'[cur[t]].at = now[t]
      /\ \A i \in Jobs \ {cur[t]} : born'[i] = born[i]
  BY <1>0 DEF Store, QueueTypeOK
<1>e. /\ entries'[key[t]].job = cur[t] /\ entries'[key[t]].expires = now[t] + Ttl
      /\ \A k \in Keys \ {key[t]} : entries'[k] = entries[k]
  BY <1>0 DEF Store, QueueTypeOK
<1>1. ASSUME NEW i \in Jobs, NEW k \in Keys, i # cur[t], Born(i, k)'
      PROVE  Born(i, k) /\ born'[i].at = born[i].at
  BY <1>0, <1>1, <1>b DEF Born
<1>2. ASSUME NEW k \in Keys, Born(cur[t], k)'
      PROVE  k = key[t] /\ cur[t] \notin raced
  BY <1>0, <1>2, <1>b DEF Born
<1>3. Marked'
  BY <1>0, <1>p DEF WindowInv, Marked
<1>4. ASSUME NEW i \in Jobs, NEW k \in Keys, Born(i, k)'
      PROVE  /\ entries'[k].job # 0 /\ born'[i].at + Ttl <= entries'[k].expires
             /\ \A u \in Threads : pc'[u] = "set" /\ key[u] = k => born'[i].at + Ttl <= now[u]
  <2>1. CASE i = cur[t]
    <3>1. \A u \in Threads : ~(pc'[u] = "set" /\ key[u] = k)
      BY <1>0, <1>2, <1>4, <1>p, <2>1 DEF WindowInv, Marked
    <3> QED  BY <1>0, <1>2, <1>4, <1>b, <1>e, <1>t, <2>1, <3>1 DEF Jobs
  <2>2. CASE i # cur[t]
    <3>1. Born(i, k) /\ born'[i].at = born[i].at /\ born[i].at \in Nat
      BY <1>1, <1>4, <2>2, EntryTypes
    <3>2. /\ entries[k].job # 0 /\ born[i].at + Ttl <= entries[k].expires
          /\ \A u \in Threads : pc[u] = "set" /\ key[u] = k => born[i].at + Ttl <= now[u]
      BY <3>1 DEF WindowInv, Covered
    <3>3. CASE k = key[t]
      <4>1. born[i].at + Ttl <= now[t]
        BY <1>0, <3>2, <3>3
      <4> QED  BY <1>0, <1>e, <1>p, <1>t, <3>1, <3>2, <3>3, <4>1 DEF Jobs
    <3>4. CASE k # key[t]
      BY <1>e, <1>p, <3>1, <3>2, <3>4
    <3> QED  BY <3>3, <3>4
  <2> QED  BY <2>1, <2>2
<1>5. Covered'
  BY <1>0, <1>4 DEF Covered
<1>6. ASSUME NEW i \in Jobs, i # cur[t], NEW k \in Keys, Born(i, k)', Born(cur[t], k)'
      PROVE  born'[i].at + Ttl <= born'[cur[t]].at
  <2>1. k = key[t] /\ Born(i, k) /\ born'[i].at = born[i].at
    BY <1>1, <1>2, <1>6
  <2> QED  BY <1>0, <1>b, <2>1 DEF WindowInv, Covered
<1>7. Apart'
  <2> SUFFICES ASSUME NEW i \in Jobs, NEW j \in Jobs, NEW k \in Keys, i # j,
                      Born(i, k)', Born(j, k)'
               PROVE  born'[i].at + Ttl <= born'[j].at \/ born'[j].at + Ttl <= born'[i].at
    BY DEF Apart
  <2>1. CASE i = cur[t] \/ j = cur[t]
    BY <1>0, <1>6, <2>1 DEF Born
  <2>2. CASE i # cur[t] /\ j # cur[t]
    BY <1>1, <2>2 DEF WindowInv, Apart
  <2> QED  BY <2>1, <2>2
<1> QED  BY <1>3, <1>5, <1>7 DEF WindowInv

\* Every step keeps the windows apart.
LEMMA WindowSteps ==
  ASSUME QueueTypeOK, QueueStep, WindowInv
  PROVE  WindowInv'
<1>1. ASSUME NEW t \in Threads, Lookup(t) \/ Store(t)  PROVE WindowInv'
  BY <1>1, LookupWindows, StoreWindows
<1>2. ASSUME NEW t \in Threads, NEW k \in Keys \cup {None}, Begin(t, k)  PROVE WindowInv'
  BY <1>2, KeepWindows DEF Begin, Enter, QueueTypeOK
<1>3. ASSUME NEW t \in Threads, Deduplicated(t) \/ Enqueue(t) \/ Raise(t)  PROVE WindowInv'
  BY <1>3, KeepWindows DEF Deduplicated, Enqueue, Raise, Return, Enter, manager, QueueTypeOK
<1>4. CASE StatusMoves \/ Tick \/ UNCHANGED submitVars
  BY <1>4, KeepWindows DEF StatusMoves, Tick, submitVars, manager, threadVars
<1>5. CASE Restart
  <2>1. \A i \in Jobs : \A k \in Keys : ~Born(i, k)'
    BY <1>5 DEF Restart, Born, Unborn
  <2>2. \A t \in Threads : pc'[t] # "set"
    BY <1>5 DEF Restart
  <2> QED  BY <2>1, <2>2 DEF WindowInv, Marked, Covered, Apart
<1> QED
  BY <1>1, <1>2, <1>3, <1>4, <1>5 DEF QueueStep, Submits

\* One job per key and window, for any interleaving of the manager's steps in
\* which no two lookups of the key overlapped.
THEOREM WindowsKept == FanSpec => []OneJobPerWindow
<1>1. FanInit => WindowInv
  BY DEF FanInit, SubmitInit, WindowInv, Marked, Covered, Apart, Born, Unborn
<1>2. AllTypeOK /\ WindowInv /\ [FanNext]_allVars => WindowInv'
  BY QueueSteps, WindowSteps DEF AllTypeOK
<1>3. AllTypeOK /\ WindowInv => OneJobPerWindow
  <2> SUFFICES ASSUME AllTypeOK, WindowInv, NEW i \in Jobs \ raced, NEW j \in Jobs \ raced,
                      i < j, born[i].key # None, born[i].key = born[j].key
               PROVE  born[i].at + Ttl <= born[j].at \/ born[j].at + Ttl <= born[i].at
    BY DEF OneJobPerWindow
  <2>1. born[i].key \in Keys
    BY EntryTypes DEF AllTypeOK
  <2>2. i # j
    BY SubmissionAssumption DEF Jobs, SubmissionAssumption
  <2> QED  BY <2>1, <2>2 DEF WindowInv, Apart, Born
<1> QED
  BY AllTypes, <1>1, <1>2, <1>3, PTL DEF FanSpec

-----------------------------------------------------------------------------
(* Fan-out: what a parent's success stands for.                            *)

\* A tag is given once, to an id that nothing names yet; a job that succeeded
\* has succeeded.
Settled == /\ ids' \in Nat /\ ids' >= ids
           /\ \A j \in Jobs : j <= ids => tag'[j] = tag[j]
           /\ done \subseteq done'

\* Every step respects that.
LEMMA FanSettles ==
  ASSUME AllTypeOK, [FanNext]_allVars
  PROVE  Settled
<1>t. ids \in Nat
  BY DEF AllTypeOK, QueueTypeOK
<1>1. ASSUME NEW t \in Threads, SubmitChild(t)  PROVE Settled
  <2>1. ids' = ids + 1 /\ tag' = [tag EXCEPT ![ids + 1] = gathered[t].parent] /\ done' = done
    BY <1>1 DEF SubmitChild, Begin
  <2>2. \A j \in Jobs : j <= ids => j # ids + 1
    BY <1>t DEF Jobs
  <2> QED  BY <1>t, <2>1, <2>2 DEF Settled, AllTypeOK, ListTypeOK
<1>2. ASSUME tag' = tag, done' = done, ids' = ids \/ ids' = ids + 1  PROVE Settled
  BY <1>2, <1>t DEF Settled
<1>3. ASSUME NEW t \in Threads, Submit(t) \/ ChildStored(t) \/ ChildRefused(t)  PROVE Settled
  BY <1>2, <1>3 DEF Submit, ChildStored, ChildRefused, Begin, Deduplicated, Lookup, Store, Enqueue,
                    Raise, manager, fanVars
<1>4. ASSUME NEW t \in Threads, CreateEnd(t) \/ \E p \in Jobs : CreateBegin(t, p)  PROVE Settled
  BY <1>2, <1>4 DEF CreateEnd, CreateBegin, submitVars, manager
<1>5. ASSUME NEW w \in Workers, WorkerMoves(w)  PROVE Settled
  <2>1. done \subseteq done' /\ tag' = tag /\ ids' = ids
    BY <1>5 DEF WorkerMoves, Claim, HandlerEnds, manager
  <2> QED  BY <1>t, <2>1 DEF Settled
<1>10. ASSUME NEW j \in Jobs, NEW s \in Moves, Rewritten(j, s)  PROVE Settled
  BY <1>2, <1>10 DEF Rewritten, manager
<1>6. ASSUME NEW j \in Jobs, CancelBegin(j) \/ \E th \in Thresholds : PollBegin(j, th)
      PROVE  Settled
  BY <1>2, <1>6 DEF CancelBegin, PollBegin, submitVars, manager
<1>7. CASE PollRead \/ PollEnd
  BY <1>2, <1>7 DEF PollRead, PollEnd, submitVars, manager
<1>8. CASE CancelNext \/ RestartAll
  BY <1>2, <1>8 DEF CancelNext, RestartAll, Restart, manager
<1>9. CASE (Tick /\ UNCHANGED fanVars) \/ UNCHANGED allVars
  BY <1>2, <1>9 DEF Tick, manager, allVars, fanVars, submitVars
<1> QED
  BY <1>1, <1>3, <1>4, <1>5, <1>6, <1>7, <1>8, <1>9, <1>10 DEF FanNext

\* A list of children before the step is one after it.
StillListOf(p, s) ==
  /\ \A i \in 1..Len(s) : tag'[s[i]] = p /\ s[i] <= ids'
  /\ \A i, k \in 1..Len(s) : i # k => s[i] # s[k]

\* Lists are of jobs whose tags are settled.
LEMMA ListsStay ==
  ASSUME AllTypeOK, Settled, NEW p, NEW s \in Seq(Jobs), ListOf(p, s)
  PROVE  StillListOf(p, s)
<1>1. ids \in Nat /\ ids' \in Nat /\ ids' >= ids
  BY DEF AllTypeOK, QueueTypeOK, Settled
<1>2. \A i \in 1..Len(s) : s[i] \in Jobs /\ s[i] \in Nat
  BY SubmissionAssumption DEF Jobs, SubmissionAssumption
<1>3. ASSUME NEW i \in 1..Len(s)  PROVE tag'[s[i]] = p /\ s[i] <= ids'
  BY <1>1, <1>2 DEF ListOf, Settled
<1> QED  BY <1>3 DEF ListOf, StillListOf

\* Ids not given out have no tag, and what is recorded as succeeded is.
LEMMA BasicSteps ==
  ASSUME AllTypeOK, Untagged, SuccessKept, [FanNext]_allVars
  PROVE  Untagged' /\ SuccessKept'
<1>t. ids \in Nat /\ tag \in [Jobs -> 0..MaxJobs] /\ status \in [Jobs -> Moves] /\ Jobs \subseteq Nat
  BY SubmissionAssumption DEF AllTypeOK, QueueTypeOK, ListTypeOK, Jobs, SubmissionAssumption
<1>u. ASSUME tag' = tag, ids' = ids \/ ids' = ids + 1  PROVE Untagged'
  BY <1>t, <1>u DEF Untagged
<1>s. ASSUME UNCHANGED <<status, done>>  PROVE SuccessKept'
  BY <1>s DEF SuccessKept
<1>q. ASSUME NEW t \in Threads, Enqueue(t), done' = done  PROVE SuccessKept'
  BY <1>t, <1>q DEF Enqueue, SuccessKept
<1>1. ASSUME NEW t \in Threads, SubmitChild(t)  PROVE Untagged' /\ SuccessKept'
  <2>1. ids' = ids + 1 /\ tag' = [tag EXCEPT ![ids + 1] = gathered[t].parent] /\ UNCHANGED <<status, done>>
    BY <1>1 DEF SubmitChild, Begin
  <2>2. \A j \in Jobs : j > ids' => j > ids /\ j # ids + 1
    BY <1>t, <2>1
  <2> QED  BY <1>t, <1>s, <2>1, <2>2 DEF Untagged
<1>2. ASSUME NEW t \in Threads, Submit(t) \/ ChildStored(t) \/ ChildRefused(t)  PROVE Untagged' /\ SuccessKept'
  <2>1. tag' = tag /\ done' = done /\ (ids' = ids \/ ids' = ids + 1)
    BY <1>2 DEF Submit, ChildStored, ChildRefused, Begin, Deduplicated, Lookup, Store, Enqueue,
                Raise, manager, fanVars
  <2>2. Enqueue(t) \/ status' = status
    BY <1>2 DEF Submit, ChildStored, ChildRefused, Begin, Deduplicated, Lookup, Store, Raise
  <2> QED  BY <1>u, <1>s, <1>q, <2>1, <2>2
<1>3. ASSUME NEW t \in Threads, CreateEnd(t) \/ \E p \in Jobs : CreateBegin(t, p)
      PROVE  Untagged' /\ SuccessKept'
  BY <1>3, <1>u, <1>s DEF CreateEnd, CreateBegin, submitVars, manager
<1>4. ASSUME NEW w \in Workers, WorkerMoves(w)  PROVE Untagged' /\ SuccessKept'
  <2>1. tag' = tag /\ ids' = ids
    BY <1>4 DEF WorkerMoves, manager
  <2>2. \/ status' = status /\ done \subseteq done'
        \/ \E j : \E s : Put(j, s) /\ done \subseteq done' /\ (s = "succeeded" => j \in done')
    <3>1. CASE HandlerEnds(w)
      BY <3>1 DEF HandlerEnds
    <3>2. ASSUME NEW j \in Jobs, Claim(w, j)  PROVE Put(j, "running") /\ done' = done
      BY <3>2 DEF Claim
    <3>3. "running" # "succeeded"
      OBVIOUS
    <3> QED  BY <1>4, <3>1, <3>2, <3>3 DEF WorkerMoves
  <2>3. SuccessKept'
    BY <1>t, <2>2 DEF SuccessKept, Put
  <2> QED  BY <1>u, <2>1, <2>3
<1>9. ASSUME NEW j \in Jobs, NEW s \in Moves, Rewritten(j, s)  PROVE Untagged' /\ SuccessKept'
  <2>1. SuccessKept'
    BY <1>t, <1>9 DEF Rewritten, Put, SuccessKept
  <2> QED  BY <1>9, <1>u, <2>1 DEF Rewritten, manager
<1>5. ASSUME NEW j \in Jobs, CancelBegin(j) \/ \E th \in Thresholds : PollBegin(j, th)
      PROVE  Untagged' /\ SuccessKept'
  BY <1>5, <1>u, <1>s DEF CancelBegin, PollBegin, submitVars, manager
<1>6. CASE PollRead \/ PollEnd
  BY <1>6, <1>u, <1>s DEF PollRead, PollEnd, submitVars, manager
<1>7. CASE CancelNext
  <2>1. SuccessKept'
    BY <1>t, <1>7 DEF CancelNext, Put, SuccessKept
  <2> QED  BY <1>7, <1>u, <2>1 DEF CancelNext, manager
<1>8. CASE RestartAll \/ (Tick /\ UNCHANGED fanVars) \/ UNCHANGED allVars
  BY <1>8, <1>u, <1>s DEF RestartAll, Restart, Tick, manager, allVars, fanVars, submitVars
<1> QED
  BY <1>1, <1>2, <1>3, <1>4, <1>5, <1>6, <1>7, <1>8, <1>9 DEF FanNext

\* The lists that create_fan_out records name each child once.
LEMMA ListSteps ==
  ASSUME AllTypeOK, Settled, Listed, \A t \in Threads : Gathering(t), [FanNext]_allVars
  PROVE  Listed'
<1>t. children \in [Jobs -> Seq(Jobs)] /\ gathered \in [Threads -> Gather]
  BY DEF AllTypeOK, ListTypeOK
<1>s. \A p \in Jobs : StillListOf(p, children[p])
  BY <1>t, ListsStay DEF Listed
<1>u. ASSUME children' = children  PROVE Listed'
  BY <1>s, <1>u DEF Listed, ListOf, StillListOf
<1>1. ASSUME NEW t \in Threads, CreateEnd(t)  PROVE Listed'
  <2> DEFINE g == gathered[t]
  <2>1. g \in Gather /\ g # NoFan /\ children' = [children EXCEPT ![g.parent] = g.ids]
    BY <1>1, <1>t DEF CreateEnd
  <2>2. g.parent # 0 /\ g.ids \in Seq(Jobs)
    BY <2>1 DEF AllTypeOK, ListTypeOK, Gather
  <2>3. StillListOf(g.parent, g.ids)
    BY <2>2, ListsStay DEF Gathering
  <2> HIDE DEF g
  <2>4. \A p \in Jobs : children'[p] = IF p = g.parent THEN g.ids ELSE children[p]
    BY <1>t, <2>1
  <2>5. \A p \in Jobs : StillListOf(p, children'[p])
    BY <1>s, <2>3, <2>4
  <2> QED  BY <2>5 DEF Listed, ListOf, StillListOf
<1>2. CASE RestartAll
  BY <1>2 DEF RestartAll, Listed, ListOf
<1>3. CASE \/ \E t \in Threads : \/ Submit(t) \/ SubmitChild(t) \/ ChildStored(t) \/ ChildRefused(t)
                                 \/ \E p \in Jobs : CreateBegin(t, p)
           \/ (\E w \in Workers : WorkerMoves(w)) \/ (\E j \in Jobs : \E s \in Moves : Rewritten(j, s))
           \/ \E j \in Jobs : CancelBegin(j) \/ \E th \in Thresholds : PollBegin(j, th)
           \/ PollRead \/ PollEnd \/ CancelNext \/ (Tick /\ UNCHANGED fanVars) \/ UNCHANGED allVars
  BY <1>3, <1>u DEF Submit, SubmitChild, ChildStored, ChildRefused, CreateBegin, WorkerMoves, Rewritten, CancelBegin,
                    PollBegin, PollRead, PollEnd, CancelNext, fanVars, allVars
<1> QED
  BY <1>1, <1>2, <1>3 DEF FanNext

\* A thread that a step leaves alone, or sends back from submit, gathers on.
LEMMA GatherStays ==
  ASSUME AllTypeOK, Settled, NEW u \in Threads, Gathering(u), gathered'[u] = gathered[u],
         (pc'[u] = pc[u] /\ cur'[u] = cur[u]) \/ pc'[u] = "idle"
  PROVE  Gathering(u)'
<1> DEFINE g == gathered[u]
<1>1. g \in Gather /\ g.ids \in Seq(Jobs) /\ g.parent \in 0..MaxJobs
  BY DEF AllTypeOK, ListTypeOK, Gather
<1> SUFFICES ASSUME g.parent # 0
             PROVE  /\ StillListOf(g.parent, g.ids)
                    /\ pc'[u] \in {"idle", "enqueue"}
                    /\ pc'[u] = "enqueue" => /\ tag'[cur'[u]] = g.parent
                                             /\ \A i \in 1..Len(g.ids) : g.ids[i] # cur'[u]
  BY DEF Gathering, ListOf, StillListOf
<1>2. /\ ListOf(g.parent, g.ids) /\ pc[u] \in {"idle", "enqueue"}
      /\ pc[u] = "enqueue" => tag[cur[u]] = g.parent /\ \A i \in 1..Len(g.ids) : g.ids[i] # cur[u]
  BY DEF Gathering
<1>3. StillListOf(g.parent, g.ids)
  BY <1>1, <1>2, ListsStay
<1>4. pc[u] = "enqueue" => tag'[cur[u]] = tag[cur[u]]
  <2>1. pc[u] = "enqueue" => cur[u] \in 1..ids /\ cur[u] \in Jobs /\ ids \in Nat
    BY ThreadTypes DEF AllTypeOK
  <2> QED  BY <2>1 DEF Settled
<1> HIDE DEF g
<1> QED  BY <1>2, <1>3, <1>4

\* create_fan_out gathers each child it submits, once.
LEMMA GatherSteps ==
  ASSUME AllTypeOK, Settled, \A t \in Threads : Gathering(t), [FanNext]_allVars, NEW u \in Threads
  PROVE  Gathering(u)'
<1>t. /\ gathered \in [Threads -> Gather] /\ ids \in Nat /\ tag \in [Jobs -> 0..MaxJobs]
      /\ pc \in [Threads -> {"idle", "get", "set", "enqueue"}] /\ cur \in [Threads -> 0..MaxJobs]
  BY DEF AllTypeOK, QueueTypeOK, ListTypeOK
<1>n. ASSUME gathered'[u].parent = 0  PROVE Gathering(u)'
  BY <1>n DEF Gathering
<1>o. ASSUME NEW t \in Threads, t # u, Submits(t)  PROVE pc'[u] = pc[u] /\ cur'[u] = cur[u]
  BY <1>o, <1>t DEF Submits, Begin, Deduplicated, Lookup, Store, Enqueue, Raise, Enter, Return
<1>1. ASSUME NEW t \in Threads, Submit(t)  PROVE Gathering(u)'
  <2>1. gathered' = gathered /\ Submits(t) /\ gathered[t] = NoFan
    BY <1>1 DEF Submit, fanVars, Submits
  <2>2. CASE t = u
    BY <1>n, <2>1, <2>2 DEF NoFan
  <2>3. CASE t # u
    BY <1>o, <2>1, <2>3, GatherStays
  <2> QED  BY <2>2, <2>3
<1>2. ASSUME NEW t \in Threads, SubmitChild(t)  PROVE Gathering(u)'
  <2>1. gathered' = gathered /\ Submits(t) /\ ids < MaxJobs
    BY <1>2 DEF SubmitChild, Submits, Begin
  <2>2. CASE t = u
    <3> DEFINE g == gathered[u]
    <3>1. g.ids \in Seq(Jobs) /\ ids + 1 \in Jobs
      BY <1>t, <2>1, SubmissionAssumption DEF Gather, Jobs, SubmissionAssumption
    <3>2. /\ pc'[u] = "enqueue" /\ cur'[u] = ids + 1
          /\ tag'[ids + 1] = g.parent
      BY <1>2, <1>t, <2>2, <3>1 DEF SubmitChild, Begin, Enter
    <3>3. g.parent # 0 => ListOf(g.parent, g.ids)
      BY DEF Gathering
    <3>4. g.parent # 0 => StillListOf(g.parent, g.ids)
      BY <3>1, <3>3, ListsStay
    <3>5. g.parent # 0 => \A i \in 1..Len(g.ids) : g.ids[i] # ids + 1
      <4> SUFFICES ASSUME g.parent # 0, NEW i \in 1..Len(g.ids)  PROVE g.ids[i] # ids + 1
        OBVIOUS
      <4>1. g.ids[i] \in Jobs /\ g.ids[i] <= ids
        BY <3>1, <3>3 DEF ListOf
      <4> HIDE DEF g
      <4> QED  BY <4>1, <1>t, SubmissionAssumption DEF Jobs, SubmissionAssumption
    <3>6. gathered'[u] = g
      BY <2>1
    <3> HIDE DEF g
    <3> QED  BY <3>2, <3>4, <3>5, <3>6 DEF Gathering, ListOf, StillListOf
  <2>3. CASE t # u
    BY <1>o, <2>1, <2>3, GatherStays
  <2> QED  BY <2>2, <2>3
<1>3. ASSUME NEW t \in Threads, ChildStored(t)  PROVE Gathering(u)'
  <2>1. /\ gathered' = [gathered EXCEPT ![t].ids = Append(@, cur[t])] /\ Submits(t)
        /\ pc[t] = "enqueue" /\ gathered[t] # NoFan /\ Enqueue(t)
    BY <1>3 DEF ChildStored, Submits, Enqueue
  <2>2. CASE t = u
    <3> DEFINE p == gathered[u].parent
               s == gathered[u].ids
               j == cur[u]
    <3>1. gathered[u] \in Gather /\ s \in Seq(Jobs) /\ j \in Jobs /\ j \in 1..ids /\ p # 0
      BY <1>t, <2>1, <2>2, ThreadTypes DEF Gather, AllTypeOK, ListTypeOK
    <3>2. gathered'[u].parent = p /\ gathered'[u].ids = Append(s, j)
      BY <1>t, <2>1, <2>2 DEF Gather
    <3>3. ListOf(p, s) /\ tag[j] = p /\ \A i \in 1..Len(s) : s[i] # j
      BY <2>1, <2>2, <3>1 DEF Gathering
    <3>4. pc'[u] = "idle"
      BY <1>t, <2>1, <2>2 DEF Enqueue, Return, Enter
    <3> HIDE DEF p, s, j
    <3>5. tag'[j] = p /\ j <= ids'
      <4>1. j <= ids /\ j \in Nat
        BY <1>t, <3>1
      <4> QED  BY <1>t, <3>1, <3>3, <4>1 DEF Settled
    <3>6. StillListOf(p, s)
      BY <3>1, <3>3, ListsStay
    <3>7. StillListOf(p, Append(s, j))
      <4>1. /\ Len(Append(s, j)) = Len(s) + 1 /\ Len(s) \in Nat
            /\ \A i \in 1..Len(s) : Append(s, j)[i] = s[i]
            /\ Append(s, j)[Len(s) + 1] = j
        BY <3>1
      <4>2. \A i \in 1..(Len(s) + 1) : i \in 1..Len(s) \/ i = Len(s) + 1
        BY <4>1
      <4> QED  BY <3>3, <3>5, <3>6, <4>1, <4>2 DEF StillListOf
    <3> QED  BY <3>2, <3>4, <3>7 DEF Gathering, ListOf, StillListOf
  <2>3. CASE t # u
    <3>1. gathered'[u] = gathered[u]
      BY <1>t, <2>1, <2>3
    <3> QED  BY <1>o, <2>1, <2>3, <3>1, GatherStays
  <2> QED  BY <2>2, <2>3
<1>4. ASSUME NEW t \in Threads, ChildRefused(t) \/ CreateEnd(t)  PROVE Gathering(u)'
  <2>1. gathered' = [gathered EXCEPT ![t] = NoFan]
    BY <1>4 DEF ChildRefused, CreateEnd
  <2>2. CASE t = u
    BY <1>n, <1>t, <2>1, <2>2 DEF NoFan
  <2>3. CASE t # u
    <3>1. gathered'[u] = gathered[u]
      BY <1>t, <2>1, <2>3
    <3>2. pc'[u] = pc[u] /\ cur'[u] = cur[u]
      BY <1>4, <1>o, <2>3 DEF ChildRefused, CreateEnd, Submits, submitVars, threadVars
    <3> QED  BY <3>1, <3>2, GatherStays
  <2> QED  BY <2>2, <2>3
<1>5. ASSUME NEW t \in Threads, NEW p \in Jobs, CreateBegin(t, p)  PROVE Gathering(u)'
  <2>1. /\ gathered' = [gathered EXCEPT ![t].parent = p] /\ pc[t] = "idle" /\ gathered[t] = NoFan
        /\ UNCHANGED <<pc, cur>>
    BY <1>5 DEF CreateBegin, submitVars, threadVars
  <2>2. CASE t = u
    <3>1. gathered'[u].ids = <<>> /\ pc'[u] = "idle"
      BY <1>t, <2>1, <2>2 DEF NoFan
    <3> QED  BY <3>1 DEF Gathering, ListOf
  <2>3. CASE t # u
    <3>1. gathered'[u] = gathered[u]
      BY <1>t, <2>1, <2>3
    <3> QED  BY <2>1, <3>1, GatherStays
  <2> QED  BY <2>2, <2>3
<1>6. CASE RestartAll
  BY <1>6, <1>n DEF RestartAll, NoFan
<1>7. ASSUME UNCHANGED <<gathered, pc, cur>>  PROVE Gathering(u)'
  BY <1>7, GatherStays
<1>8. CASE \/ (\E w \in Workers : WorkerMoves(w)) \/ (\E j \in Jobs : \E s \in Moves : Rewritten(j, s))
           \/ \E j \in Jobs : CancelBegin(j) \/ \E th \in Thresholds : PollBegin(j, th)
           \/ PollRead \/ PollEnd \/ CancelNext \/ (Tick /\ UNCHANGED fanVars) \/ UNCHANGED allVars
  BY <1>7, <1>8 DEF WorkerMoves, Rewritten, CancelBegin, PollBegin, PollRead, PollEnd, CancelNext, Tick, fanVars,
                    allVars, submitVars, threadVars
<1> QED
  BY <1>1, <1>2, <1>3, <1>4, <1>5, <1>6, <1>8 DEF FanNext

\* A poll reads the list it began with, and what it saw succeed has.
LEMMA PollSteps ==
  ASSUME AllTypeOK, Settled, SuccessKept, Listed, Polled, [FanNext]_allVars
  PROVE  Polled'
<1>t. /\ poll \in Poll /\ children \in [Jobs -> Seq(Jobs)] /\ \A p \in Jobs : Len(children[p]) \in {0, Fan}
      /\ done \subseteq done' /\ 0 \notin Jobs
  BY DEF AllTypeOK, ListTypeOK, Settled, Jobs
<1>n. ASSUME poll' = NoPoll  PROVE Polled'
  BY <1>n DEF Polled, NoPoll
<1>u. ASSUME poll' = poll  PROVE Polled'
  <2> SUFFICES ASSUME poll.parent # 0  PROVE Polled'
    BY <1>u DEF Polled
  <2>1. PICK s \in Seq(Jobs) :
          /\ ListOf(poll.parent, s) /\ Len(s) \in {0, Fan}
          /\ Len(s) = Len(poll.seen) + Len(poll.left)
          /\ \A i \in 1..Len(poll.left) : poll.left[i] = s[Len(poll.seen) + i]
          /\ \A i \in 1..Len(poll.seen) : poll.seen[i] = "succeeded" => s[i] \in done
    BY DEF Polled
  <2>2. StillListOf(poll.parent, s)
    BY <2>1, ListsStay
  <2> QED  BY <1>t, <1>u, <2>1, <2>2 DEF Polled, ListOf, StillListOf
<1>1. ASSUME NEW p \in Jobs, NEW th \in Thresholds, PollBegin(p, th)  PROVE Polled'
  <2>1. poll' = [parent |-> p, th |-> th, left |-> children[p], seen |-> <<>>]
    BY <1>1 DEF PollBegin
  <2>2. StillListOf(p, children[p]) /\ children[p] \in Seq(Jobs) /\ Len(children[p]) \in {0, Fan}
    BY <1>t, ListsStay DEF Listed
  <2>3. /\ poll'.parent = p /\ poll'.left = children[p] /\ poll'.seen = <<>> /\ Len(poll'.seen) = 0
    BY <2>1
  <2>4. /\ Len(children[p]) = Len(poll'.seen) + Len(poll'.left)
        /\ \A i \in 1..Len(poll'.left) : poll'.left[i] = children[p][Len(poll'.seen) + i]
        /\ \A i \in 1..Len(poll'.seen) : poll'.seen[i] = "succeeded" => children[p][i] \in done'
    BY <2>2, <2>3
  <2> DEFINE s == children[p]
  <2>5. s \in Seq(Jobs) /\ StillListOf(poll'.parent, s) /\ Len(s) \in {0, Fan}
    BY <2>2, <2>3
  <2>6. /\ Len(s) = Len(poll'.seen) + Len(poll'.left)
        /\ \A i \in 1..Len(poll'.left) : poll'.left[i] = s[Len(poll'.seen) + i]
        /\ \A i \in 1..Len(poll'.seen) : poll'.seen[i] = "succeeded" => s[i] \in done'
    BY <2>4
  <2> HIDE DEF s
  <2> QED  BY <2>5, <2>6 DEF Polled, ListOf, StillListOf
<1>2. CASE PollRead
  <2> DEFINE x == IF status[Head(poll.left)] = "absent" THEN "failed" ELSE status[Head(poll.left)]
             n == Len(poll.seen)
  <2>1. /\ poll.parent # 0 /\ poll.left # <<>>
        /\ poll' = [poll EXCEPT !.left = Tail(@), !.seen = Append(@, x)]
    BY <1>2 DEF PollRead
  <2>2. PICK s \in Seq(Jobs) :
          /\ ListOf(poll.parent, s) /\ Len(s) \in {0, Fan}
          /\ Len(s) = n + Len(poll.left)
          /\ \A i \in 1..Len(poll.left) : poll.left[i] = s[n + i]
          /\ \A i \in 1..n : poll.seen[i] = "succeeded" => s[i] \in done
    BY <2>1 DEF Polled
  <2>3. StillListOf(poll.parent, s)
    BY <2>2, ListsStay
  <2>4. poll.left \in Seq(Jobs) /\ poll.seen \in Seq(Moves)
    BY <1>t DEF Poll
  <2>5. /\ Head(poll.left) \in Jobs /\ Head(poll.left) = poll.left[1]
        /\ Len(poll.left) \in Nat \ {0} /\ Len(Tail(poll.left)) = Len(poll.left) - 1
        /\ \A i \in 1..(Len(poll.left) - 1) : Tail(poll.left)[i] = poll.left[i + 1]
    BY <2>1, <2>4, HeadTail
  <2>6. x = "succeeded" => s[n + 1] \in done
    <3>1. 1 \in 1..Len(poll.left)
      BY <2>5
    <3>2. Head(poll.left) = s[n + 1]
      BY <2>2, <2>5, <3>1
    <3>3. x = "succeeded" => status[Head(poll.left)] = "succeeded"
      OBVIOUS
    <3> QED  BY <2>5, <3>2, <3>3 DEF SuccessKept
  <2> HIDE DEF x
  <2>7. poll'.parent = poll.parent /\ poll'.left = Tail(poll.left) /\ poll'.seen = Append(poll.seen, x)
    BY <1>t, <2>1 DEF Poll
  <2>8. /\ n \in Nat /\ Len(poll'.seen) = n + 1
        /\ \A i \in 1..n : poll'.seen[i] = poll.seen[i]
        /\ poll'.seen[n + 1] = x
    <3>1. /\ Len(Append(poll.seen, x)) = Len(poll.seen) + 1 /\ Len(poll.seen) \in Nat
          /\ \A i \in 1..Len(poll.seen) : Append(poll.seen, x)[i] = poll.seen[i]
          /\ Append(poll.seen, x)[Len(poll.seen) + 1] = x
      BY <2>4
    <3> QED  BY <2>7, <3>1
  <2> HIDE DEF n
  <2>9. \A i \in 1..(n + 1) : i \in 1..n \/ i = n + 1
    BY <2>8
  <2>10. \A i \in 1..Len(poll'.seen) : poll'.seen[i] = "succeeded" => s[i] \in done'
    BY <1>t, <2>2, <2>6, <2>8, <2>9
  <2>11. Len(s) = Len(poll'.seen) + Len(poll'.left)
    <3> DEFINE m == Len(poll.left)
    <3>1. m \in Nat \ {0} /\ Len(poll'.left) = m - 1 /\ Len(s) = n + m /\ Len(poll'.seen) = n + 1 /\ n \in Nat
      BY <2>2, <2>5, <2>7, <2>8
    <3> HIDE DEF m
    <3> QED  BY <3>1
  <2>12. \A i \in 1..Len(poll'.left) : poll'.left[i] = s[Len(poll'.seen) + i]
    <3> SUFFICES ASSUME NEW i \in 1..(Len(poll.left) - 1)  PROVE poll'.left[i] = s[n + 1 + i]
      BY <2>5, <2>7, <2>8
    <3> DEFINE m == Len(poll.left)
    <3>0. m \in Nat \ {0} /\ n \in Nat /\ i \in 1..(m - 1)
      BY <2>5, <2>8
    <3> HIDE DEF m
    <3>2. i + 1 \in 1..m /\ n + (i + 1) = n + 1 + i
      BY <3>0
    <3>1. i + 1 \in 1..Len(poll.left) /\ n + (i + 1) = n + 1 + i
      BY <3>2 DEF m
    <3> QED  BY <2>2, <2>5, <2>7, <3>1
  <2> QED  BY <2>2, <2>3, <2>7, <2>10, <2>11, <2>12 DEF Polled, ListOf, StillListOf
<1>3. CASE PollEnd \/ RestartAll
  BY <1>3, <1>n DEF PollEnd, RestartAll
<1>4. CASE \/ \E t \in Threads : \/ Submit(t) \/ SubmitChild(t) \/ ChildStored(t) \/ ChildRefused(t)
                                 \/ CreateEnd(t) \/ \E p \in Jobs : CreateBegin(t, p)
           \/ (\E w \in Workers : WorkerMoves(w)) \/ (\E j \in Jobs : \E s \in Moves : Rewritten(j, s))
           \/ \E j \in Jobs : CancelBegin(j)
           \/ CancelNext \/ (Tick /\ UNCHANGED fanVars) \/ UNCHANGED allVars
  BY <1>4, <1>u DEF Submit, SubmitChild, ChildStored, ChildRefused, CreateEnd, CreateBegin, WorkerMoves,
                    Rewritten, CancelBegin, CancelNext, fanVars, allVars
<1> QED
  BY <1>1, <1>2, <1>3, <1>4 DEF FanNext

\* FanInv is inductive.
LEMMA FanSteps ==
  ASSUME AllTypeOK, FanInv, [FanNext]_allVars
  PROVE  FanInv'
<1>1. Settled
  BY FanSettles
<1>2. Untagged' /\ SuccessKept'
  BY BasicSteps DEF FanInv
<1>3. Listed'
  BY <1>1, ListSteps DEF FanInv
<1>4. \A t \in Threads : Gathering(t)'
  BY <1>1, GatherSteps DEF FanInv
<1>5. Polled'
  BY <1>1, PollSteps DEF FanInv
<1> QED  BY <1>2, <1>3, <1>4, <1>5 DEF FanInv

\* The children of a parent that have succeeded.
Good(p) == Cardinality(Children(p) \cap done)

\* They are counted by a number, which no step lowers.
LEMMA GoodGrows ==
  ASSUME AllTypeOK, Untagged, Settled, NEW p \in Jobs
  PROVE  Good(p) \in Nat /\ Good(p)' \in Nat /\ Good(p) <= Good(p)'
<1>1. IsFiniteSet(Jobs)
  BY FS_Interval, SubmissionAssumption DEF Jobs, SubmissionAssumption
<1> DEFINE S == Children(p) \cap done
           T == {j \in Jobs : tag'[j] = p} \cap done'
<1>2. S \subseteq T
  <2> SUFFICES ASSUME NEW j \in Jobs, tag[j] = p, j \in done  PROVE tag'[j] = p /\ j \in done'
    BY DEF Children
  <2>1. ids \in Nat /\ j \in Nat /\ p # 0
    BY SubmissionAssumption DEF AllTypeOK, QueueTypeOK, Jobs, SubmissionAssumption
  <2>2. ~(j > ids)
    BY <2>1 DEF Untagged
  <2> QED  BY <2>1, <2>2 DEF Settled
<1>3. T \subseteq Jobs /\ S \subseteq Jobs
  BY DEF Children
<1>4. Good(p) = Cardinality(S) /\ Good(p)' = Cardinality(T)
  BY DEF Good, Children
<1> HIDE DEF S, T
<1>5. IsFiniteSet(T) /\ IsFiniteSet(S)
  BY <1>1, <1>3, FS_Subset
<1>6. Cardinality(S) <= Cardinality(T)
  BY <1>2, <1>5, FS_Subset
<1>7. Cardinality(S) \in Nat /\ Cardinality(T) \in Nat
  BY <1>5, FS_CardinalityType
<1> QED  BY <1>4, <1>6, <1>7

\* What a parent's success demands of that number.
Enough(good, th) ==
  IF th = None THEN good >= Fan ELSE good * Clamp(th)[2] >= Clamp(th)[1] * Fan

\* More is enough as well.
LEMMA MoreIsEnough ==
  ASSUME NEW a \in Nat, NEW b \in Nat, a <= b, NEW th \in Thresholds \cup {None}, Enough(a, th)
  PROVE  Enough(b, th)
<1>1. CASE th = None
  BY <1>1, FanAssumption DEF Enough, FanAssumption
<1>2. CASE th # None
  <2>1. Clamp(th)[1] \in Nat /\ Clamp(th)[2] \in Nat /\ Fan \in Nat
    <3>1. th[1] \in Int /\ th[2] \in Nat /\ Fan \in Nat
      BY <1>2, FanAssumption DEF FanAssumption
    <3> QED  BY <3>1 DEF Clamp
  <2>2. ASSUME NEW m \in Nat, NEW n \in Nat, a * m >= n * Fan  PROVE b * m >= n * Fan
    <3>1. PICK d \in Nat : b = a + d
      <4>1. b - a \in Nat /\ b = a + (b - a)
        OBVIOUS
      <4> QED  BY <4>1
    <3>2. b * m = a * m + d * m /\ d * m \in Nat /\ a * m \in Nat /\ n * Fan \in Nat
      BY <2>1, <3>1
    <3> QED  BY <2>2, <3>2
  <2> QED  BY <1>2, <2>1, <2>2 DEF Enough
<1> QED  BY <1>1, <1>2

\* A poll that saw n children succeed saw n different ones.
LEMMA SeenIsGood ==
  ASSUME AllTypeOK, NEW p \in Jobs, NEW s \in Seq(Jobs), NEW seen \in Seq(Moves), ListOf(p, s),
         Len(seen) <= Len(s),
         \A i \in 1..Len(seen) : seen[i] = "succeeded" => s[i] \in done
  PROVE  Count(seen, {"succeeded"}) \in Nat /\ Count(seen, {"succeeded"}) <= Good(p)
<1> DEFINE S == {i \in DOMAIN seen : seen[i] \in {"succeeded"}}
           T == Children(p) \cap done
           f == [i \in S |-> s[i]]
<1>0. DOMAIN seen = 1..Len(seen) /\ Len(seen) \in Nat /\ Len(s) \in Nat
  OBVIOUS
<1>1. \A i \in S : i \in 1..Len(seen) /\ i \in 1..Len(s) /\ s[i] \in Jobs
  BY <1>0
<1>2. f \in [S -> T]
  BY <1>0, <1>1 DEF ListOf, Children
<1>3. IsInjective(f)
  BY <1>1 DEF IsInjective, ListOf
<1>4. f \in Injection(S, T)
  BY <1>2, <1>3 DEF Injection
<1>5. IsFiniteSet(T)
  <2>1. IsFiniteSet(Jobs)
    BY FS_Interval, SubmissionAssumption DEF Jobs, SubmissionAssumption
  <2>2. T \subseteq Jobs
    BY DEF Children
  <2> HIDE DEF T
  <2> QED  BY <2>1, <2>2, FS_Subset
<1> HIDE DEF f
<1>6. IsFiniteSet(S) /\ Cardinality(S) <= Cardinality(T)
  <2> HIDE DEF S, T
  <2> QED  BY <1>4, <1>5, FS_Injection
<1>7. Cardinality(S) \in Nat
  <2> HIDE DEF S
  <2> QED  BY <1>6, FS_CardinalityType
<1> QED  BY <1>6, <1>7 DEF Count, Good

\* What the aggregate takes for success is one.
LEMMA AggregateSucceeds ==
  ASSUME NEW seen \in Seq(Moves), NEW th \in Thresholds \cup {None}, Len(seen) \in {0, Fan},
         Aggregate(seen, th) = "succeeded"
  PROVE  Enough(Count(seen, {"succeeded"}), th) /\ (th = None => Count(seen, {"succeeded"}) = Fan)
<1>1. seen # <<>>
  BY DEF Aggregate
<1>2. Len(seen) = Fan
  <2>1. Len(seen) # 0
    BY <1>1
  <2> QED  BY <2>1
<1>3. CASE th = None
  <2>1. Count(seen, {"succeeded"}) = Len(seen)
    BY <1>1, <1>3 DEF Aggregate
  <2> QED  BY <1>2, <1>3, <2>1, FanAssumption DEF Enough, FanAssumption
<1>4. CASE th # None
  <2>1. Count(seen, {"succeeded"}) * Clamp(th)[2] >= Clamp(th)[1] * Len(seen)
    BY <1>1, <1>4 DEF Aggregate
  <2> QED  BY <1>2, <1>4, <2>1 DEF Enough
<1> QED  BY <1>3, <1>4

\* A verdict of success stays true, and is true when it is given.
LEMMA VerdictSteps ==
  ASSUME AllTypeOK, FanInv, VerdictInv, [FanNext]_allVars
  PROVE  VerdictInv'
<1>s. Settled
  BY FanSettles
<1>1. CASE PollEnd
  <2>1. /\ poll \in Poll /\ poll.parent # 0 /\ poll.left = <<>>
        /\ verdict' = [parent |-> poll.parent, th |-> poll.th, is |-> Aggregate(poll.seen, poll.th)]
    BY <1>1 DEF PollEnd, AllTypeOK, ListTypeOK
  <2>2. /\ poll.parent \in Jobs /\ poll.th \in Thresholds \cup {None} /\ poll.seen \in Seq(Moves)
        /\ poll.left \in Seq(Jobs) /\ Len(poll.left) = 0
    BY <2>1 DEF Poll, Jobs
  <2>3. verdict'.parent = poll.parent /\ verdict'.th = poll.th /\ verdict'.is = Aggregate(poll.seen, poll.th)
    BY <2>1
  <2>4. ASSUME verdict'.is = "succeeded"  PROVE Enough(Good(poll.parent), poll.th)
    <3>1. PICK s \in Seq(Jobs) :
            /\ ListOf(poll.parent, s) /\ Len(s) \in {0, Fan}
            /\ Len(s) = Len(poll.seen) + Len(poll.left)
            /\ \A i \in 1..Len(poll.seen) : poll.seen[i] = "succeeded" => s[i] \in done
      BY <2>1 DEF FanInv, Polled
    <3>2. Len(poll.seen) \in {0, Fan} /\ Len(poll.seen) <= Len(s)
      <4>1. Len(poll.seen) \in Nat /\ Len(s) \in Nat
        BY <2>2
      <4> QED  BY <2>2, <3>1, <4>1
    <3>3. Enough(Count(poll.seen, {"succeeded"}), poll.th)
      BY <2>2, <2>3, <2>4, <3>2, AggregateSucceeds
    <3>4. Count(poll.seen, {"succeeded"}) \in Nat /\ Count(poll.seen, {"succeeded"}) <= Good(poll.parent)
      BY <2>2, <3>1, <3>2, SeenIsGood
    <3>5. Good(poll.parent) \in Nat
      BY <1>s, <2>2, GoodGrows DEF FanInv
    <3> QED  BY <2>2, <3>3, <3>4, <3>5, MoreIsEnough
  <2>5. UNCHANGED <<tag, done>>
    BY <1>1 DEF PollEnd
  <2>6. verdict'.is = "succeeded" =>
          Enough(Cardinality({j \in Jobs : tag'[j] = verdict'.parent} \cap done'), verdict'.th)
    BY <2>3, <2>4, <2>5 DEF Good, Children
  <2> QED  BY <2>2, <2>3, <2>6 DEF VerdictInv, SucceededMeansAll, Enough, Children
<1>2. ASSUME verdict' = verdict  PROVE VerdictInv'
  <2>1. ASSUME verdict.is = "succeeded"
        PROVE  Enough(Cardinality({j \in Jobs : tag'[j] = verdict.parent} \cap done'), verdict.th)
    <3> DEFINE p == verdict.parent
    <3>1. p \in Jobs /\ verdict.th \in Thresholds \cup {None} /\ Enough(Good(p), verdict.th)
      BY <2>1 DEF VerdictInv, SucceededMeansAll, Enough, Good
    <3>2. \A q \in Jobs : /\ Good(q) \in Nat /\ Cardinality({j \in Jobs : tag'[j] = q} \cap done') \in Nat
                          /\ Good(q) <= Cardinality({j \in Jobs : tag'[j] = q} \cap done')
      <4> SUFFICES ASSUME NEW q \in Jobs
                   PROVE  /\ Good(q) \in Nat /\ Cardinality({j \in Jobs : tag'[j] = q} \cap done') \in Nat
                          /\ Good(q) <= Cardinality({j \in Jobs : tag'[j] = q} \cap done')
        OBVIOUS
      <4>1. Good(q) \in Nat /\ Good(q)' \in Nat /\ Good(q) <= Good(q)'
        BY <1>s, GoodGrows DEF FanInv
      <4> QED  BY <4>1 DEF Good, Children
    <3> HIDE DEF p
    <3>3. Enough(Cardinality({j \in Jobs : tag'[j] = p} \cap done'), verdict.th)
      BY <3>1, <3>2, MoreIsEnough
    <3> QED  BY <3>3 DEF p
  <2> QED  BY <1>2, <2>1 DEF VerdictInv, SucceededMeansAll, Enough, Children
<1>3. CASE \/ \E t \in Threads : \/ Submit(t) \/ SubmitChild(t) \/ ChildStored(t) \/ ChildRefused(t)
                                 \/ CreateEnd(t) \/ \E p \in Jobs : CreateBegin(t, p)
           \/ (\E w \in Workers : WorkerMoves(w)) \/ (\E j \in Jobs : \E s \in Moves : Rewritten(j, s))
           \/ \E j \in Jobs : CancelBegin(j) \/ \E th \in Thresholds : PollBegin(j, th)
           \/ PollRead \/ CancelNext \/ RestartAll \/ (Tick /\ UNCHANGED fanVars) \/ UNCHANGED allVars
  BY <1>2, <1>3 DEF Submit, SubmitChild, ChildStored, ChildRefused, CreateEnd, CreateBegin, WorkerMoves,
                    Rewritten, CancelBegin, PollBegin, PollRead, CancelNext, RestartAll, fanVars, allVars
<1> QED
  BY <1>1, <1>2, <1>3 DEF FanNext

\* A parent is reported succeeded only when enough different children of its
\* have succeeded, although aggregate_parent_status reads them one by one
\* while they run, are created, cancelled or forgotten.
THEOREM SuccessMeansAll == FanSpec => []SucceededMeansAll
<1>1. FanInit => FanInv /\ VerdictInv
  <2> SUFFICES ASSUME FanInit  PROVE FanInv /\ VerdictInv
    OBVIOUS
  <2>1. Untagged /\ SuccessKept /\ Polled
    BY DEF FanInit, SubmitInit, Untagged, SuccessKept, Polled, NoPoll
  <2>2. Listed
    BY DEF FanInit, Listed, ListOf
  <2>3. \A t \in Threads : Gathering(t)
    BY DEF FanInit, Gathering, NoFan
  <2>4. verdict.is # "succeeded" /\ verdict.th = None
    <3>1. verdict.is = None /\ verdict.th = None
      BY DEF FanInit, NoVerdict
    <3> QED  BY <3>1, NoneAssumption DEF NoneAssumption, Moves
  <2> QED  BY <2>1, <2>2, <2>3, <2>4 DEF FanInv, VerdictInv, SucceededMeansAll
<1>2. AllTypeOK /\ FanInv /\ VerdictInv /\ [FanNext]_allVars => (FanInv /\ VerdictInv)'
  BY FanSteps, VerdictSteps
<1>3. VerdictInv => SucceededMeansAll
  BY DEF VerdictInv
<1> QED
  BY AllTypes, <1>1, <1>2, <1>3, PTL DEF FanSpec

-----------------------------------------------------------------------------
(* Fan-out: a final verdict stays.                                         *)

\* What any step makes of the status of a job: a stored job stays stored, only
\* submit stores one, and a child whose parent is undisturbed after the step
\* keeps a final status.
StatusDoes(j) ==
  /\ status[j] # "absent" => status'[j] # "absent"
  /\ status[j] = "absent" /\ status'[j] # "absent" =>
       j <= ids /\ \E t \in Threads : Enqueue(t) /\ cur[t] = j
  /\ status[j] \in Final /\ Spared(j) /\ tag[j] \notin disturbed' => status'[j] = status[j]

\* The steps that touch no status.
LEMMA StatusQuiet ==
  ASSUME [FanNext]_allVars
  PROVE  \/ UNCHANGED <<status, work>>
         \/ \E t \in Threads : Enqueue(t) /\ work' = work
         \/ \E w \in Workers : WorkerMoves(w)
         \/ \E j \in Jobs : \E s \in Moves : Rewritten(j, s)
         \/ CancelNext
<1>1. ASSUME NEW t \in Threads, Submit(t)
      PROVE  UNCHANGED <<status, work>> \/ (Enqueue(t) /\ work' = work)
  BY <1>1 DEF Submit, fanVars, Begin, Deduplicated, Lookup, Store, Raise
<1>2. ASSUME NEW t \in Threads, SubmitChild(t) \/ ChildStored(t) \/ ChildRefused(t)
      PROVE  UNCHANGED <<status, work>> \/ (Enqueue(t) /\ work' = work)
  BY <1>2 DEF SubmitChild, ChildStored, ChildRefused, Begin, Raise
<1>3. ASSUME NEW t \in Threads, CreateEnd(t) \/ \E p \in Jobs : CreateBegin(t, p)
      PROVE  UNCHANGED <<status, work>>
  BY <1>3 DEF CreateEnd, CreateBegin, submitVars
<1>4. ASSUME NEW j \in Jobs, CancelBegin(j) \/ \E th \in Thresholds : PollBegin(j, th)
      PROVE  UNCHANGED <<status, work>>
  BY <1>4 DEF CancelBegin, PollBegin, submitVars
<1>5. CASE PollRead \/ PollEnd
  BY <1>5 DEF PollRead, PollEnd, submitVars
<1>6. CASE RestartAll \/ (Tick /\ UNCHANGED fanVars) \/ UNCHANGED allVars
  BY <1>6 DEF RestartAll, Restart, Tick, allVars, fanVars, submitVars
<1> QED
  BY <1>1, <1>2, <1>3, <1>4, <1>5, <1>6 DEF FanNext

\* Every step does so.
LEMMA StatusSteps ==
  ASSUME AllTypeOK, StoreInv, Untagged, [FanNext]_allVars, NEW j \in Jobs
  PROVE  StatusDoes(j)
<1>t. status \in [Jobs -> Moves] /\ cancelling \in Seq(Jobs) /\ ListTypeOK
  BY DEF AllTypeOK, QueueTypeOK, ListTypeOK
<1>s. ASSUME status'[j] = status[j]  PROVE StatusDoes(j)
  BY <1>s DEF StatusDoes
<1>1. CASE UNCHANGED <<status, work>>
  BY <1>1, <1>s
<1>2. ASSUME NEW t \in Threads, Enqueue(t), work' = work  PROVE StatusDoes(j)
  <2>1. cur[t] \in Jobs /\ cur[t] \in 1..ids /\ ids \in Nat
    BY <1>2, ThreadTypes DEF Enqueue, AllTypeOK
  <2>2. status[cur[t]] = "absent"
    BY <1>2 DEF Enqueue, StoreInv, Pending
  <2>3. status'[j] = IF j = cur[t] THEN "queued" ELSE status[j]
    BY <1>2, <1>t, <2>1 DEF Enqueue
  <2>4. j = cur[t] => j <= ids
    BY <2>1
  <2> QED  BY <1>2, <2>2, <2>3, <2>4 DEF StatusDoes, Final
<1>3. ASSUME NEW w \in Workers, WorkerMoves(w)  PROVE StatusDoes(j)
  <2>1. CASE HandlerEnds(w)
    <3> DEFINE k == work[w].job
    <3>1. k # 0 /\ k \in Jobs /\ ~Free(k)
      BY <1>3, <1>t, <2>1, WorkerWrites DEF HandlerEnds, Free
    <3>2. status[k] # "absent" /\ (Spared(k) => status[k] \notin Final)
      BY <3>1 DEF StoreInv, Hands, InHand, Final
    <3>3. status' = status \/ \E s \in Moves \ {"absent"} : Put(k, s)
      BY <2>1 DEF HandlerEnds, Moves
    <3> HIDE DEF k
    <3>4. CASE j # k
      BY <1>s, <1>t, <3>1, <3>3, <3>4 DEF Put
    <3>5. CASE j = k
      BY <1>t, <3>1, <3>2, <3>3, <3>5 DEF Put, StatusDoes
    <3> QED  BY <3>4, <3>5
  <2>2. ASSUME NEW k \in Jobs, Claim(w, k)  PROVE StatusDoes(j)
    <3>1. status'[j] = (IF j = k THEN "running" ELSE status[j]) /\ status[k] = "queued"
      BY <1>t, <2>2 DEF Claim, Put
    <3> QED  BY <3>1 DEF StatusDoes, Final
  <2> QED  BY <1>3, <2>1, <2>2 DEF WorkerMoves
<1>5. ASSUME NEW k \in Jobs, NEW s \in Moves, Rewritten(k, s)  PROVE StatusDoes(j)
  <2>1. /\ status'[j] = (IF j = k THEN s ELSE status[j]) /\ status[k] # "absent" /\ s # "absent"
        /\ status[k] \notin Active => tag[k] \in disturbed'
    BY <1>t, <1>5 DEF Rewritten, Put
  <2>2. \A x \in Final : x \notin Active
    BY DEF Final, Active
  <2> QED  BY <2>1, <2>2 DEF StatusDoes
<1>4. CASE CancelNext
  <2> DEFINE k == Head(cancelling)
  <2>1. k \in Jobs /\ 1 \in 1..Len(cancelling) /\ k = cancelling[1]
    BY <1>4, <1>t, HeadTail DEF CancelNext
  <2>2. status[k] # "absent" /\ ~Spared(k)
    BY <2>1 DEF StoreInv, Lists, Stored, Marks
  <2>3. status'[j] = IF j = k THEN "cancelled" ELSE status[j]
    BY <1>4, <1>t, <2>1 DEF CancelNext, Put
  <2> HIDE DEF k
  <2> QED  BY <2>2, <2>3 DEF StatusDoes
<1> QED  BY <1>1, <1>2, <1>3, <1>4, <1>5, StatusQuiet

\* Nobody forgets that a parent was disturbed, and the tag of a stored job
\* stays: what is not spared will not be.
LEMMA DisturbedGrows == ASSUME [FanNext]_allVars  PROVE disturbed \subseteq disturbed'
<1>1. ASSUME NEW t \in Threads,
             \/ Submit(t) \/ SubmitChild(t) \/ ChildStored(t) \/ ChildRefused(t) \/ CreateEnd(t)
             \/ \E p \in Jobs : CreateBegin(t, p)
      PROVE  disturbed \subseteq disturbed'
  BY <1>1 DEF Submit, SubmitChild, ChildStored, ChildRefused, CreateEnd, CreateBegin, fanVars
<1>2. ASSUME NEW j \in Jobs, \/ (\E s \in Moves : Rewritten(j, s)) \/ CancelBegin(j)
                             \/ \E th \in Thresholds : PollBegin(j, th)
      PROVE  disturbed \subseteq disturbed'
  BY <1>2 DEF Rewritten, CancelBegin, PollBegin
<1>5. ASSUME NEW w \in Workers, WorkerMoves(w)  PROVE disturbed \subseteq disturbed'
  BY <1>5 DEF WorkerMoves
<1>3. CASE PollRead \/ PollEnd \/ CancelNext \/ RestartAll
  BY <1>3 DEF PollRead, PollEnd, CancelNext, RestartAll
<1>4. CASE (Tick /\ UNCHANGED fanVars) \/ UNCHANGED allVars
  BY <1>4 DEF allVars, fanVars
<1> QED  BY <1>1, <1>2, <1>3, <1>4, <1>5 DEF FanNext

\* The jobs that are stored have their ids, and keep their tags.
LEMMA TagsStay ==
  ASSUME AllTypeOK, StoreInv, Untagged, Settled, [FanNext]_allVars,
         NEW j \in Jobs, status[j] # "absent" \/ status'[j] # "absent"
  PROVE  /\ j <= ids /\ tag'[j] = tag[j]
         /\ ~Spared(j) => ~Spared(j)'
<1>t. ids \in Nat /\ j \in Nat
  BY SubmissionAssumption DEF AllTypeOK, QueueTypeOK, Jobs, SubmissionAssumption
<1>1. status[j] # "absent" => ~(j > ids)
  BY DEF StoreInv, Fresh
<1>2. status[j] = "absent" => j <= ids
  BY StatusSteps DEF StatusDoes
<1>3. j <= ids
  BY <1>t, <1>1, <1>2
<1>4. tag'[j] = tag[j]
  BY <1>3 DEF Settled
<1> QED  BY <1>3, <1>4, DisturbedGrows DEF Spared

\* A new id is absent.
LEMMA FreshSteps ==
  ASSUME AllTypeOK, StoreInv, Untagged, Settled, [FanNext]_allVars
  PROVE  Fresh'
<1>t. ids \in Nat /\ ids' \in Nat /\ ids' >= ids /\ \A j \in Jobs : j \in Nat
  BY SubmissionAssumption DEF AllTypeOK, QueueTypeOK, Jobs, SubmissionAssumption, Settled
<1>1. ASSUME NEW j \in Jobs, j > ids'  PROVE status'[j] = "absent"
  <2>1. ~(j <= ids)
    BY <1>t, <1>1
  <2> QED  BY <2>1, TagsStay
<1> QED  BY <1>1 DEF Fresh

\* Spared after a step, and Hands.
StillSpared(j) == tag'[j] # 0 /\ tag'[j] \notin disturbed'
StillFree(j) == \A w \in Workers : work'[w].job # j
StillHands(j) ==
  /\ status'[j] = "absent" => StillFree(j)
  /\ StillSpared(j) /\ status'[j] \notin {"running", "timeout"} => StillFree(j)
  /\ StillSpared(j) => \A v, w \in Workers : work'[v].job = j /\ work'[w].job = j => v = w

\* A spared child that is stored has a worker only while it runs or times out,
\* and only one.
LEMMA HandSteps ==
  ASSUME AllTypeOK, StoreInv, Untagged, Settled, [FanNext]_allVars, NEW j \in Jobs
  PROVE  StillHands(j)
<1>t. /\ status \in [Jobs -> Moves] /\ cancelling \in Seq(Jobs) /\ ListTypeOK
      /\ work \in [Workers -> Work] /\ j # 0
  BY DEF AllTypeOK, QueueTypeOK, ListTypeOK, Jobs
<1>h. Hands(j)
  BY DEF StoreInv
<1>s. status[j] # "absent" /\ StillSpared(j) => Spared(j)
  BY TagsStay DEF Spared, StillSpared
<1>f. ASSUME StillFree(j)  PROVE StillHands(j)
  BY <1>f DEF StillFree, StillHands
<1>a. ASSUME status'[j] = status[j], \A w \in Workers : work'[w].job = j => work[w].job = j
      PROVE  StillHands(j)
  <2>1. Free(j) => StillFree(j)
    BY <1>a DEF Free, StillFree
  <2>2. CASE status[j] = "absent"
    BY <1>f, <1>h, <2>1, <2>2 DEF Hands
  <2>3. CASE status[j] # "absent"
    BY <1>a, <1>h, <1>s, <2>1, <2>3 DEF Hands, InHand, StillHands
  <2> QED  BY <2>2, <2>3
<1>1. CASE UNCHANGED <<status, work>>
  BY <1>1, <1>a
<1>2. ASSUME NEW t \in Threads, Enqueue(t), work' = work  PROVE StillHands(j)
  <2>1. cur[t] \in Jobs /\ status[cur[t]] = "absent"
    BY <1>2, ThreadTypes DEF Enqueue, AllTypeOK, StoreInv, Pending
  <2>2. CASE j = cur[t]
    BY <1>2, <1>f, <1>h, <2>1, <2>2 DEF Hands, Free, StillFree
  <2>3. CASE j # cur[t]
    BY <1>2, <1>a, <1>t, <2>1, <2>3 DEF Enqueue
  <2> QED  BY <2>2, <2>3
<1>3. ASSUME NEW w \in Workers, HandlerEnds(w)  PROVE StillHands(j)
  <2> DEFINE k == work[w].job
  <2>1. k # 0 /\ k \in Jobs /\ ~Free(k)
    BY <1>3, <1>t DEF HandlerEnds, Free, ListTypeOK, Work, Jobs
  <2>2. \/ status' = status \/ \E s : Put(k, s)
    BY <1>3 DEF HandlerEnds
  <2>3. \/ Has(w, NoWork)
        \/ Put(k, "timeout") /\ Has(w, [job |-> k, late |-> TRUE])
    BY <1>3 DEF HandlerEnds
  <2>4. \A v \in Workers : v # w => work'[v] = work[v]
    BY <1>t, <2>3 DEF Has
  <2>5. work'[w].job = 0 \/ (work'[w].job = k /\ Put(k, "timeout"))
    BY <1>t, <2>3 DEF Has, NoWork
  <2>6. CASE j # k
    <3>1. status'[j] = status[j]
      BY <1>t, <2>1, <2>2, <2>6 DEF Put
    <3>2. \A v \in Workers : work'[v].job = j => work[v].job = j
      BY <1>t, <2>4, <2>5, <2>6
    <3> QED  BY <1>a, <3>1, <3>2
  <2>7. CASE j = k
    <3>1. status[j] # "absent"
      BY <1>h, <2>1, <2>7 DEF Hands
    <3>2. status'[j] # "absent"
      BY <3>1, StatusSteps DEF StatusDoes
    <3>3. ASSUME StillSpared(j)  PROVE \A v \in Workers : work[v].job = j => v = w
      BY <1>h, <1>s, <2>7, <3>1, <3>3 DEF Hands
    <3>4. ASSUME StillSpared(j)  PROVE \A v \in Workers : work'[v].job = j => v = w
      BY <2>4, <3>3, <3>4
    <3>5. ASSUME StillSpared(j), work'[w].job = 0  PROVE StillFree(j)
      BY <1>t, <3>4, <3>5 DEF StillFree
    <3>6. Put(k, "timeout") => status'[j] = "timeout"
      BY <1>t, <2>1, <2>7 DEF Put
    <3> QED  BY <2>5, <3>2, <3>4, <3>5, <3>6 DEF StillHands
  <2> QED  BY <2>6, <2>7
<1>4. ASSUME NEW w \in Workers, NEW k \in Jobs, Claim(w, k)  PROVE StillHands(j)
  <2>1. /\ status[k] = "queued" /\ status'[j] = (IF j = k THEN "running" ELSE status[j])
        /\ work'[w].job = k /\ \A v \in Workers : v # w => work'[v] = work[v]
    BY <1>4, <1>t DEF Claim, Put, Has
  <2>2. CASE j # k
    <3>1. \A v \in Workers : work'[v].job = j => work[v].job = j
      BY <2>1, <2>2
    <3> QED  BY <1>a, <2>1, <2>2, <3>1
  <2>3. CASE j = k
    <3>1. StillSpared(j) => Free(j)
      BY <1>h, <1>s, <2>1, <2>3 DEF Hands, InHand
    <3>2. StillSpared(j) => \A v \in Workers : work'[v].job = j => v = w
      BY <2>1, <3>1 DEF Free
    <3>3. status'[j] = "running"
      BY <2>1, <2>3
    <3> QED  BY <3>2, <3>3 DEF StillHands
  <2> QED  BY <2>2, <2>3
<1>5. ASSUME NEW k \in Jobs, NEW s \in Moves, Rewritten(k, s)  PROVE StillHands(j)
  <2>1. /\ status'[j] = (IF j = k THEN s ELSE status[j]) /\ s # "absent" /\ work' = work /\ tag' = tag
        /\ Free(k) \/ tag[k] \in disturbed'
    BY <1>5, <1>t DEF Rewritten, Put, Free
  <2>2. CASE j # k
    BY <1>a, <2>1, <2>2
  <2>3. CASE j = k
    <3>1. Free(j) => StillFree(j)
      BY <2>1 DEF Free, StillFree
    <3> QED  BY <1>f, <2>1, <2>3, <3>1 DEF StillSpared, StillHands
  <2> QED  BY <2>2, <2>3
<1>6. CASE CancelNext
  <2> DEFINE k == Head(cancelling)
  <2>1. k \in Jobs /\ 1 \in 1..Len(cancelling) /\ k = cancelling[1]
    BY <1>6, <1>t, HeadTail DEF CancelNext
  <2>2. status[k] # "absent" /\ ~Spared(k)
    BY <2>1 DEF StoreInv, Lists, Stored, Marks
  <2>3. status'[j] = (IF j = k THEN "cancelled" ELSE status[j]) /\ work' = work
    BY <1>6, <1>t, <2>1 DEF CancelNext, Put
  <2> HIDE DEF k
  <2>4. CASE j # k
    BY <1>a, <2>3, <2>4
  <2>5. CASE j = k
    BY <1>s, <2>2, <2>3, <2>5 DEF StillHands
  <2> QED  BY <2>4, <2>5
<1> QED  BY <1>1, <1>2, <1>3, <1>4, <1>5, <1>6, StatusQuiet DEF WorkerMoves

\* Hands, primed.
LEMMA HandsAfter ==
  ASSUME NEW j \in Jobs, StillHands(j)
  PROVE  Hands(j)'
BY DEF Hands, StillHands, Free, StillFree, Spared, StillSpared, InHand

\* A thread after a step: idle, or with the job it had, or alone with a new one.
ThreadDoes(u) ==
  \/ pc'[u] = "idle"
  \/ pc[u] # "idle" /\ cur'[u] = cur[u]
  \/ /\ pc[u] = "idle" /\ cur'[u] = ids + 1 /\ ids < MaxJobs
     /\ \A v \in Threads : v # u => pc'[v] = pc[v] /\ cur'[v] = cur[v]

\* Every step leaves each thread so.
LEMMA ThreadSteps ==
  ASSUME AllTypeOK, [FanNext]_allVars, NEW u \in Threads
  PROVE  ThreadDoes(u)
<1>t. pc \in [Threads -> {"idle", "get", "set", "enqueue"}] /\ cur \in [Threads -> 0..MaxJobs]
  BY DEF AllTypeOK, QueueTypeOK
<1>1. ASSUME NEW t \in Threads, NEW k \in Keys \cup {None}, Begin(t, k)  PROVE ThreadDoes(u)
  <2>1. /\ pc[t] = "idle" /\ ids < MaxJobs /\ cur'[t] = ids + 1
        /\ \A v \in Threads : v # t => pc'[v] = pc[v] /\ cur'[v] = cur[v]
    BY <1>1, <1>t DEF Begin, Enter
  <2> QED  BY <2>1 DEF ThreadDoes
<1>2. ASSUME NEW t \in Threads, Return(t)  PROVE ThreadDoes(u)
  BY <1>2, <1>t DEF Return, Enter, ThreadDoes
<1>3. ASSUME NEW t \in Threads, Lookup(t) \/ Store(t)  PROVE ThreadDoes(u)
  BY <1>3, <1>t DEF Lookup, Store, ThreadDoes
<1>4. CASE Restart
  BY <1>4 DEF Restart, ThreadDoes
<1>5. CASE UNCHANGED <<pc, cur>>
  BY <1>5 DEF ThreadDoes
<1>6. CASE StatusMoves \/ Tick \/ UNCHANGED submitVars
  BY <1>5, <1>6 DEF StatusMoves, Tick, submitVars, threadVars
<1>7. ASSUME NEW t \in Threads, Submits(t)  PROVE ThreadDoes(u)
  BY <1>1, <1>2, <1>3, <1>7 DEF Submits, Deduplicated, Enqueue, Raise
<1> QED  BY <1>4, <1>6, <1>7, QueueSteps DEF QueueStep, AllTypeOK

\* Two threads never submit the same job, nor a stored one.
LEMMA PendingSteps ==
  ASSUME AllTypeOK, StoreInv, Untagged, Settled, [FanNext]_allVars, NEW u \in Threads
  PROVE  Pending(u)'
<1>t. ids \in Nat /\ \A j \in Jobs : j \in Nat
  BY SubmissionAssumption DEF AllTypeOK, QueueTypeOK, Jobs, SubmissionAssumption
<1>c. \A v \in Threads : pc[v] # "idle" => cur[v] \in Jobs /\ cur[v] <= ids
  BY <1>t, ThreadTypes DEF AllTypeOK
<1>p. \A v \in Threads : Pending(v)
  BY DEF StoreInv
<1>e. \A v \in Threads : Enqueue(v) => pc[v] # "idle" /\ pc'[v] = "idle"
  BY DEF Enqueue, Return, Enter, AllTypeOK, QueueTypeOK
<1> SUFFICES ASSUME pc'[u] # "idle"
             PROVE  /\ status'[cur'[u]] = "absent"
                    /\ \A v \in Threads : v # u /\ pc'[v] # "idle" => cur'[v] # cur'[u]
  BY DEF Pending
<1>1. CASE pc[u] # "idle" /\ cur'[u] = cur[u]
  <2> DEFINE j == cur[u]
  <2>1. j \in Jobs /\ status[j] = "absent" /\ j <= ids
    BY <1>1, <1>c, <1>p DEF Pending
  <2>2. status'[j] = "absent"
    <3>1. ASSUME NEW t \in Threads, Enqueue(t), cur[t] = j  PROVE FALSE
      BY <1>1, <1>e, <1>p, <3>1 DEF Pending
    <3> HIDE DEF j
    <3> QED  BY <2>1, <3>1, StatusSteps DEF StatusDoes
  <2>3. ASSUME NEW v \in Threads, v # u, pc'[v] # "idle"  PROVE cur'[v] # j
    <3>1. CASE pc[v] # "idle" /\ cur'[v] = cur[v]
      BY <1>1, <1>p, <2>3, <3>1 DEF Pending
    <3>2. CASE cur'[v] = ids + 1
      <4> HIDE DEF j
      <4> QED  BY <1>t, <2>1, <3>2
    <3> QED  BY <2>3, <3>1, <3>2, ThreadSteps DEF ThreadDoes
  <2> QED  BY <1>1, <2>2, <2>3
<1>2. CASE /\ pc[u] = "idle" /\ cur'[u] = ids + 1 /\ ids < MaxJobs
           /\ \A v \in Threads : v # u => pc'[v] = pc[v] /\ cur'[v] = cur[v]
  <2>1. ids + 1 \in Jobs /\ ~(ids + 1 <= ids) /\ \A j \in Jobs : j <= ids => j # ids + 1
    BY <1>2, <1>t, SubmissionAssumption DEF Jobs, SubmissionAssumption
  <2>2. status'[ids + 1] = "absent"
    BY <2>1, TagsStay
  <2> QED  BY <1>2, <1>c, <2>1, <2>2
<1> QED  BY <1>1, <1>2, ThreadSteps DEF ThreadDoes

\* The state that holds the lists, after a step.
ChildrenDo ==
  \/ children' = children
  \/ \E t \in Threads : CreateEnd(t)
  \/ RestartAll
GatheredDo ==
  \/ gathered' = gathered
  \/ \E t \in Threads : \/ ChildStored(t) \/ \E p \in Jobs : CreateBegin(t, p)
                        \/ gathered' = [gathered EXCEPT ![t] = NoFan]
  \/ RestartAll
CancellingDoes == cancelling' = cancelling \/ (\E p \in Jobs : CancelBegin(p)) \/ CancelNext \/ RestartAll

\* Every step changes the lists in one of these ways.
LEMMA ListDoes ==
  ASSUME [FanNext]_allVars
  PROVE  ChildrenDo /\ GatheredDo /\ CancellingDoes
<1> USE DEF ChildrenDo, GatheredDo, CancellingDoes
<1>1. ASSUME NEW t \in Threads, \/ Submit(t) \/ SubmitChild(t) \/ ChildStored(t) \/ ChildRefused(t)
      PROVE  ChildrenDo /\ GatheredDo /\ CancellingDoes
  BY <1>1 DEF Submit, SubmitChild, ChildStored, ChildRefused, fanVars
<1>2. ASSUME NEW t \in Threads, CreateEnd(t) \/ \E p \in Jobs : CreateBegin(t, p)
      PROVE  ChildrenDo /\ GatheredDo /\ CancellingDoes
  BY <1>2 DEF CreateEnd, CreateBegin
<1>3. ASSUME NEW j \in Jobs, \/ (\E s \in Moves : Rewritten(j, s)) \/ CancelBegin(j)
                             \/ \E th \in Thresholds : PollBegin(j, th)
      PROVE  ChildrenDo /\ GatheredDo /\ CancellingDoes
  BY <1>3 DEF Rewritten, CancelBegin, PollBegin
<1>6. ASSUME NEW w \in Workers, WorkerMoves(w)  PROVE ChildrenDo /\ GatheredDo /\ CancellingDoes
  BY <1>6 DEF WorkerMoves
<1>4. CASE PollRead \/ PollEnd \/ CancelNext \/ RestartAll
  BY <1>4 DEF PollRead, PollEnd, CancelNext
<1>5. CASE (Tick /\ UNCHANGED fanVars) \/ UNCHANGED allVars
  BY <1>5 DEF allVars, fanVars
<1> QED  BY <1>1, <1>2, <1>3, <1>4, <1>5, <1>6 DEF FanNext

\* A list of stored jobs before the step is one after it.
StillStored(s) == \A i \in 1..Len(s) : status'[s[i]] # "absent"

\* Lists are of jobs that stay stored.
LEMMA StoredStays ==
  ASSUME AllTypeOK, StoreInv, Untagged, [FanNext]_allVars, NEW s \in Seq(Jobs), Stored(s)
  PROVE  StillStored(s)
<1>1. ASSUME NEW i \in 1..Len(s)  PROVE status'[s[i]] # "absent"
  <2>1. s[i] \in Jobs /\ status[s[i]] # "absent"
    BY DEF Stored
  <2> QED  BY <2>1, StatusSteps DEF StatusDoes
<1> QED  BY <1>1 DEF StillStored

\* The job that submit has stored joins the gathered ones.
LEMMA AppendStored ==
  ASSUME NEW s \in Seq(Jobs), NEW j \in Jobs, StillStored(s), status'[j] # "absent"
  PROVE  StillStored(Append(s, j))
<1>1. /\ Len(Append(s, j)) = Len(s) + 1 /\ Len(s) \in Nat
      /\ \A i \in 1..Len(s) : Append(s, j)[i] = s[i]
      /\ Append(s, j)[Len(s) + 1] = j
  OBVIOUS
<1>2. \A i \in 1..(Len(s) + 1) : i \in 1..Len(s) \/ i = Len(s) + 1
  BY <1>1
<1> QED  BY <1>1, <1>2 DEF StillStored

\* The ids that cancel_parent_and_children collects.
LEMMA ConsList ==
  ASSUME NEW s \in Seq(Jobs), NEW j \in Jobs
  PROVE  \A i \in 1..Len(<<j>> \o s) :
           (<<j>> \o s)[i] = j \/ \E k \in 1..Len(s) : (<<j>> \o s)[i] = s[k]
<1>1. /\ Len(<<j>> \o s) = Len(s) + 1 /\ Len(s) \in Nat
      /\ \A i \in 1..Len(<<j>> \o s) : (<<j>> \o s)[i] = IF i <= 1 THEN <<j>>[i] ELSE s[i - 1]
  OBVIOUS
<1>2. ASSUME NEW i \in 1..(Len(s) + 1)  PROVE i = 1 \/ (i > 1 /\ i - 1 \in 1..Len(s))
  BY <1>1
<1>3. ASSUME NEW i \in 1..Len(<<j>> \o s)
      PROVE  (<<j>> \o s)[i] = j \/ \E k \in 1..Len(s) : (<<j>> \o s)[i] = s[k]
  <2>1. CASE i = 1
    BY <1>1, <2>1
  <2>2. CASE i > 1 /\ i - 1 \in 1..Len(s)
    <3>1. ~(i <= 1)
      BY <2>2
    <3> QED  BY <1>1, <2>2, <3>1
  <2> QED  BY <1>1, <1>2, <2>1, <2>2
<1> QED  BY <1>3

\* The lists name stored jobs.
LEMMA StoredLists ==
  ASSUME AllTypeOK, StoreInv, Untagged, [FanNext]_allVars
  PROVE  Lists'
<1>t. /\ children \in [Jobs -> Seq(Jobs)] /\ gathered \in [Threads -> Gather] /\ cancelling \in Seq(Jobs)
      /\ \A t \in Threads : gathered[t].ids \in Seq(Jobs)
      /\ \A t \in Threads : gathered[t].parent = 0 => gathered[t] = NoFan
  BY DEF AllTypeOK, ListTypeOK, Gather
<1>c. \A p \in Jobs : StillStored(children[p])
  BY <1>t, StoredStays DEF StoreInv, Lists
<1>g. \A t \in Threads : StillStored(gathered[t].ids)
  BY <1>t, StoredStays DEF StoreInv, Lists
<1>n. \A i \in 1..Len(cancelling) : status'[cancelling[i]] # "absent"
  BY <1>t, StoredStays DEF StoreInv, Lists, StillStored
<1>e. StillStored(<<>>) /\ StillStored(NoFan.ids)
  BY DEF StillStored, NoFan
<1>1. \A p \in Jobs : StillStored(children'[p])
  <2>1. ASSUME NEW t \in Threads, CreateEnd(t), NEW p \in Jobs  PROVE StillStored(children'[p])
    <3>1. children'[p] = IF p = gathered[t].parent THEN gathered[t].ids ELSE children[p]
      BY <1>t, <2>1 DEF CreateEnd
    <3> QED  BY <1>c, <1>g, <3>1
  <2>2. CASE RestartAll
    BY <1>e, <2>2 DEF RestartAll
  <2> QED  BY <1>c, <2>1, <2>2, ListDoes DEF ChildrenDo
<1>2. \A u \in Threads : StillStored(gathered'[u].ids)
  <2>1. ASSUME NEW t \in Threads, ChildStored(t), NEW u \in Threads  PROVE StillStored(gathered'[u].ids)
    <3>1. gathered'[u].ids = IF u = t THEN Append(gathered[u].ids, cur[t]) ELSE gathered[u].ids
      BY <1>t, <2>1 DEF ChildStored, Gather
    <3>2. cur[t] \in Jobs
      BY <2>1, ThreadTypes DEF ChildStored, Enqueue, AllTypeOK
    <3>3. status'[cur[t]] = "queued"
      BY <2>1, <3>2 DEF ChildStored, Enqueue, AllTypeOK, QueueTypeOK
    <3> QED  BY <1>g, <1>t, <3>1, <3>2, <3>3, AppendStored
  <2>2. ASSUME NEW t \in Threads, NEW p \in Jobs, CreateBegin(t, p), NEW u \in Threads
        PROVE  StillStored(gathered'[u].ids)
    <3>1. gathered'[u].ids = gathered[u].ids
      BY <1>t, <2>2 DEF CreateBegin, Gather
    <3> QED  BY <1>g, <3>1
  <2>3. ASSUME NEW t \in Threads, gathered' = [gathered EXCEPT ![t] = NoFan], NEW u \in Threads
        PROVE  StillStored(gathered'[u].ids)
    BY <1>e, <1>g, <1>t, <2>3
  <2>4. CASE RestartAll
    BY <1>e, <2>4 DEF RestartAll
  <2> QED  BY <1>g, <2>1, <2>2, <2>3, <2>4, ListDoes DEF GatheredDo
<1>3. StillStored(cancelling')
  <2>1. ASSUME NEW p \in Jobs, CancelBegin(p)  PROVE StillStored(cancelling')
    <3>1. cancelling' = <<p>> \o children[p] /\ status[p] # "absent" /\ children[p] \in Seq(Jobs)
      BY <1>t, <2>1 DEF CancelBegin
    <3>2. status'[p] # "absent"
      BY <3>1, StatusSteps DEF StatusDoes
    <3> QED  BY <1>c, <3>1, <3>2, ConsList DEF StillStored
  <2>2. CASE CancelNext
    <3>1. cancelling # <<>> /\ cancelling' = Tail(cancelling)
      BY <2>2 DEF CancelNext
    <3>2. /\ Len(cancelling) \in Nat \ {0} /\ Len(cancelling') = Len(cancelling) - 1
          /\ \A i \in 1..(Len(cancelling) - 1) : cancelling'[i] = cancelling[i + 1]
      BY <1>t, <3>1, HeadTail
    <3>3. \A i \in 1..(Len(cancelling) - 1) : i + 1 \in 1..Len(cancelling)
      BY <3>2
    <3> QED  BY <1>n, <3>2, <3>3 DEF StillStored
  <2>3. CASE RestartAll
    BY <1>e, <2>3 DEF RestartAll
  <2> QED  BY <1>n, <2>1, <2>2, <2>3, ListDoes DEF CancellingDoes, StillStored
<1> QED  BY <1>1, <1>2, <1>3 DEF Lists, Stored, StillStored

\* What is cancelled, or will be, is no child of an undisturbed parent.
LEMMA MarkSteps ==
  ASSUME AllTypeOK, StoreInv, Untagged, Listed, Settled, [FanNext]_allVars
  PROVE  Marks'
<1>t. children \in [Jobs -> Seq(Jobs)] /\ cancelling \in Seq(Jobs)
  BY DEF AllTypeOK, ListTypeOK
<1>s. ASSUME NEW j \in Jobs, status[j] # "absent" \/ status'[j] # "absent", ~Spared(j)
      PROVE  ~StillSpared(j)
  BY <1>s, TagsStay DEF Spared, StillSpared
<1>m. ASSUME NEW i \in 1..Len(cancelling)  PROVE ~StillSpared(cancelling[i])
  <2>1. cancelling[i] \in Jobs /\ status[cancelling[i]] # "absent" /\ ~Spared(cancelling[i])
    BY <1>t DEF StoreInv, Lists, Stored, Marks
  <2> QED  BY <1>s, <2>1
<1>1. \A i \in 1..Len(cancelling') : ~StillSpared(cancelling'[i])
  <2>1. ASSUME NEW p \in Jobs, CancelBegin(p)
        PROVE  \A i \in 1..Len(cancelling') : ~StillSpared(cancelling'[i])
    <3>1. /\ cancelling' = <<p>> \o children[p] /\ tag' = tag /\ tag[p] = 0 /\ p \in disturbed'
          /\ children[p] \in Seq(Jobs)
      BY <1>t, <2>1 DEF CancelBegin
    <3>2. \A k \in 1..Len(children[p]) : tag[children[p][k]] = p
      BY DEF Listed, ListOf
    <3> SUFFICES ASSUME NEW i \in 1..Len(cancelling')  PROVE ~StillSpared(cancelling'[i])
      OBVIOUS
    <3>3. cancelling'[i] = p \/ \E k \in 1..Len(children[p]) : cancelling'[i] = children[p][k]
      BY <3>1, ConsList
    <3> QED  BY <3>1, <3>2, <3>3 DEF StillSpared
  <2>2. CASE CancelNext
    <3>1. cancelling # <<>> /\ cancelling' = Tail(cancelling)
      BY <2>2 DEF CancelNext
    <3>2. /\ Len(cancelling) \in Nat \ {0} /\ Len(cancelling') = Len(cancelling) - 1
          /\ \A i \in 1..(Len(cancelling) - 1) : cancelling'[i] = cancelling[i + 1]
      BY <1>t, <3>1, HeadTail
    <3>3. \A i \in 1..(Len(cancelling) - 1) : i + 1 \in 1..Len(cancelling)
      BY <3>2
    <3> QED  BY <1>m, <3>2, <3>3
  <2>3. CASE RestartAll
    BY <2>3 DEF RestartAll
  <2> QED  BY <1>m, <2>1, <2>2, <2>3, ListDoes DEF CancellingDoes
<1> QED  BY <1>1 DEF Marks, Spared, StillSpared

\* One thread gathers the children of an undisturbed parent, before the list.
LEMMA OneFanSteps ==
  ASSUME AllTypeOK, StoreInv, Untagged, Listed, [FanNext]_allVars, NEW u \in Threads
  PROVE  OneFan(u)'
<1>t. /\ children \in [Jobs -> Seq(Jobs)] /\ gathered \in [Threads -> Gather]
      /\ \A t \in Threads : gathered[t].parent \in 0..MaxJobs
      /\ Jobs = 1..MaxJobs
  BY DEF AllTypeOK, ListTypeOK, Gather, Jobs
<1>d. disturbed \subseteq disturbed'
  BY DisturbedGrows
<1>o. \A t \in Threads : OneFan(t)
  BY DEF StoreInv
<1>n. NoFan.parent = 0
  BY DEF NoFan
<1>k. ASSUME \A t \in Threads : gathered'[t].parent \in {0, gathered[t].parent}, children' = children
      PROVE  OneFan(u)'
  BY <1>d, <1>k, <1>o DEF OneFan
<1>1. ASSUME NEW t \in Threads, CreateEnd(t)  PROVE OneFan(u)'
  <2> DEFINE p == gathered[u].parent
  <2>1. /\ gathered' = [gathered EXCEPT ![t] = NoFan]
        /\ children' = [children EXCEPT ![gathered[t].parent] = gathered[t].ids]
    BY <1>1 DEF CreateEnd
  <2>2. \A v \in Threads : gathered'[v].parent = IF v = t THEN 0 ELSE gathered[v].parent
    BY <1>n, <1>t, <2>1
  <2> SUFFICES ASSUME u # t, p # 0, p \notin disturbed'
               PROVE  /\ children'[p] = <<>>
                      /\ \A v \in Threads : v # u => gathered'[v].parent # p
    BY <2>2 DEF OneFan
  <2>3. children[p] = <<>> /\ \A v \in Threads : v # u => gathered[v].parent # p
    BY <1>d, <1>o DEF OneFan
  <2>4. p \in Jobs /\ p # gathered[t].parent
    BY <1>t, <2>3
  <2>5. children'[p] = children[p]
    BY <1>t, <2>1, <2>4
  <2> HIDE DEF p
  <2> QED  BY <2>2, <2>3, <2>5
<1>2. ASSUME NEW t \in Threads, NEW p \in Jobs, CreateBegin(t, p)  PROVE OneFan(u)'
  <2>1. /\ gathered' = [gathered EXCEPT ![t].parent = p] /\ gathered[t] = NoFan /\ children' = children
        /\ disturbed' = IF Children(p) = {} /\ \A v \in Threads : gathered[v].parent # p
                        THEN disturbed ELSE disturbed \cup {p}
    BY <1>2 DEF CreateBegin
  <2>2. \A v \in Threads : gathered'[v].parent = IF v = t THEN p ELSE gathered[v].parent
    BY <1>t, <2>1 DEF Gather
  <2>3. ASSUME p \notin disturbed'
        PROVE  children[p] = <<>> /\ \A v \in Threads : gathered[v].parent # p
    <3>1. Children(p) = {} /\ \A v \in Threads : gathered[v].parent # p
      BY <2>1, <2>3
    <3>2. ASSUME children[p] # <<>>  PROVE FALSE
      <4>0. children[p] \in Seq(Jobs)
        BY <1>t
      <4>1. 1 \in 1..Len(children[p]) /\ children[p][1] \in Jobs
        BY ONLY <4>0, <3>2, HeadTail
      <4>2. tag[children[p][1]] = p
        BY <4>1 DEF Listed, ListOf
      <4> QED  BY <3>1, <4>1, <4>2 DEF Children
    <3> QED  BY <3>1, <3>2
  <2>4. CASE u = t
    BY <2>1, <2>2, <2>3, <2>4 DEF OneFan
  <2>5. CASE u # t
    <3> DEFINE q == gathered[u].parent
    <3>1. gathered'[u].parent = q
      BY <2>2, <2>5
    <3>2. ASSUME q # 0, q \notin disturbed'
          PROVE  children[q] = <<>> /\ \A v \in Threads : v # u => gathered'[v].parent # q
      <4>1. children[q] = <<>> /\ \A v \in Threads : v # u => gathered[v].parent # q
        BY <1>d, <1>o, <3>2 DEF OneFan
      <4>2. q # p
        BY <2>3, <3>2
      <4> QED  BY <2>2, <4>1, <4>2
    <3> HIDE DEF q
    <3> QED  BY <2>1, <3>1, <3>2 DEF OneFan
  <2> QED  BY <2>4, <2>5
<1>3. ASSUME NEW t \in Threads, ChildStored(t)  PROVE OneFan(u)'
  <2>1. children' = children /\ \A v \in Threads : gathered'[v].parent = gathered[v].parent
    BY <1>3, <1>t DEF ChildStored, Gather
  <2> QED  BY <1>k, <2>1
<1>4. CASE RestartAll
  BY <1>4, <1>n DEF RestartAll, OneFan
<1>5. ASSUME NEW t \in Threads, gathered' = [gathered EXCEPT ![t] = NoFan], children' = children
      PROVE  OneFan(u)'
  <2>1. \A v \in Threads : gathered'[v].parent \in {0, gathered[v].parent}
    BY <1>n, <1>5, <1>t
  <2> QED  BY <1>k, <1>5, <2>1
<1>6. CASE gathered' = gathered /\ children' = children
  BY <1>k, <1>6
<1> QED  BY <1>1, <1>2, <1>3, <1>4, <1>5, <1>6, ListDoes DEF ChildrenDo, GatheredDo

\* StoreInv is inductive.
LEMMA StoreSteps ==
  ASSUME AllTypeOK, FanInv, StoreInv, [FanNext]_allVars
  PROVE  StoreInv'
<1>1. Settled /\ Untagged /\ Listed
  BY FanSettles DEF FanInv
<1>4. \A j \in Jobs : Hands(j)'
  BY <1>1, HandSteps, HandsAfter
<1>2. Fresh' /\ Lists' /\ Marks'
  BY <1>1, FreshSteps, StoredLists, MarkSteps
<1>3. \A t \in Threads : Pending(t)' /\ OneFan(t)'
  BY <1>1, PendingSteps, OneFanSteps
<1> QED  BY <1>2, <1>3, <1>4 DEF StoreInv

\* A parent that is undisturbed after a step: its list stays, its children are
\* stored and not cancelled, and those with a final status keep it.
LEMMA UndisturbedKeeps ==
  ASSUME AllTypeOK, StoreInv, Untagged, Listed, [FanNext]_allVars, NEW p \in Jobs, p \notin disturbed'
  PROVE  /\ p \notin disturbed
         /\ children[p] # <<>> => children'[p] = children[p]
         /\ \A i \in 1..Len(children[p]) :
              /\ children[p][i] \in Jobs
              /\ status[children[p][i]] # "absent"
              /\ status[children[p][i]] \in Final => status'[children[p][i]] = status[children[p][i]]
<1>t. /\ children \in [Jobs -> Seq(Jobs)] /\ gathered \in [Threads -> Gather]
      /\ children[p] \in Seq(Jobs) /\ p # 0
      /\ \A t \in Threads : gathered[t].parent = 0 => gathered[t] = NoFan
  BY DEF AllTypeOK, ListTypeOK, Jobs
<1>1. p \notin disturbed
  BY DisturbedGrows
<1>2. ASSUME children[p] # <<>>  PROVE children'[p] = children[p]
  <2>1. ASSUME NEW t \in Threads, CreateEnd(t)  PROVE children'[p] = children[p]
    <3>1. /\ gathered[t].parent # 0
          /\ children' = [children EXCEPT ![gathered[t].parent] = gathered[t].ids]
      BY <1>t, <2>1 DEF CreateEnd
    <3>2. gathered[t].parent # p
      BY <1>1, <1>2, <3>1 DEF StoreInv, OneFan
    <3> QED  BY <1>t, <3>1, <3>2
  <2>2. CASE RestartAll
    <3>0. children[p] \in Seq(Jobs)
      BY <1>t
    <3>1. 1 \in 1..Len(children[p]) /\ children[p][1] \in Jobs
      BY ONLY <3>0, <1>2, HeadTail
    <3>2. tag[children[p][1]] = p
      BY <3>1 DEF Listed, ListOf
    <3>3. p \in disturbed'
      BY <2>2, <3>1, <3>2 DEF RestartAll, Children
    <3> QED  BY <3>3
  <2> QED  BY <2>1, <2>2, ListDoes DEF ChildrenDo
<1>3. ASSUME NEW i \in 1..Len(children[p])
      PROVE  /\ children[p][i] \in Jobs
             /\ status[children[p][i]] # "absent"
             /\ status[children[p][i]] \in Final => status'[children[p][i]] = status[children[p][i]]
  <2> DEFINE j == children[p][i]
  <2>1. j \in Jobs
    BY <1>t
  <2>2. Spared(j)
    BY <1>1, <1>t DEF Listed, ListOf, Spared
  <2>3. status[j] # "absent"
    BY DEF StoreInv, Lists, Stored
  <2> HIDE DEF j
  <2>4. tag[j] = p
    BY DEF Listed, ListOf, j
  <2>5. status[j] \in Final => status'[j] = status[j]
    BY <2>1, <2>2, <2>4, StatusSteps DEF StatusDoes
  <2> QED  BY <2>1, <2>3, <2>5 DEF j
<1> QED  BY <1>1, <1>2, <1>3

\* The poll after a step.
PollDoes ==
  \/ poll' = poll
  \/ \E p \in Jobs : \E th \in Thresholds : PollBegin(p, th)
  \/ PollRead \/ PollEnd \/ RestartAll

\* Every step treats the poll so, and only the end of a poll gives a verdict.
LEMMA PollMoves ==
  ASSUME [FanNext]_allVars
  PROVE  PollDoes /\ (PollEnd \/ verdict' = verdict)
<1>1. ASSUME NEW t \in Threads,
             \/ Submit(t) \/ SubmitChild(t) \/ ChildStored(t) \/ ChildRefused(t) \/ CreateEnd(t)
             \/ \E p \in Jobs : CreateBegin(t, p)
      PROVE  poll' = poll /\ verdict' = verdict
  BY <1>1 DEF Submit, SubmitChild, ChildStored, ChildRefused, CreateEnd, CreateBegin, fanVars
<1>2. ASSUME NEW j \in Jobs, (\E s \in Moves : Rewritten(j, s)) \/ CancelBegin(j)
      PROVE  poll' = poll /\ verdict' = verdict
  BY <1>2 DEF Rewritten, CancelBegin
<1>6. ASSUME NEW w \in Workers, WorkerMoves(w)  PROVE poll' = poll /\ verdict' = verdict
  BY <1>6 DEF WorkerMoves
<1>3. ASSUME NEW j \in Jobs, NEW th \in Thresholds, PollBegin(j, th)  PROVE PollDoes /\ verdict' = verdict
  BY <1>3 DEF PollBegin, PollDoes
<1>4. CASE PollRead \/ PollEnd \/ RestartAll
  BY <1>4 DEF PollRead, PollDoes, RestartAll
<1>5. CASE CancelNext \/ (Tick /\ UNCHANGED fanVars) \/ UNCHANGED allVars
  BY <1>5 DEF CancelNext, allVars, fanVars, PollDoes
<1> QED  BY <1>1, <1>2, <1>3, <1>4, <1>5, <1>6 DEF FanNext, PollDoes

\* Reads and EmptyPoll after a step, of a list that does not change.
StillReads(c) ==
  /\ Len(c) = Len(poll'.seen) + Len(poll'.left)
  /\ \A i \in 1..Len(poll'.left) : poll'.left[i] = c[Len(poll'.seen) + i]
  /\ \A i \in 1..Len(poll'.seen) :
       /\ poll'.seen[i] \in Final => poll'.seen[i] = status'[c[i]]
       /\ poll'.seen[i] # "absent"
       /\ poll'.th # None => poll'.seen[i] # "timeout"

\* The status JobQueue.get gives the poll for a job.
Sees(x) == IF status[x] = "absent" THEN "failed" ELSE status[x]

\* What PollRead makes of the poll.
LEMMA PollReadDoes ==
  ASSUME poll \in Poll, PollRead
  PROVE  /\ poll.left \in Seq(Jobs) /\ poll.left # <<>> /\ poll.parent # 0
         /\ poll.left[1] \in Jobs /\ 1 \in 1..Len(poll.left)
         /\ poll'.parent = poll.parent /\ poll'.th = poll.th /\ status' = status /\ children' = children
         /\ Len(poll.seen) \in Nat /\ Len(poll.left) \in Nat
         /\ Len(poll'.seen) = Len(poll.seen) + 1 /\ Len(poll'.left) = Len(poll.left) - 1
         /\ \A i \in 1..Len(poll.seen) : poll'.seen[i] = poll.seen[i]
         /\ poll'.seen[Len(poll.seen) + 1] = Sees(poll.left[1])
         /\ \A i \in 1..(Len(poll.left) - 1) : poll'.left[i] = poll.left[i + 1]
         /\ status[poll.left[1]] = "timeout" /\ poll.th # None => poll.parent \in disturbed'
<1>1. /\ poll.left \in Seq(Jobs) /\ poll.left # <<>> /\ poll.parent # 0
      /\ status' = status /\ children' = children
  BY DEF Poll, PollRead, submitVars
<1>2. /\ Head(poll.left) = poll.left[1] /\ poll.left[1] \in Jobs
      /\ Len(poll.left) \in Nat \ {0} /\ Len(Tail(poll.left)) = Len(poll.left) - 1
      /\ \A i \in 1..(Len(poll.left) - 1) : Tail(poll.left)[i] = poll.left[i + 1]
  BY <1>1, HeadTail
<1> DEFINE x == Sees(poll.left[1])
<1>3. poll' = [poll EXCEPT !.left = Tail(@), !.seen = Append(@, x)]
  BY <1>2 DEF PollRead, Sees
<1>4. status[poll.left[1]] = "timeout" /\ poll.th # None => poll.parent \in disturbed'
  BY <1>2 DEF PollRead
<1> HIDE DEF x
<1>5. /\ poll'.parent = poll.parent /\ poll'.th = poll.th /\ poll'.left = Tail(poll.left)
      /\ poll'.seen = Append(poll.seen, x) /\ poll.seen \in Seq(Moves)
  BY <1>3 DEF Poll
<1>6. /\ Len(Append(poll.seen, x)) = Len(poll.seen) + 1 /\ Len(poll.seen) \in Nat
      /\ \A i \in 1..Len(poll.seen) : Append(poll.seen, x)[i] = poll.seen[i]
      /\ Append(poll.seen, x)[Len(poll.seen) + 1] = x
  BY <1>5
<1>7. 1 \in 1..Len(poll.left)
  BY <1>2
<1> QED  BY <1>1, <1>2, <1>4, <1>5, <1>6, <1>7 DEF x

\* A poll of an undisturbed parent goes on reading the list as it is.
LEMMA ReadOn ==
  ASSUME AllTypeOK, StoreInv, Untagged, Listed, [FanNext]_allVars, PollRead,
         poll.parent \in Jobs, poll.parent \notin disturbed', Reads(children[poll.parent])
  PROVE  /\ StillReads(children[poll.parent])
         /\ \A i \in 1..Len(poll.seen) : poll'.seen[i] = poll.seen[i]
         /\ Len(poll.seen) \in Nat /\ Len(poll'.seen) = Len(poll.seen) + 1
         /\ poll'.seen[Len(poll.seen) + 1] = status[children[poll.parent][Len(poll.seen) + 1]]
<1> DEFINE c == children[poll.parent]
           n == Len(poll.seen)
           m == Len(poll.left)
<1>t. poll \in Poll
  BY DEF AllTypeOK, ListTypeOK
<1>1. /\ 1 \in 1..m /\ n \in Nat /\ m \in Nat /\ Len(poll'.seen) = n + 1 /\ Len(poll'.left) = m - 1
      /\ poll'.th = poll.th /\ status' = status
      /\ \A i \in 1..n : poll'.seen[i] = poll.seen[i]
      /\ poll'.seen[n + 1] = Sees(poll.left[1])
      /\ \A i \in 1..(m - 1) : poll'.left[i] = poll.left[i + 1]
      /\ status[poll.left[1]] = "timeout" /\ poll.th # None => poll.parent \in disturbed'
  BY <1>t, PollReadDoes
<1>2. /\ Len(c) = n + m
      /\ \A i \in 1..m : poll.left[i] = c[n + i]
      /\ \A i \in 1..n : /\ poll.seen[i] \in Final => poll.seen[i] = status[c[i]]
                         /\ poll.seen[i] # "absent"
                         /\ poll.th # None => poll.seen[i] # "timeout"
  BY DEF Reads
<1>3. \A i \in 1..Len(c) : status[c[i]] # "absent"
  BY UndisturbedKeeps
<1> HIDE DEF c, n, m
<1>4. /\ poll.left[1] = c[n + 1] /\ n + 1 \in 1..Len(c)
      /\ \A i \in 1..(n + 1) : i \in 1..n \/ i = n + 1
      /\ Len(c) = (n + 1) + (m - 1)
  BY <1>1, <1>2
<1>5. poll'.seen[n + 1] = status[c[n + 1]] /\ status[c[n + 1]] # "absent"
  BY <1>1, <1>3, <1>4 DEF Sees
<1>6. poll'.th # None => status[c[n + 1]] # "timeout"
  BY <1>1, <1>4
<1>7. ASSUME NEW i \in 1..(m - 1)  PROVE poll'.left[i] = c[(n + 1) + i]
  <2>1. i + 1 \in 1..m /\ n + (i + 1) = (n + 1) + i
    BY <1>1
  <2> QED  BY <1>1, <1>2, <2>1
<1>8. ASSUME NEW i \in 1..(n + 1)
      PROVE  /\ poll'.seen[i] \in Final => poll'.seen[i] = status'[c[i]]
             /\ poll'.seen[i] # "absent"
             /\ poll'.th # None => poll'.seen[i] # "timeout"
  <2>1. CASE i \in 1..n
    BY <1>1, <1>2, <2>1
  <2>2. CASE i = n + 1
    BY <1>1, <1>5, <1>6, <2>2
  <2> QED  BY <1>4, <2>1, <2>2
<1>9. StillReads(c)
  BY <1>1, <1>4, <1>7, <1>8 DEF StillReads
<1> QED  BY <1>1, <1>5, <1>9 DEF c, n

\* Of a list in two parts, the first is as long as it at most.
LEMMA TwoParts ==
  ASSUME NEW s \in Seq(Moves), NEW r \in Seq(Jobs), NEW k, k = Len(s) + Len(r)
  PROVE  /\ (s = <<>> /\ r = <<>>) \/ k # 0
         /\ \A i \in 1..Len(s) : i \in 1..k
         /\ r = <<>> => k = Len(s)
<1>1. Len(s) \in Nat /\ Len(r) \in Nat /\ (s = <<>> \/ Len(s) # 0) /\ (r = <<>> \/ Len(r) # 0)
  BY EmptySeq
<1>2. r = <<>> => Len(r) = 0
  OBVIOUS
<1> DEFINE n == Len(s)
           m == Len(r)
<1>3. n \in Nat /\ m \in Nat /\ k = n + m /\ (r = <<>> => m = 0)
  BY <1>1, <1>2
<1> HIDE DEF n, m
<1>4. (n # 0 \/ m # 0 => k # 0) /\ (\A i \in 1..n : i \in 1..k) /\ (m = 0 => k = n)
  BY <1>3
<1> QED  BY <1>1, <1>3, <1>4 DEF n, m

\* Reading is inductive.
LEMMA ReadingSteps ==
  ASSUME AllTypeOK, StoreInv, Untagged, Listed, Reading, [FanNext]_allVars
  PROVE  Reading'
<1>t. /\ poll \in Poll /\ poll.left \in Seq(Jobs) /\ poll.seen \in Seq(Moves) /\ poll.parent \in 0..MaxJobs
      /\ children \in [Jobs -> Seq(Jobs)] /\ Jobs = 1..MaxJobs
  BY DEF AllTypeOK, ListTypeOK, Poll, Jobs
<1>n. ASSUME poll' = NoPoll  PROVE Reading'
  BY <1>n DEF Reading, NoPoll
<1>1. CASE poll' = poll
  <2> DEFINE q == poll.parent
  <2> SUFFICES ASSUME q # 0, q \notin disturbed', ~EmptyPoll  PROVE StillReads(children'[q])
    BY <1>1 DEF Reading, EmptyPoll, Reads, StillReads
  <2>1. q \in Jobs
    BY <1>t
  <2>2. /\ q \notin disturbed
        /\ children[q] # <<>> => children'[q] = children[q]
        /\ \A i \in 1..Len(children[q]) :
             status[children[q][i]] \in Final => status'[children[q][i]] = status[children[q][i]]
    BY <2>1, UndisturbedKeeps
  <2>3. Reads(children[q])
    BY <2>2 DEF Reading
  <2>4. children[q] # <<>>
    <3>0. Len(children[q]) = Len(poll.seen) + Len(poll.left)
      BY <2>3 DEF Reads
    <3>1. Len(children[q]) # 0
      BY <1>t, <3>0, TwoParts, Zenon DEF EmptyPoll
    <3>2. Len(<<>>) = 0
      OBVIOUS
    <3> HIDE DEF q
    <3> QED  BY <3>1, <3>2
  <2>5. \A i \in 1..Len(poll.seen) : i \in 1..Len(children[q])
    BY <1>t, <2>3, TwoParts DEF Reads
  <2>6. StillReads(children[q])
    BY <1>1, <2>2, <2>3, <2>5 DEF Reads, StillReads
  <2> QED  BY <2>2, <2>4, <2>6
<1>2. ASSUME NEW p \in Jobs, NEW th \in Thresholds, PollBegin(p, th)  PROVE Reading'
  <2>1. /\ poll' = [parent |-> p, th |-> th, left |-> children[p], seen |-> <<>>]
        /\ children' = children /\ children[p] \in Seq(Jobs)
    BY <1>2, <1>t DEF PollBegin
  <2>2. poll'.parent = p /\ poll'.left = children[p] /\ poll'.seen = <<>> /\ Len(poll'.seen) = 0
    BY <2>1
  <2>3. StillReads(children[p])
    BY <2>1, <2>2 DEF StillReads
  <2> QED  BY <2>1, <2>2, <2>3 DEF Reading, Reads, StillReads
<1>3. CASE PollRead
  <2> DEFINE q == poll.parent
  <2>1. q # 0 /\ poll.left # <<>> /\ poll'.parent = q /\ children' = children
    BY <1>3, <1>t, PollReadDoes
  <2> SUFFICES ASSUME q \notin disturbed'  PROVE StillReads(children[q])
    BY <2>1 DEF Reading, Reads, StillReads
  <2>2. q \in Jobs
    BY <1>t, <2>1
  <2>3. Reads(children[q])
    BY <2>1, DisturbedGrows DEF Reading, EmptyPoll
  <2> QED  BY <1>3, <2>2, <2>3, ReadOn
<1>4. CASE PollEnd \/ RestartAll
  BY <1>n, <1>4 DEF PollEnd, RestartAll
<1> QED  BY <1>1, <1>2, <1>3, <1>4, PollMoves DEF PollDoes

\* What the counts of aggregate_child_statuses say.
LEMMA CountSays ==
  ASSUME NEW seen \in Seq(Moves), NEW S
  PROVE  /\ Count(seen, S) \in Nat
         /\ Count(seen, S) > 0 <=> \E i \in 1..Len(seen) : seen[i] \in S
         /\ Count(seen, S) = Len(seen) => \A i \in 1..Len(seen) : seen[i] \in S
<1> DEFINE n == Len(seen)
           T == {i \in 1..n : seen[i] \in S}
<1>1. Count(seen, S) = Cardinality(T) /\ n \in Nat
  <2>1. DOMAIN seen = 1..n /\ n \in Nat
    OBVIOUS
  <2>2. {i \in DOMAIN seen : seen[i] \in S} = T
    BY <2>1
  <2> QED  BY <2>1, <2>2 DEF Count
<1>2. IsFiniteSet(1..n) /\ Cardinality(1..n) = n
  <2> HIDE DEF n
  <2> QED  BY <1>1, FS_Interval
<1>3. T \subseteq 1..n
  OBVIOUS
<1>4. (\E i \in 1..n : seen[i] \in S) <=> T # {}
  OBVIOUS
<1>5. 1..n = T => \A i \in 1..n : seen[i] \in S
  OBVIOUS
<1> HIDE DEF T, n
<1>6. IsFiniteSet(T) /\ (Cardinality(T) = n => 1..n = T)
  BY <1>2, <1>3, FS_Subset
<1>7. Cardinality(T) \in Nat /\ (Cardinality(T) = 0 <=> T = {})
  BY <1>6, FS_CardinalityType, FS_EmptySet
<1>8. /\ Cardinality(T) > 0 <=> \E i \in 1..n : seen[i] \in S
      /\ Cardinality(T) = n => \A i \in 1..n : seen[i] \in S
  BY <1>4, <1>5, <1>6, <1>7
<1> QED  BY <1>1, <1>7, <1>8 DEF n

\* A final verdict comes of a failed child or of children that are all final.
LEMMA AggregateFinal ==
  ASSUME NEW seen \in Seq(Moves), NEW th \in Thresholds \cup {None}, Aggregate(seen, th) \in Final,
         \A i \in 1..Len(seen) : /\ seen[i] # "absent"
                                 /\ th # None => seen[i] # "timeout"
  PROVE  /\ seen # <<>>
         /\ \/ /\ th = None /\ Aggregate(seen, th) = "failed"
               /\ \E i \in 1..Len(seen) : seen[i] = "failed"
            \/ \A i \in 1..Len(seen) : seen[i] \in Final
<1>1. seen # <<>>
  BY DEF Aggregate, Final
<1>2. ASSUME th = None, Count(seen, {"failed"}) > 0
      PROVE  Aggregate(seen, th) = "failed" /\ \E i \in 1..Len(seen) : seen[i] = "failed"
  <2>1. \E i \in 1..Len(seen) : seen[i] = "failed"
    BY <1>2, CountSays
  <2> QED  BY <1>1, <1>2, <2>1 DEF Aggregate
<1>3. ASSUME th = None, ~(Count(seen, {"failed"}) > 0)
      PROVE  \A i \in 1..Len(seen) : seen[i] \in Final
  <2>1. Count(seen, {"succeeded"}) = Len(seen)
    BY <1>1, <1>3 DEF Aggregate, Final
  <2> QED  BY <2>1, CountSays DEF Final
<1>4. ASSUME th # None  PROVE \A i \in 1..Len(seen) : seen[i] \in Final
  <2>1. ~(Count(seen, Active) > 0)
    BY <1>1, <1>4 DEF Aggregate, Final
  <2>2. \A i \in 1..Len(seen) : seen[i] \notin Active
    BY <2>1, CountSays
  <2>3. \A i \in 1..Len(seen) : seen[i] \in Moves
    OBVIOUS
  <2> QED  BY <1>4, <2>2, <2>3 DEF Active, Moves, Final
<1> QED  BY <1>1, <1>2, <1>3, <1>4

\* Without a threshold one failed child decides.
LEMMA OneFailureFails ==
  ASSUME NEW seen \in Seq(Moves), NEW i \in 1..Len(seen), seen[i] = "failed"
  PROVE  Aggregate(seen, None) = "failed"
<1>1. Count(seen, {"failed"}) > 0
  BY CountSays
<1>2. seen # <<>>
  OBVIOUS
<1> QED  BY <1>1, <1>2 DEF Aggregate

\* A list of the right length and elements is the list of statuses.
LEMMA SeenIsStatuses ==
  ASSUME NEW p \in Jobs, NEW seen \in Seq(Moves), Len(seen) = Len(children[p]),
         \A i \in 1..Len(seen) : seen[i] = status[children[p][i]]
  PROVE  seen = Statuses(p)
<1>1. seen = [i \in 1..Len(seen) |-> seen[i]]
  OBVIOUS
<1> QED  BY <1>1 DEF Statuses

\* Fixed and Stands after a step.
StillFixed(p, i) == LET j == children'[p][i] IN
  /\ status'[j] \in Final
  /\ poll'.parent = p /\ i <= Len(poll'.seen) => poll'.seen[i] = status'[j]
StillStands(p) ==
  LET n == Len(children'[p]) IN
  /\ p \in Jobs /\ children'[p] # <<>>
  /\ poll'.parent = p => ~(poll'.left = <<>> /\ poll'.seen = <<>>)
  /\ \/ /\ verdict'.th = None /\ verdict'.is = "failed"
        /\ \E i \in 1..n : StillFixed(p, i) /\ status'[children'[p][i]] = "failed"
     \/ /\ \A i \in 1..n : StillFixed(p, i)
        /\ verdict'.is = Aggregate([i \in 1..n |-> status'[children'[p][i]]], verdict'.th)

\* They are Fixed and Stands, primed.
LEMMA StandsAfter ==
  ASSUME verdict'.is \in Final /\ verdict'.parent \notin disturbed' => StillStands(verdict'.parent)
  PROVE  Stands'
BY DEF Stands, StillStands, Fixed, StillFixed, EmptyPoll, Statuses

\* The step that gives a verdict: it rests on what the poll has read.
LEMMA VerdictGiven ==
  ASSUME AllTypeOK, StoreInv, Untagged, Listed, Reading, [FanNext]_allVars, PollEnd
  PROVE  Stands'
<1> DEFINE p == poll.parent
           c == children[p]
           n == Len(c)
<1>t. /\ poll \in Poll /\ poll.left \in Seq(Jobs) /\ poll.seen \in Seq(Moves) /\ p \in 0..MaxJobs
      /\ poll.th \in Thresholds \cup {None} /\ children \in [Jobs -> Seq(Jobs)] /\ Jobs = 1..MaxJobs
  BY DEF AllTypeOK, ListTypeOK, Poll, Jobs
<1>1. /\ p # 0 /\ poll.left = <<>> /\ poll' = NoPoll
      /\ verdict' = [parent |-> p, th |-> poll.th, is |-> Aggregate(poll.seen, poll.th)]
      /\ children' = children /\ status' = status /\ disturbed' = disturbed
  BY DEF PollEnd, submitVars
<1>2. p \in Jobs /\ poll'.parent # p
  BY <1>1, <1>t DEF NoPoll
<1>3. verdict'.parent = p /\ verdict'.th = poll.th /\ verdict'.is = Aggregate(poll.seen, poll.th)
  BY <1>1
<1> SUFFICES ASSUME Aggregate(poll.seen, poll.th) \in Final, p \notin disturbed
             PROVE  /\ c # <<>>
                    /\ \/ /\ poll.th = None /\ Aggregate(poll.seen, poll.th) = "failed"
                          /\ \E i \in 1..n : status[c[i]] = "failed"
                       \/ /\ \A i \in 1..n : status[c[i]] \in Final
                          /\ poll.seen = Statuses(p)
  <2>1. children'[p] = c /\ [i \in 1..Len(children'[p]) |-> status'[children'[p][i]]] = Statuses(p)
    BY <1>1 DEF Statuses
  <2>2. \A i \in 1..n : status[c[i]] \in Final => StillFixed(p, i)
    BY <1>1, <1>2 DEF StillFixed
  <2>3. "failed" \in Final
    BY DEF Final
  <2> HIDE DEF p
  <2>4. verdict'.is \in Final /\ p \notin disturbed' => StillStands(p)
    BY <1>1, <1>2, <1>3, <2>1, <2>2, <2>3 DEF StillStands, c, n
  <2> QED  BY <1>3, <2>4, StandsAfter
<1>4. poll.seen # <<>>
  BY DEF Aggregate, Final
<1>5. Reads(c)
  BY <1>1, <1>4 DEF Reading, EmptyPoll
<1>6. Len(poll.seen) = n
  BY <1>1, <1>5, <1>t, TwoParts DEF Reads
<1>7. \A i \in 1..Len(poll.seen) :
        /\ poll.seen[i] \in Final => poll.seen[i] = status[c[i]]
        /\ poll.seen[i] # "absent"
        /\ poll.th # None => poll.seen[i] # "timeout"
  BY <1>5 DEF Reads
<1>8. \/ /\ poll.th = None /\ Aggregate(poll.seen, poll.th) = "failed"
         /\ \E i \in 1..Len(poll.seen) : poll.seen[i] = "failed"
      \/ \A i \in 1..Len(poll.seen) : poll.seen[i] \in Final
  BY <1>7, <1>t, AggregateFinal
<1>9. c # <<>>
  <2>1. n # 0 /\ Len(<<>>) = 0
    BY <1>4, <1>6, <1>t, EmptySeq
  <2> QED  BY <2>1
<1> HIDE DEF p
<1>10. CASE /\ poll.th = None /\ Aggregate(poll.seen, poll.th) = "failed"
            /\ \E i \in 1..Len(poll.seen) : poll.seen[i] = "failed"
  BY <1>6, <1>7, <1>9, <1>10 DEF Final
<1>11. CASE \A i \in 1..Len(poll.seen) : poll.seen[i] \in Final
  <2>1. \A i \in 1..Len(poll.seen) : poll.seen[i] = status[c[i]]
    BY <1>7, <1>11
  <2>2. poll.seen = Statuses(p)
    BY <1>2, <1>6, <1>t, <2>1, SeenIsStatuses
  <2> QED  BY <1>6, <1>9, <1>11, <2>1, <2>2
<1> QED  BY <1>8, <1>10, <1>11

\* A verdict that stands goes on standing while no other is given.
LEMMA VerdictKept ==
  ASSUME AllTypeOK, StoreInv, Untagged, Listed, Reading, Stands, [FanNext]_allVars, verdict' = verdict
  PROVE  Stands'
<1> DEFINE p == verdict.parent
           c == children[p]
           n == Len(c)
<1> SUFFICES ASSUME verdict.is \in Final, p \notin disturbed'  PROVE StillStands(p)
  BY StandsAfter
<1>t. poll \in Poll /\ children \in [Jobs -> Seq(Jobs)]
  BY DEF AllTypeOK, ListTypeOK
<1>d. p \notin disturbed
  BY DisturbedGrows
<1>1. /\ p \in Jobs /\ c # <<>>
      /\ poll.parent = p => ~EmptyPoll
      /\ \/ /\ verdict.th = None /\ verdict.is = "failed"
            /\ \E i \in 1..n : Fixed(p, i) /\ status[c[i]] = "failed"
         \/ (\A i \in 1..n : Fixed(p, i)) /\ verdict.is = Aggregate(Statuses(p), verdict.th)
  BY <1>d DEF Stands
<1>2. /\ children'[p] = c
      /\ \A i \in 1..n : status[c[i]] \in Final => status'[c[i]] = status[c[i]]
  BY <1>1, UndisturbedKeeps
<1>3. poll.parent = p => Reads(c)
  BY <1>1, <1>d DEF Reading, Jobs
<1> HIDE DEF p
<1>4. ASSUME NEW i \in 1..n, Fixed(p, i)
      PROVE  /\ status'[c[i]] = status[c[i]] /\ status[c[i]] \in Final
             /\ poll'.parent = p /\ i <= Len(poll'.seen) => poll'.seen[i] = status'[c[i]]
  <2>1. status'[c[i]] = status[c[i]] /\ status[c[i]] \in Final
    BY <1>2, <1>4 DEF Fixed
  <2>2. poll.parent = p /\ i <= Len(poll.seen) => poll.seen[i] = status[c[i]]
    BY <1>4 DEF Fixed
  <2>3. CASE poll' = poll
    BY <2>1, <2>2, <2>3
  <2>4. CASE \E q \in Jobs : \E th \in Thresholds : PollBegin(q, th)
    <3>1. poll'.seen = <<>> /\ Len(poll'.seen) = 0
      BY <2>4 DEF PollBegin
    <3>2. n \in Nat /\ ~(i <= 0)
      BY <1>1, <1>t
    <3> QED  BY <2>1, <3>1, <3>2
  <2>5. CASE PollRead
    <3>1. poll'.parent = poll.parent
      BY <1>t, <2>5, PollReadDoes
    <3>2. ASSUME poll.parent = p, i <= Len(poll'.seen)  PROVE poll'.seen[i] = status[c[i]]
      <4>1. /\ \A k \in 1..Len(poll.seen) : poll'.seen[k] = poll.seen[k]
            /\ Len(poll.seen) \in Nat /\ Len(poll'.seen) = Len(poll.seen) + 1
            /\ poll'.seen[Len(poll.seen) + 1] = status[c[Len(poll.seen) + 1]]
        BY <1>1, <1>3, <2>5, <3>2, ReadOn DEF p
      <4>2. n \in Nat
        BY <1>1, <1>t
      <4>3. i \in 1..Len(poll.seen) \/ i = Len(poll.seen) + 1
        BY <3>2, <4>1, <4>2
      <4>4. i \in 1..Len(poll.seen) => i <= Len(poll.seen)
        BY <4>1
      <4> QED  BY <2>2, <3>2, <4>1, <4>3, <4>4
    <3> QED  BY <2>1, <3>1, <3>2
  <2>6. CASE PollEnd \/ RestartAll
    <3>1. poll'.parent = 0 /\ 0 \notin Jobs
      BY <2>6 DEF PollEnd, RestartAll, NoPoll, Jobs
    <3> QED  BY <1>1, <2>1, <3>1
  <2> QED  BY <2>3, <2>4, <2>5, <2>6, PollMoves DEF PollDoes
<1>5. ASSUME poll'.parent = p  PROVE ~(poll'.left = <<>> /\ poll'.seen = <<>>)
  <2>1. CASE poll' = poll
    BY <1>1, <1>5, <2>1 DEF EmptyPoll
  <2>2. CASE \E q \in Jobs : \E th \in Thresholds : PollBegin(q, th)
    <3>1. poll'.left = c
      BY <1>5, <2>2 DEF PollBegin
    <3> QED  BY <1>1, <3>1
  <2>3. CASE PollRead
    <3>1. Len(poll'.seen) = Len(poll.seen) + 1 /\ Len(poll.seen) \in Nat
      BY <1>t, <2>3, PollReadDoes
    <3>2. Len(<<>>) = 0
      OBVIOUS
    <3>3. Len(poll'.seen) # 0
      BY <3>1
    <3> QED  BY <3>2, <3>3
  <2>4. CASE PollEnd \/ RestartAll
    <3>1. poll'.parent = 0 /\ 0 \notin Jobs
      BY <2>4 DEF PollEnd, RestartAll, NoPoll, Jobs
    <3> QED  BY <1>1, <1>5, <3>1
  <2> QED  BY <2>1, <2>2, <2>3, <2>4, PollMoves DEF PollDoes
<1>6. \A i \in 1..n : Fixed(p, i) => StillFixed(p, i) /\ status'[c[i]] = status[c[i]]
  BY <1>2, <1>4 DEF StillFixed
<1>7. (\A i \in 1..n : Fixed(p, i)) => [i \in 1..n |-> status'[c[i]]] = Statuses(p)
  BY <1>6 DEF Statuses
<1> HIDE DEF c
<1> QED  BY <1>1, <1>2, <1>5, <1>6, <1>7 DEF StillStands, n

\* The verdict of the next poll with the same threshold.
LEMMA SameVerdict ==
  ASSUME AllTypeOK, Reading, Stands, PollEnd, verdict.is \in Final, verdict.parent \notin disturbed,
         verdict'.parent = verdict.parent, verdict'.th = verdict.th
  PROVE  verdict'.is = verdict.is
<1> DEFINE p == verdict.parent
           c == children[p]
           n == Len(c)
<1>t. poll.left \in Seq(Jobs) /\ poll.seen \in Seq(Moves)
  BY DEF AllTypeOK, ListTypeOK, Poll
<1>1. /\ poll.parent = p /\ poll.th = verdict.th /\ verdict'.is = Aggregate(poll.seen, verdict.th)
      /\ poll.left = <<>> /\ p # 0
  BY DEF PollEnd
<1>2. /\ p \in Jobs /\ ~EmptyPoll
      /\ \/ /\ verdict.th = None /\ verdict.is = "failed"
            /\ \E i \in 1..n : Fixed(p, i) /\ status[c[i]] = "failed"
         \/ (\A i \in 1..n : Fixed(p, i)) /\ verdict.is = Aggregate(Statuses(p), verdict.th)
  BY <1>1 DEF Stands
<1>3. Reads(c)
  BY <1>1, <1>2 DEF Reading
<1>4. Len(poll.seen) = n /\ n \in Nat
  BY <1>1, <1>3, <1>t, TwoParts DEF Reads
<1>5. ASSUME NEW i \in 1..n, Fixed(p, i)  PROVE poll.seen[i] = status[c[i]]
  <2>1. i <= Len(poll.seen)
    BY <1>4
  <2> QED  BY <1>1, <1>5, <2>1 DEF Fixed
<1> HIDE DEF p
<1>6. ASSUME verdict.th = None, verdict.is = "failed", NEW i \in 1..n, Fixed(p, i), status[c[i]] = "failed"
      PROVE  verdict'.is = verdict.is
  <2>1. i \in 1..Len(poll.seen) /\ poll.seen[i] = "failed"
    BY <1>4, <1>5, <1>6
  <2> QED  BY <1>1, <1>6, <1>t, <2>1, OneFailureFails
<1>7. ASSUME \A i \in 1..n : Fixed(p, i), verdict.is = Aggregate(Statuses(p), verdict.th)
      PROVE  verdict'.is = verdict.is
  <2>1. \A i \in 1..Len(poll.seen) : poll.seen[i] = status[c[i]]
    BY <1>4, <1>5, <1>7
  <2>2. poll.seen = Statuses(p)
    BY <1>2, <1>4, <1>t, <2>1, SeenIsStatuses
  <2> QED  BY <1>1, <1>7, <2>2
<1> QED  BY <1>2, <1>6, <1>7

\* The invariants hold at the start.
LEMMA StartStands == ASSUME FanInit  PROVE FanInv /\ StoreInv /\ Reading /\ Stands
<1> USE DEF FanInit, SubmitInit
<1>1. Untagged /\ SuccessKept /\ Polled /\ Reading
  BY DEF Untagged, SuccessKept, Polled, Reading, NoPoll
<1>2. Listed /\ \A t \in Threads : Gathering(t)
  BY DEF Listed, ListOf, Gathering, NoFan
<1>3. Fresh /\ (\A t \in Threads : Pending(t)) /\ \A t \in Threads : OneFan(t)
  BY DEF Fresh, Pending, OneFan, NoFan
<1>7. \A j \in Jobs : Hands(j)
  BY DEF Hands, Free, NoWork, Jobs
<1>4. Lists
  BY DEF Lists, Stored, NoFan
<1>5. Marks
  BY DEF Marks
<1>6. Stands
  <2>1. verdict.is = None
    BY DEF NoVerdict
  <2> QED  BY <2>1, NoneAssumption DEF NoneAssumption, Stands, Final, Moves
<1> QED  BY <1>1, <1>2, <1>3, <1>4, <1>5, <1>6, <1>7 DEF FanInv, StoreInv

\* A final verdict of aggregate_parent_status is repeated by every later call
\* with the same threshold, for any number of children, threads and polls,
\* unless the parent was disturbed in one of the ways VerdictStands names.
THEOREM VerdictsStand == FanSpec => VerdictStands
<1> DEFINE Inv == FanInv /\ StoreInv /\ Reading /\ Stands
           Same == /\ verdict.is \in {"succeeded", "failed"}
                   /\ verdict'.parent = verdict.parent /\ verdict'.th = verdict.th
                   /\ verdict.parent \notin disturbed
                   => verdict'.is = verdict.is
<1>1. FanInit => Inv
  BY StartStands
<1>2. ASSUME AllTypeOK, Inv, [FanNext]_allVars  PROVE Inv' /\ [Same]_allVars
  <2>1. FanInv' /\ StoreInv' /\ Untagged /\ Listed
    BY <1>2, FanSteps, StoreSteps DEF FanInv
  <2>2. Reading'
    BY <1>2, <2>1, ReadingSteps
  <2>3. Stands'
    BY <1>2, <2>1, VerdictGiven, VerdictKept, PollMoves
  <2>4. Same
    BY <1>2, SameVerdict, PollMoves DEF Final
  <2> QED  BY <2>1, <2>2, <2>3, <2>4
<1>3. AllTypeOK /\ Inv /\ [FanNext]_allVars => Inv' /\ [Same]_allVars
  BY <1>2
<1> HIDE DEF Inv
<1> QED
  BY AllTypes, <1>1, <1>3, PTL DEF FanSpec, VerdictStands, Same
=============================================================================
