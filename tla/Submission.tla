----------------------------- MODULE Submission -----------------------------
(***************************************************************************)
(* JobQueue.submit (queue.py) with its IdempotencyManager                  *)
(* (idempotency/manager.py), called by several threads (submit_async hands *)
(* each call to one).  The manager has no lock: the clock is read, the     *)
(* entry is looked up and the new entry is stored in three steps, and the  *)
(* job is enqueued in a fourth, which may raise.  A submission without a   *)
(* key goes to the fourth at once.  The entries die with the process; the  *)
(* backend, here one step per method, does not.                            *)
(***************************************************************************)
EXTENDS Naturals, FiniteSets, Sequences

CONSTANTS
  Threads, Keys,
  MaxJobs,       \* bound on the ids that uuid4 gives out: 1..MaxJobs
  Ttl,           \* ttl_seconds
  MaxNow,        \* bound on the clock
  MaxRestarts,   \* bound on restarts of the process
  None

ASSUME SubmissionAssumption ==
  /\ MaxJobs \in Nat /\ Ttl \in Nat \ {0} /\ MaxNow \in Nat \ {0} /\ MaxRestarts \in Nat
  /\ None \notin Keys

Jobs == 1..MaxJobs

VARIABLES
  clock, restarts,
  ids,       \* how many ids were given out
  entries,   \* IdempotencyManager._entries
  status,    \* the backend: the status of each job, "absent" before enqueue
  pc, cur, key, now,   \* of each thread: its step, its job, its key, its time
  born,      \* history: the time read and the key of each job registered
  raced,     \* history: jobs whose lookup ran between another's and its entry
  answered,  \* history: <<key, id>> returned for duplicates
  failed     \* history: jobs whose submission raised or died

manager == <<ids, entries, born, raced, answered>>
threadVars == <<pc, cur, key, now>>
submitVars == <<clock, restarts, manager, status, threadVars, failed>>

Unborn == [key |-> None, at |-> 0]
NoEntry == [job |-> 0, expires |-> 0]

SubmitInit ==
  /\ clock = 1 /\ restarts = 0 /\ ids = 0
  /\ entries = [k \in Keys |-> NoEntry]
  /\ status = [j \in Jobs |-> "absent"]
  /\ pc = [t \in Threads |-> "idle"]
  /\ cur = [t \in Threads |-> 0]
  /\ key = [t \in Threads |-> None]
  /\ now = [t \in Threads |-> 0]
  /\ born = [j \in Jobs |-> Unborn]
  /\ raced = {} /\ answered = {} /\ failed = {}

Tick == clock < MaxNow /\ clock' = clock + 1
        /\ UNCHANGED <<restarts, manager, status, threadVars, failed>>

Enter(t, label, j, k, n) ==
  /\ pc' = [pc EXCEPT ![t] = label] /\ cur' = [cur EXCEPT ![t] = j]
  /\ key' = [key EXCEPT ![t] = k] /\ now' = [now EXCEPT ![t] = n]

Return(t) == Enter(t, "idle", 0, None, 0)
-----------------------------------------------------------------------------
\* Job.from_request, and time.time() of register_or_get.
Begin(t, k) ==
  /\ pc[t] = "idle" /\ ids < MaxJobs
  /\ ids' = ids + 1
  /\ Enter(t, IF k = None THEN "enqueue" ELSE "get", ids + 1, k, IF k = None THEN 0 ELSE clock)
  /\ UNCHANGED <<clock, restarts, entries, status, born, raced, answered, failed>>

\* The test with the new expiry in place of the stored one.
ValidEarly(e, n) == e.job # 0 /\ e.expires > n + Ttl

Valid(e, n) == e.job # 0 /\ e.expires > n

\* submit that returns the id it made for itself.
DeduplicatedOwn(t) ==
  /\ pc[t] = "get"
  /\ Valid(entries[key[t]], now[t])
  /\ answered' = answered \cup {<<key[t], cur[t]>>}
  /\ Return(t)
  /\ UNCHANGED <<clock, restarts, ids, entries, born, raced, status, failed>>

Deduplicated(t) ==
  /\ pc[t] = "get"
  /\ Valid(entries[key[t]], now[t])
  /\ answered' = answered \cup {<<key[t], entries[key[t]].job>>}
  /\ Return(t)
  /\ UNCHANGED <<clock, restarts, ids, entries, born, raced, status, failed>>

Lookup(t) == LET others == {u \in Threads \ {t} : pc[u] = "set" /\ key[u] = key[t]} IN
  /\ pc[t] = "get"
  /\ ~Valid(entries[key[t]], now[t])
  /\ raced' = IF others = {} THEN raced ELSE raced \cup {cur[u] : u \in others \cup {t}}
  /\ pc' = [pc EXCEPT ![t] = "set"]
  /\ UNCHANGED <<clock, restarts, ids, entries, born, answered, status, cur, key, now, failed>>

Store(t) ==
  /\ pc[t] = "set"
  /\ entries' = [entries EXCEPT ![key[t]] = [job |-> cur[t], expires |-> now[t] + Ttl]]
  /\ born' = [born EXCEPT ![cur[t]] = [key |-> key[t], at |-> now[t]]]
  /\ pc' = [pc EXCEPT ![t] = "enqueue"]
  /\ UNCHANGED <<clock, restarts, ids, raced, answered, status, cur, key, now, failed>>

Enqueue(t) ==
  /\ pc[t] = "enqueue"
  /\ status' = [status EXCEPT ![cur[t]] = "queued"]
  /\ Return(t)
  /\ UNCHANGED <<clock, restarts, manager, failed>>

\* validate_and_register or the backend's enqueue raises.
Raise(t) ==
  /\ pc[t] = "enqueue"
  /\ failed' = failed \cup {cur[t]}
  /\ Return(t)
  /\ UNCHANGED <<clock, restarts, manager, status>>

\* The process ends, with its threads and its entries, and is started again.
Restart ==
  /\ restarts < MaxRestarts
  /\ restarts' = restarts + 1
  /\ entries' = [k \in Keys |-> NoEntry]
  /\ born' = [j \in Jobs |-> Unborn]
  /\ failed' = failed \cup {cur[t] : t \in {u \in Threads : pc[u] # "idle"}}
  /\ pc' = [t \in Threads |-> "idle"] /\ cur' = [t \in Threads |-> 0]
  /\ key' = [t \in Threads |-> None] /\ now' = [t \in Threads |-> 0]
  /\ UNCHANGED <<clock, ids, raced, answered, status>>
-----------------------------------------------------------------------------
\* Properties.

\* Within the TTL of a key one job is stored for it, in one life of the
\* process, unless two lookups of the key overlapped: neither a clock read
\* early nor an entry that replaces an expired one opens a second window.
OneJobPerWindow ==
  \A i, j \in Jobs \ raced :
    /\ i < j /\ status[i] # "absent" /\ status[j] # "absent"
    /\ born[i].key # None /\ born[i].key = born[j].key
    => born[i].at + Ttl <= born[j].at \/ born[j].at + Ttl <= born[i].at

\* The id a duplicate gets names a job that is stored or being submitted; the
\* only other case is a submission that raised, whose key stays taken.
AnswersNameJobs ==
  \A a \in answered :
    \/ status[a[2]] # "absent"
    \/ \E t \in Threads : pc[t] = "enqueue" /\ cur[t] = a[2] /\ key[t] = a[1]
    \/ a[2] \in failed
=============================================================================
