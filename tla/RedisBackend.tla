---------------------------- MODULE RedisBackend ----------------------------
(***************************************************************************)
(* backends/redis_backend.py under worker processes, API processes that    *)
(* submit and administer, and a maintenance loop that calls                *)
(* reap_expired_leases.  A Redis command, or a Lua script, is one step; a  *)
(* method of several commands is several steps and the clients interleave  *)
(* between them.                                                           *)
(*                                                                         *)
(* Timestamps, payload and meta are left out.  The TTL of a lease is not   *)
(* counted: a lease may run out at any time, also under a live worker,     *)
(* because Worker sends one heartbeat before its handler starts and none   *)
(* after that.  A job hash is never deleted, so the exists and get calls   *)
(* that guard update_status and release find it and are part of the next   *)
(* command.                                                                *)
(***************************************************************************)
EXTENDS Naturals, Sequences, JobStates

CONSTANTS
  Jobs, None,
  Priority,    \* the priority of each job
  Workers, Callers, Reapers,   \* client processes by what they do
  Crashing,    \* the clients that may die in the middle of a method
  CallerOps,   \* what callers do: "enqueue", "cancel", "retry", "update"
  Outcomes,    \* the statuses a finished handler leads to
  MaxEpisode   \* bound: how often a job may be put in the queue

Clients == Workers \cup Callers \cup Reapers

ASSUME RedisConstants ==
  /\ Priority \in [Jobs -> Nat]
  /\ Crashing \subseteq Clients
  /\ CallerOps \subseteq {"enqueue", "cancel", "retry", "update"}
  /\ Outcomes \subseteq {"succeeded", "failed", "retry_wait"}
  /\ MaxEpisode \in Nat
  /\ None \notin Workers \cup Jobs
  /\ Workers \cap (Callers \cup Reapers) = {}

VARIABLES
  status,       \* field status of each job hash, "absent" without a hash
  claimed_by,   \* field claimed_by
  zset,         \* the queue's sorted set, best score first
  lease,        \* the value of each lease key, None when it does not exist
  pc, cur,      \* the command each client sends next, and for which job
  ids,          \* what zrevrange returned to a worker
  target,       \* the status argument of update_status
  episode,      \* history: how many times the job was set to queued
  claimEp,      \* history: the episode a worker's claim is for
  expired       \* history: the claims whose lease ran out

store == <<status, claimed_by, zset, lease, episode, expired>>
clients == <<pc, cur, ids, target, claimEp>>
vars == <<store, clients>>

PC == {"idle", "enq_zadd", "get", "claim", "running", "us_hset", "us_zrem", "us_delete",
       "reap_exists", "rel_hset", "rel_zadd", "rel_delete"}

KeysTypeOK ==
  /\ status \in [Jobs -> JobStatus \cup {"absent"}]
  /\ claimed_by \in [Jobs -> Workers \cup {None}]
  /\ lease \in [Jobs -> Workers \cup {None}]
  /\ episode \in [Jobs -> Nat]
  /\ expired \in SUBSET (Jobs \X Nat)

ClientsTypeOK ==
  /\ pc \in [Clients -> PC]
  /\ cur \in [Clients -> Jobs \cup {None}]
  /\ \A c \in Clients : pc[c] \notin {"idle", "get"} => cur[c] \in Jobs
  /\ target \in [Clients -> JobStatus \cup {None}]
  /\ \A c \in Clients : pc[c] \in {"us_hset", "us_zrem", "us_delete"} => target[c] \in JobStatus
  /\ claimEp \in [Workers -> Nat]

TypeOK == /\ KeysTypeOK
          /\ ClientsTypeOK
          /\ zset \in Seq(Jobs)
          /\ ids \in [Workers -> Seq(Jobs)]

Init ==
  /\ status = [j \in Jobs |-> "absent"]
  /\ claimed_by = [j \in Jobs |-> None]
  /\ zset = <<>>
  /\ lease = [j \in Jobs |-> None]
  /\ pc = [c \in Clients |-> "idle"]
  /\ cur = [c \in Clients |-> None]
  /\ ids = [w \in Workers |-> <<>>]
  /\ target = [c \in Clients |-> None]
  /\ episode = [j \in Jobs |-> 0]
  /\ claimEp = [w \in Workers |-> 0]
  /\ expired = {}

Goto(c, label) == pc' = [pc EXCEPT ![c] = label]
Continue(c, label) == Goto(c, label) /\ UNCHANGED <<cur, ids, target, claimEp>>

\* A method begins, or the client's last one is over.
Start(c, j, s, label) ==
  /\ Goto(c, label)
  /\ cur' = [cur EXCEPT ![c] = j]
  /\ target' = [target EXCEPT ![c] = s]
Done(c) ==
  /\ Start(c, None, None, "idle")
  /\ ids' = IF c \in Workers THEN [ids EXCEPT ![c] = <<>>] ELSE ids
  /\ claimEp' = IF c \in Workers THEN [claimEp EXCEPT ![c] = 0] ELSE claimEp

-----------------------------------------------------------------------------
\* Commands.

\* A sorted set has a member once.
Without(s, j) ==
  IF \E i \in 1 .. Len(s) : s[i] = j
  THEN LET at == CHOOSE i \in 1 .. Len(s) : s[i] = j
       IN  SubSeq(s, 1, at - 1) \o SubSeq(s, at + 1, Len(s))
  ELSE s

\* zadd with priority * 10^10 - now: behind every member of the same or a
\* higher priority, in front of the others; a member moves to its new place.
zadd(j) == LET s == Without(zset, j) IN
  \E n \in 0 .. Len(s) :
    /\ \A i \in 1 .. n : Priority[s[i]] >= Priority[j]
    /\ \A i \in n + 1 .. Len(s) : Priority[s[i]] < Priority[j]
    /\ zset' = SubSeq(s, 1, n) \o <<j>> \o SubSeq(s, n + 1, Len(s))

zrem(j) == zset' = Without(zset, j)

hset_status(j, s) ==
  /\ status' = [status EXCEPT ![j] = s]
  /\ episode' = IF s = "queued" THEN [episode EXCEPT ![j] = @ + 1] ELSE episode

delete_lease(j) == lease' = [lease EXCEPT ![j] = None]

\* The lease key's TTL, which claim and heartbeat set, runs out: Redis itself
\* removes the key.
LeaseExpires(j) ==
  /\ lease[j] # None
  /\ delete_lease(j)
  /\ expired' = expired \cup {<<j, episode[j]>>}
  /\ UNCHANGED <<status, claimed_by, zset, episode, clients>>

-----------------------------------------------------------------------------
\* enqueue.

EnqueueHset(c, j) ==
  /\ pc[c] = "idle" /\ "enqueue" \in CallerOps
  /\ status[j] = "absent"
  /\ hset_status(j, "queued")
  /\ Start(c, j, None, "enq_zadd")
  /\ UNCHANGED <<claimed_by, zset, lease, expired, ids, claimEp>>

EnqueueZadd(c) ==
  /\ pc[c] = "enq_zadd"
  /\ zadd(cur[c])
  /\ Done(c)
  /\ UNCHANGED <<status, claimed_by, lease, episode, expired>>

-----------------------------------------------------------------------------
\* Worker.run_once: dequeue(1), claim, the handler, update_status.

Window == 3   \* limit * 3 with limit = 1

Dequeue(w) ==
  /\ pc[w] = "idle"
  /\ ids' = [ids EXCEPT ![w] = SubSeq(zset, 1, IF Len(zset) < Window THEN Len(zset) ELSE Window)]
  /\ Goto(w, "get")
  /\ UNCHANGED <<store, cur, target, claimEp>>

\* get for the next id: the first one found queued ends the loop.
DequeueGet(w, j) ==
  /\ pc[w] = "get" /\ ids[w] # <<>> /\ j = Head(ids[w])
  /\ IF status[j] = "queued"
     THEN /\ Start(w, j, None, "claim")
          /\ UNCHANGED ids
     ELSE /\ ids' = [ids EXCEPT ![w] = Tail(@)]
          /\ UNCHANGED <<pc, cur, target>>
  /\ UNCHANGED <<store, claimEp>>

DequeueEmpty(w) ==
  /\ pc[w] = "get" /\ ids[w] = <<>>
  /\ Done(w)
  /\ UNCHANGED store

\* The claim script without its SET of the lease key.
ClaimWithoutLease(w, j) ==
  /\ status' = [status EXCEPT ![j] = "running"]
  /\ claimed_by' = [claimed_by EXCEPT ![j] = w]
  /\ zrem(j)
  /\ UNCHANGED <<lease, episode, expired>>

\* The claim script with its arguments swapped.
ClaimSwapped(w, j) ==
  /\ status' = [status EXCEPT ![j] = "running"]
  /\ claimed_by' = [claimed_by EXCEPT ![j] = j]
  /\ zrem(j)
  /\ lease' = [lease EXCEPT ![j] = w]
  /\ UNCHANGED <<episode, expired>>

\* The claim script on the server, past its status test.
ClaimLua(w, j) ==
  /\ status' = [status EXCEPT ![j] = "running"]
  /\ claimed_by' = [claimed_by EXCEPT ![j] = w]
  /\ zrem(j)
  /\ lease' = [lease EXCEPT ![j] = w]
  /\ UNCHANGED <<episode, expired>>

\* claim without the status test in the script.
ClaimUntested(w) ==
  /\ pc[w] = "claim"
  /\ ClaimLua(w, cur[w])
  /\ Goto(w, "running")
  /\ claimEp' = [claimEp EXCEPT ![w] = episode[cur[w]]]
  /\ UNCHANGED <<cur, ids, target>>

ClaimWon(w) ==
  /\ pc[w] = "claim"
  /\ status[cur[w]] = "queued"
  /\ ClaimLua(w, cur[w])
  /\ Goto(w, "running")
  /\ claimEp' = [claimEp EXCEPT ![w] = episode[cur[w]]]
  /\ UNCHANGED <<cur, ids, target>>

ClaimLost(w) ==
  /\ pc[w] = "claim"
  /\ status[cur[w]] # "queued"
  /\ Done(w)
  /\ UNCHANGED store

\* RedisError: claim returns False although the script may have run and only
\* its reply was lost.
ClaimError(w) ==
  /\ pc[w] = "claim"
  /\ \/ status[cur[w]] = "queued" /\ ClaimLua(w, cur[w])
     \/ UNCHANGED store
  /\ Done(w)

\* The outcome is one update_status, as for workers that have no run timeout and
\* no dead-letter policy (neither is set by default; WorkerPool has both).
HandlerEnds(w) ==
  /\ pc[w] = "running"
  /\ \E s \in Outcomes : Start(w, cur[w], s, "us_hset")
  /\ UNCHANGED <<store, ids, claimEp>>

-----------------------------------------------------------------------------
\* update_status.

Terminal == {"succeeded", "failed", "cancelled", "ttl_expired", "dead_lettered"}

UpdateHset(c) ==
  /\ pc[c] = "us_hset"
  /\ hset_status(cur[c], target[c])
  /\ IF target[c] = "queued" THEN Done(c) ELSE Continue(c, "us_zrem")
  /\ UNCHANGED <<claimed_by, zset, lease, expired>>

UpdateZrem(c) ==
  /\ pc[c] = "us_zrem"
  /\ zrem(cur[c])
  /\ IF target[c] \in Terminal THEN Continue(c, "us_delete") ELSE Done(c)
  /\ UNCHANGED <<status, claimed_by, lease, episode, expired>>

UpdateDelete(c) ==
  /\ pc[c] = "us_delete"
  /\ delete_lease(cur[c])
  /\ Done(c)
  /\ UNCHANGED <<status, claimed_by, zset, episode, expired>>

\* cancel_job, retry_now and update_job (which calls release).
CallerCancels(c, j) ==
  /\ pc[c] = "idle" /\ "cancel" \in CallerOps /\ status[j] # "absent"
  /\ Start(c, j, "cancelled", "us_hset")
  /\ UNCHANGED <<store, ids, claimEp>>
CallerRetries(c, j) ==
  /\ pc[c] = "idle" /\ "retry" \in CallerOps /\ status[j] # "absent"
  /\ episode[j] < MaxEpisode
  /\ Start(c, j, "queued", "us_hset")
  /\ UNCHANGED <<store, ids, claimEp>>
CallerUpdates(c, j) ==
  /\ pc[c] = "idle" /\ "update" \in CallerOps /\ status[j] # "absent"
  /\ episode[j] < MaxEpisode
  /\ Start(c, j, None, "rel_hset")
  /\ UNCHANGED <<store, ids, claimEp>>

-----------------------------------------------------------------------------
\* release and reap_expired_leases.

ReleaseHset(c) ==
  /\ pc[c] = "rel_hset"
  /\ hset_status(cur[c], "queued")
  /\ claimed_by' = [claimed_by EXCEPT ![cur[c]] = None]
  /\ Continue(c, "rel_zadd")
  /\ UNCHANGED <<zset, lease, expired>>

ReleaseZadd(c) ==
  /\ pc[c] = "rel_zadd"
  /\ zadd(cur[c])
  /\ Continue(c, "rel_delete")
  /\ UNCHANGED <<status, claimed_by, lease, episode, expired>>

ReleaseDelete(c) ==
  /\ pc[c] = "rel_delete"
  /\ delete_lease(cur[c])
  /\ Done(c)
  /\ UNCHANGED <<status, claimed_by, zset, episode, expired>>

\* The loop over the job keys comes to a running job.
ReapStatus(r, j) ==
  /\ pc[r] = "idle" /\ status[j] = "running"
  /\ episode[j] < MaxEpisode
  /\ Start(r, j, None, "reap_exists")
  /\ UNCHANGED <<store, ids, claimEp>>

\* The reaper that takes an existing lease for an expired one.
ReapExistsInverted(r) ==
  /\ pc[r] = "reap_exists"
  /\ IF lease[cur[r]] # None THEN Continue(r, "rel_hset") ELSE Done(r)
  /\ UNCHANGED store

ReapExists(r) ==
  /\ pc[r] = "reap_exists"
  /\ IF lease[cur[r]] = None THEN Continue(r, "rel_hset") ELSE Done(r)
  /\ UNCHANGED store

\* A client dies and a new process takes its place; or run_once raises and
\* leaves its job running: an unknown type, a handler that exits.
Crash(c) == c \in Crashing /\ pc[c] # "idle" /\ Done(c) /\ UNCHANGED store

WorkerStep(w) == \/ Dequeue(w) \/ (\E j \in Jobs : DequeueGet(w, j)) \/ DequeueEmpty(w)
                 \/ ClaimWon(w) \/ ClaimLost(w) \/ ClaimError(w) \/ HandlerEnds(w)
MethodStep(c) == \/ EnqueueZadd(c)
                 \/ UpdateHset(c) \/ UpdateZrem(c) \/ UpdateDelete(c)
                 \/ ReleaseHset(c) \/ ReleaseZadd(c) \/ ReleaseDelete(c)
CallerStep(c) == \E j \in Jobs : \/ EnqueueHset(c, j)
                                 \/ CallerCancels(c, j)
                                 \/ CallerRetries(c, j)
                                 \/ CallerUpdates(c, j)
ReaperStep(r) == ReapExists(r) \/ \E j \in Jobs : ReapStatus(r, j)

Next == \/ \E w \in Workers : WorkerStep(w)
        \/ \E c \in Clients : MethodStep(c) \/ Crash(c)
        \/ \E c \in Callers : CallerStep(c)
        \/ \E r \in Reapers : ReaperStep(r)
        \/ \E j \in Jobs : LeaseExpires(j)

Spec == Init /\ [][Next]_vars

\* Redis lets keys expire, the maintenance loop comes to every job again and
\* again, and a client that has begun a method sends its next command.
FairSpec == /\ Spec
            /\ \A j \in Jobs : WF_vars(LeaseExpires(j))
            /\ \A r \in Reapers : WF_vars(ReapExists(r))
                                    /\ \A j \in Jobs : SF_vars(ReapStatus(r, j))
            /\ \A c \in Clients : WF_vars(MethodStep(c))
-----------------------------------------------------------------------------
\* Properties.

\* Worker w is inside run_once with a won claim on j.
Owns(w, j) == pc[w] \in {"running", "us_hset", "us_zrem", "us_delete"} /\ cur[w] = j

\* Client c is between two commands of a method that changes j.
Changing(c, j) == /\ cur[c] = j
                  /\ pc[c] \in {"enq_zadd", "us_hset", "us_zrem", "us_delete",
                               "rel_hset", "rel_zadd", "rel_delete"}

\* "Exactly one winner per job": the claim script lets one worker through per
\* stay of the job in the queue, whatever reapers, retries, lost replies and
\* crashes do to the job in between.
ExclusivePerEpisode ==
  \A v, w \in Workers : \A j \in Jobs :
    v # w /\ Owns(v, j) /\ Owns(w, j) => claimEp[v] # claimEp[w]

\* What makes it inductive: a won claim is for the job's latest stay in the
\* queue or an earlier one, for an earlier one while the job waits again.
ClaimsArePast ==
  \A w \in Workers : \A j \in Jobs :
    Owns(w, j) => /\ claimEp[w] <= episode[j]
                  /\ status[j] = "queued" => claimEp[w] < episode[j]

ClaimInv == ExclusivePerEpisode /\ ClaimsArePast

\* The backend is a queue of exclusive claims: a job waits while its hash says
\* queued, and a worker between its claim and the end of run_once holds the stay
\* it won.  Two-command methods, lost replies, crashes and expired leases are
\* all steps of ClaimQueue or invisible there.
Queue == INSTANCE ClaimQueue WITH
  waiting <- {j \in Jobs : status[j] = "queued"},
  stay <- episode,
  held <- [w \in Workers |-> {<<j, claimEp[w]>> : j \in {k \in Jobs : Owns(w, k)}}]
ImplementsClaimQueue == Queue!Spec

\* The sorted set has every job once and a job of higher priority first, also
\* when methods on the same job overlap: the window dequeue reads begins with
\* the jobs that come first.
Ordered(s) == \A i, k \in 1 .. Len(s) :
  i < k => s[i] # s[k] /\ Priority[s[i]] >= Priority[s[k]]
WindowInOrder == Ordered(zset) /\ \A w \in Workers : Ordered(ids[w])

\* A queued job can be found by dequeue: once no method is half done with it,
\* it is in the sorted set.
NotLost ==
  \A j \in Jobs : status[j] = "queued" /\ (\A c \in Clients : ~Changing(c, j))
    => \E i \in 1 .. Len(zset) : zset[i] = j

\* A running job whose worker died, or never learned that its claim was
\* granted, does not stay running: its lease runs out and the reaper releases
\* it.  (Up to the bound on how often a job may be queued.)
CrashRecovered ==
  \A j \in Jobs :
    (status[j] = "running" /\ episode[j] < MaxEpisode /\ \A w \in Workers : ~Owns(w, j))
      ~> status[j] # "running"
=============================================================================
