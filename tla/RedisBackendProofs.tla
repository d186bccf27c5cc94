------------------------- MODULE RedisBackendProofs -------------------------
(***************************************************************************)
(* The claim script of the Redis backend admits one worker per stay of a   *)
(* job in the queue: proved for any number of jobs, workers, callers and   *)
(* reapers, any of which may crash.  The same for the hybrid backend, with *)
(* what it promises of its two stores.                                     *)
(***************************************************************************)
EXTENDS HybridBackend, SequenceTheorems, TLAPS

RedisTypeOK == KeysTypeOK /\ ClientsTypeOK

-----------------------------------------------------------------------------
(* Type correctness of the keys and of the clients' local state.           *)

\* The end of a method, a step to its next command and the start of a method
\* keep the clients well typed.
LEMMA ClientMoves ==
  ASSUME ClientsTypeOK, NEW c \in Clients
  PROVE  /\ Done(c) => ClientsTypeOK'
         /\ \A label \in PC :
              (/\ Continue(c, label)
               /\ cur[c] \in Jobs
               /\ label \in {"us_hset", "us_zrem", "us_delete"} => target[c] \in JobStatus)
              => ClientsTypeOK'
         /\ \A label \in PC, j \in Jobs, s \in JobStatus \cup {None} :
              (/\ Start(c, j, s, label)
               /\ UNCHANGED claimEp
               /\ label \in {"us_hset", "us_zrem", "us_delete"} => s \in JobStatus)
              => ClientsTypeOK'
<1>1. ASSUME Done(c)  PROVE ClientsTypeOK'
  BY <1>1 DEF ClientsTypeOK, Done, Start, Goto, PC
<1>2. ASSUME NEW label \in PC, Continue(c, label), cur[c] \in Jobs,
             label \in {"us_hset", "us_zrem", "us_delete"} => target[c] \in JobStatus
      PROVE  ClientsTypeOK'
  BY <1>2 DEF ClientsTypeOK, Continue, Goto
<1>3. ASSUME NEW label \in PC, NEW j \in Jobs, NEW s \in JobStatus \cup {None},
             Start(c, j, s, label), UNCHANGED claimEp,
             label \in {"us_hset", "us_zrem", "us_delete"} => s \in JobStatus
      PROVE  ClientsTypeOK'
  BY <1>3 DEF ClientsTypeOK, Start, Goto
<1> QED  BY <1>1, <1>2, <1>3

\* A hash's new status and the deletion of a lease keep the keys well typed.
LEMMA KeyWrites ==
  ASSUME KeysTypeOK, NEW j \in Jobs
  PROVE  /\ \A s \in JobStatus : hset_status(j, s) =>
              /\ status' \in [Jobs -> JobStatus \cup {"absent"}]
              /\ episode' \in [Jobs -> Nat]
         /\ delete_lease(j) => lease' \in [Jobs -> Workers \cup {None}]
         /\ \A w \in Workers : ClaimLua(w, j) => KeysTypeOK'
<1>1. ASSUME NEW s \in JobStatus, hset_status(j, s)
      PROVE  /\ status' \in [Jobs -> JobStatus \cup {"absent"}]
             /\ episode' \in [Jobs -> Nat]
  BY <1>1 DEF KeysTypeOK, hset_status
<1>2. delete_lease(j) => lease' \in [Jobs -> Workers \cup {None}]
  BY DEF KeysTypeOK, delete_lease
<1>3. ASSUME NEW w \in Workers, ClaimLua(w, j)  PROVE KeysTypeOK'
  BY <1>3 DEF KeysTypeOK, ClaimLua, JobStatus
<1> QED  BY <1>1, <1>2, <1>3

\* Every step of a worker keeps the types.
LEMMA WorkerStepType ==
  ASSUME RedisTypeOK, NEW w \in Workers, WorkerStep(w)
  PROVE  RedisTypeOK'
<1> USE DEF RedisTypeOK
<1>w. w \in Clients
  BY DEF Clients
<1>l. /\ {"idle", "get", "claim", "running", "us_hset"} \subseteq PC
      /\ Outcomes \subseteq JobStatus
  BY RedisConstants DEF RedisConstants, PC, JobStatus
<1>s. UNCHANGED store => KeysTypeOK'
  BY DEF KeysTypeOK, store
<1>c. pc[w] \in {"claim", "running"} => cur[w] \in Jobs
  BY <1>w DEF ClientsTypeOK
<1>1. CASE Dequeue(w)
  BY <1>1, <1>w, <1>l, <1>s DEF Dequeue, Goto, ClientsTypeOK
<1>2. ASSUME NEW j \in Jobs, DequeueGet(w, j)  PROVE RedisTypeOK'
  <2>1. CASE status[j] = "queued"
    BY <1>2, <1>w, <1>l, <1>s, <2>1, ClientMoves DEF DequeueGet
  <2>2. CASE status[j] # "queued"
    BY <1>2, <1>s, <2>2 DEF DequeueGet, ClientsTypeOK
  <2> QED  BY <2>1, <2>2
<1>3. CASE DequeueEmpty(w) \/ ClaimLost(w)
  BY <1>3, <1>w, <1>s, ClientMoves DEF DequeueEmpty, ClaimLost
<1>4. CASE ClaimWon(w)
  <2>1. KeysTypeOK'
    BY <1>4, <1>c, KeyWrites DEF ClaimWon
  <2>2. claimEp' \in [Workers -> Nat]
    BY <1>4, <1>c DEF ClaimWon, KeysTypeOK, ClientsTypeOK
  <2>3. ClientsTypeOK'
    BY <1>4, <1>w, <1>l, <1>c, <2>2 DEF ClaimWon, Goto, ClientsTypeOK
  <2> QED  BY <2>1, <2>3
<1>5. CASE ClaimError(w)
  BY <1>5, <1>w, <1>s, <1>c, ClientMoves, KeyWrites DEF ClaimError
<1>6. CASE HandlerEnds(w)
  BY <1>6, <1>w, <1>l, <1>s, <1>c, ClientMoves DEF HandlerEnds
<1> QED
  BY <1>1, <1>2, <1>3, <1>4, <1>5, <1>6 DEF WorkerStep

\* Every further command of a method keeps the types.
LEMMA MethodStepType ==
  ASSUME RedisTypeOK, NEW c \in Clients, MethodStep(c)
  PROVE  RedisTypeOK'
<1> USE DEF RedisTypeOK
<1>l. /\ {"us_zrem", "us_delete", "rel_zadd", "rel_delete"} \subseteq PC
      /\ "queued" \in JobStatus
  BY DEF PC, JobStatus
<1>c. pc[c] \notin {"idle", "get"} => cur[c] \in Jobs
  BY DEF ClientsTypeOK
<1>t. pc[c] \in {"us_hset", "us_zrem", "us_delete"} => target[c] \in JobStatus
  BY DEF ClientsTypeOK
<1>1. CASE EnqueueZadd(c)
  BY <1>1, ClientMoves DEF EnqueueZadd, KeysTypeOK
<1>2. CASE UpdateHset(c)
  <2>1. KeysTypeOK'
    BY <1>2, <1>c, <1>t, KeyWrites DEF UpdateHset, KeysTypeOK
  <2>2. ClientsTypeOK'
    BY <1>2, <1>l, <1>c, <1>t, ClientMoves DEF UpdateHset
  <2> QED  BY <2>1, <2>2
<1>3. CASE UpdateZrem(c)
  <2>1. ClientsTypeOK'
    BY <1>3, <1>l, <1>c, <1>t, ClientMoves DEF UpdateZrem
  <2> QED  BY <1>3, <2>1 DEF UpdateZrem, KeysTypeOK
<1>4. CASE UpdateDelete(c) \/ ReleaseDelete(c)
  <2>1. lease' \in [Jobs -> Workers \cup {None}]
    BY <1>4, <1>c, KeyWrites DEF UpdateDelete, ReleaseDelete
  <2>2. ClientsTypeOK'
    BY <1>4, ClientMoves DEF UpdateDelete, ReleaseDelete
  <2> QED  BY <1>4, <2>1, <2>2 DEF UpdateDelete, ReleaseDelete, KeysTypeOK
<1>5. CASE ReleaseHset(c)
  <2>1. /\ status' \in [Jobs -> JobStatus \cup {"absent"}]
        /\ episode' \in [Jobs -> Nat]
    BY <1>5, <1>l, <1>c, KeyWrites DEF ReleaseHset
  <2>2. ClientsTypeOK'
    BY <1>5, <1>l, <1>c, ClientMoves DEF ReleaseHset
  <2> QED  BY <1>5, <2>1, <2>2 DEF ReleaseHset, KeysTypeOK
<1>6. CASE ReleaseZadd(c)
  <2>1. ClientsTypeOK'
    BY <1>6, <1>l, <1>c, ClientMoves DEF ReleaseZadd
  <2> QED  BY <1>6, <2>1 DEF ReleaseZadd, KeysTypeOK
<1> QED
  BY <1>1, <1>2, <1>3, <1>4, <1>5, <1>6 DEF MethodStep

\* Every step keeps the types.
LEMMA RedisNextType ==
  ASSUME RedisTypeOK, [Next]_vars
  PROVE  RedisTypeOK'
<1> USE DEF RedisTypeOK
<1>l. /\ {"enq_zadd", "us_hset", "rel_hset", "reap_exists"} \subseteq PC
      /\ {"queued", "cancelled"} \subseteq JobStatus
  BY DEF PC, JobStatus
<1>s. UNCHANGED store => KeysTypeOK'
  BY DEF KeysTypeOK, store
<1>1. ASSUME NEW w \in Workers, WorkerStep(w)  PROVE RedisTypeOK'
  BY <1>1, WorkerStepType
<1>2. ASSUME NEW c \in Clients, MethodStep(c)  PROVE RedisTypeOK'
  BY <1>2, MethodStepType
<1>3. ASSUME NEW c \in Clients, Crash(c)  PROVE RedisTypeOK'
  BY <1>3, <1>s, ClientMoves DEF Crash
<1>4. ASSUME NEW c \in Callers, CallerStep(c)  PROVE RedisTypeOK'
  <2>c. c \in Clients
    BY DEF Clients
  <2>1. ASSUME NEW j \in Jobs, EnqueueHset(c, j)  PROVE RedisTypeOK'
    <3>1. ClientsTypeOK'
      BY <1>l, <2>c, <2>1, ClientMoves DEF EnqueueHset
    <3>2. KeysTypeOK'
      BY <1>l, <2>1, KeyWrites DEF EnqueueHset, KeysTypeOK
    <3> QED  BY <3>1, <3>2
  <2>2. ASSUME NEW j \in Jobs, CallerCancels(c, j) \/ CallerRetries(c, j) \/ CallerUpdates(c, j)
        PROVE  RedisTypeOK'
    BY <1>l, <1>s, <2>c, <2>2, ClientMoves DEF CallerCancels, CallerRetries, CallerUpdates
  <2> QED  BY <1>4, <2>1, <2>2 DEF CallerStep
<1>5. ASSUME NEW r \in Reapers, ReaperStep(r)  PROVE RedisTypeOK'
  <2>c. r \in Clients
    BY DEF Clients
  <2>1. ASSUME ReapExists(r)  PROVE RedisTypeOK'
    <3>1. cur[r] \in Jobs
      BY <2>c, <2>1 DEF ReapExists, ClientsTypeOK
    <3> QED  BY <1>l, <1>s, <2>c, <2>1, <3>1, ClientMoves DEF ReapExists
  <2>2. ASSUME NEW j \in Jobs, ReapStatus(r, j)  PROVE RedisTypeOK'
    BY <1>l, <1>s, <2>c, <2>2, ClientMoves DEF ReapStatus
  <2> QED  BY <1>5, <2>1, <2>2 DEF ReaperStep
<1>6. ASSUME NEW j \in Jobs, LeaseExpires(j)  PROVE RedisTypeOK'
  <2>1. lease' \in [Jobs -> Workers \cup {None}]
    BY <1>6, KeyWrites DEF LeaseExpires
  <2>2. expired' \in SUBSET (Jobs \X Nat)
    BY <1>6 DEF LeaseExpires, KeysTypeOK
  <2> QED  BY <1>6, <2>1, <2>2 DEF LeaseExpires, KeysTypeOK, ClientsTypeOK, clients
<1>7. CASE UNCHANGED vars
  BY <1>7 DEF vars, store, clients, KeysTypeOK, ClientsTypeOK
<1> QED
  BY <1>1, <1>2, <1>3, <1>4, <1>5, <1>6, <1>7 DEF Next
-----------------------------------------------------------------------------
(* One claim per stay in the queue.                                        *)

\* Nobody becomes an owner in a step.
OwnersKept == \A w \in Workers : \A j \in Jobs :
  Owns(w, j)' => Owns(w, j) /\ claimEp'[w] = claimEp[w]

\* A job is queued in a step only as the start of a new stay.
StaysKept == \A j \in Jobs :
  \/ episode'[j] = episode[j] /\ (status'[j] = "queued" => status[j] = "queued")
  \/ episode'[j] = episode[j] + 1

\* Such steps preserve the invariant on claims.
LEMMA KeepClaims ==
  ASSUME RedisTypeOK, RedisTypeOK', ClaimInv, OwnersKept, StaysKept
  PROVE  ClaimInv'
<1>1. ExclusivePerEpisode'
  BY DEF ClaimInv, ExclusivePerEpisode, OwnersKept
<1>2. ASSUME NEW w \in Workers, NEW j \in Jobs, Owns(w, j)'
      PROVE  /\ claimEp'[w] <= episode'[j]
             /\ status'[j] = "queued" => claimEp'[w] < episode'[j]
  <2>1. /\ claimEp'[w] = claimEp[w]
        /\ claimEp[w] <= episode[j]
        /\ status[j] = "queued" => claimEp[w] < episode[j]
    BY <1>2 DEF OwnersKept, ClaimInv, ClaimsArePast
  <2>2. claimEp[w] \in Nat /\ episode[j] \in Nat
    BY DEF RedisTypeOK, KeysTypeOK, ClientsTypeOK
  <2> QED  BY <2>1, <2>2 DEF StaysKept
<1>3. ClaimsArePast'
  BY <1>2 DEF ClaimsArePast
<1> QED  BY <1>1, <1>3 DEF ClaimInv

\* The end of a method, a step to its next command, and a command sent by a
\* client that is no worker, make nobody an owner.
LEMMA MovesKeepOwners ==
  ASSUME RedisTypeOK, NEW c \in Clients
  PROVE  /\ Done(c) => OwnersKept
         /\ \A label \in {"us_zrem", "us_delete", "rel_hset", "rel_zadd", "rel_delete"} :
              Continue(c, label)
                /\ (label \in {"us_zrem", "us_delete"} => pc[c] \in {"us_hset", "us_zrem"})
                => OwnersKept
         /\ \A label \in PC, j \in Jobs, s \in JobStatus \cup {None} :
              (c \notin Workers \/ label = "claim" \/ (label = "us_hset" /\ Owns(c, j)))
                /\ Start(c, j, s, label) /\ UNCHANGED claimEp
                => OwnersKept
<1> USE DEF RedisTypeOK, ClientsTypeOK, OwnersKept, Owns
<1>n. \A w \in Workers : w \in Clients
  BY DEF Clients
<1>1. ASSUME Done(c)  PROVE OwnersKept
  BY <1>1, <1>n DEF Done, Start, Goto
<1>2. ASSUME NEW label \in {"us_zrem", "us_delete", "rel_hset", "rel_zadd", "rel_delete"},
             Continue(c, label),
             label \in {"us_zrem", "us_delete"} => pc[c] \in {"us_hset", "us_zrem"}
      PROVE  OwnersKept
  BY <1>2, <1>n DEF Continue, Goto
<1>3. ASSUME NEW label \in PC, NEW j \in Jobs, NEW s \in JobStatus \cup {None},
             c \notin Workers \/ label = "claim" \/ (label = "us_hset" /\ Owns(c, j)),
             Start(c, j, s, label), UNCHANGED claimEp
      PROVE  OwnersKept
  BY <1>3, <1>n DEF Start, Goto
<1> QED  BY <1>1, <1>2, <1>3

\* An hset of a status starts a new stay exactly when the status is queued.
LEMMA HsetKeepsStays ==
  ASSUME RedisTypeOK, NEW j \in Jobs, NEW s \in JobStatus, hset_status(j, s)
  PROVE  StaysKept
BY DEF RedisTypeOK, KeysTypeOK, StaysKept, hset_status

\* The claim script takes the job out of the queue.
LEMMA ClaimLuaKeepsStays ==
  ASSUME RedisTypeOK, NEW w \in Workers, NEW j \in Jobs, ClaimLua(w, j)
  PROVE  StaysKept
BY DEF RedisTypeOK, KeysTypeOK, StaysKept, ClaimLua

\* Every step of a worker preserves the invariant on claims; the winner of a
\* claim is the first of the job's present stay.
LEMMA WorkerStepClaims ==
  ASSUME RedisTypeOK, RedisTypeOK', ClaimInv, NEW w \in Workers, WorkerStep(w)
  PROVE  ClaimInv'
<1>w. w \in Clients
  BY DEF Clients
<1>l. "claim" \in PC /\ "us_hset" \in PC /\ Outcomes \subseteq JobStatus
  BY RedisConstants DEF RedisConstants, PC, JobStatus
<1>s. UNCHANGED <<status, episode>> => StaysKept
  BY DEF StaysKept
<1>c. pc[w] \in {"claim", "running"} => cur[w] \in Jobs
  BY <1>w DEF RedisTypeOK, ClientsTypeOK
<1>1. CASE Dequeue(w)
  <2>1. OwnersKept
    BY <1>1, <1>w DEF Dequeue, Goto, OwnersKept, Owns, RedisTypeOK, ClientsTypeOK, Clients
  <2> QED  BY <1>1, <1>s, <2>1, KeepClaims DEF Dequeue, store
<1>2. ASSUME NEW j \in Jobs, DequeueGet(w, j)  PROVE ClaimInv'
  <2>1. CASE status[j] = "queued"
    <3>1. Start(w, j, None, "claim") /\ UNCHANGED <<claimEp, status, episode>>
      BY <1>2, <2>1 DEF DequeueGet, store
    <3>2. OwnersKept
      BY <1>w, <1>l, <3>1, MovesKeepOwners
    <3> QED  BY <1>s, <3>1, <3>2, KeepClaims
  <2>2. CASE status[j] # "queued"
    <3>1. UNCHANGED <<pc, cur, claimEp, status, episode>>
      BY <1>2, <2>2 DEF DequeueGet, store
    <3>2. OwnersKept
      BY <3>1 DEF OwnersKept, Owns
    <3> QED  BY <1>s, <3>1, <3>2, KeepClaims
  <2> QED  BY <2>1, <2>2
<1>3. CASE DequeueEmpty(w) \/ ClaimLost(w)
  <2>1. Done(w) /\ UNCHANGED <<status, episode>>
    BY <1>3 DEF DequeueEmpty, ClaimLost, store
  <2> QED  BY <1>w, <1>s, <2>1, MovesKeepOwners, KeepClaims
<1>4. CASE ClaimWon(w)
  <2> DEFINE k == cur[w]
  <2>1. /\ pc[w] = "claim" /\ status[k] = "queued" /\ k \in Jobs
        /\ status' = [status EXCEPT ![k] = "running"]
        /\ episode' = episode
        /\ cur' = cur
        /\ pc' = [pc EXCEPT ![w] = "running"]
        /\ claimEp' = [claimEp EXCEPT ![w] = episode[k]]
    BY <1>4, <1>c DEF ClaimWon, ClaimLua, Goto
  <2>2. /\ claimEp'[w] = episode[k]
        /\ \A v \in Workers \ {w} : claimEp'[v] = claimEp[v] /\ \A j \in Jobs : Owns(v, j)' = Owns(v, j)
        /\ \A j \in Jobs : Owns(w, j)' => j = k
    BY <1>w, <2>1 DEF Owns, RedisTypeOK, ClientsTypeOK, Clients
  <2>3. \A v \in Workers : Owns(v, k) => claimEp[v] < episode[k]
    BY <2>1 DEF ClaimInv, ClaimsArePast
  <2>4. \A v \in Workers : claimEp[v] \in Nat
    BY DEF RedisTypeOK, ClientsTypeOK
  <2>5. \A j \in Jobs : episode[j] \in Nat
    BY DEF RedisTypeOK, KeysTypeOK
  <2>6. \A j \in Jobs : status'[j] = "queued" => status[j] = "queued"
    BY <2>1 DEF RedisTypeOK, KeysTypeOK
  <2> HIDE DEF k
  <2>7. ExclusivePerEpisode'
    BY <2>1, <2>2, <2>3, <2>4, <2>5 DEF ClaimInv, ExclusivePerEpisode
  <2>k. status'[k] = "running"
    BY <2>1 DEF RedisTypeOK, KeysTypeOK
  <2>8. ASSUME NEW v \in Workers, NEW j \in Jobs, Owns(v, j)'
        PROVE  /\ claimEp'[v] <= episode'[j]
               /\ status'[j] = "queued" => claimEp'[v] < episode'[j]
    <3>1. CASE v = w
      BY <2>1, <2>2, <2>5, <2>8, <2>k, <3>1
    <3>2. CASE v # w
      BY <2>1, <2>2, <2>6, <2>8, <3>2 DEF ClaimInv, ClaimsArePast
    <3> QED  BY <3>1, <3>2
  <2>9. ClaimsArePast'
    BY <2>8 DEF ClaimsArePast
  <2> QED  BY <2>7, <2>9 DEF ClaimInv
<1>5. CASE ClaimError(w)
  <2>1. OwnersKept
    BY <1>5, <1>w, MovesKeepOwners DEF ClaimError
  <2>2. StaysKept
    BY <1>5, <1>s, <1>c, ClaimLuaKeepsStays DEF ClaimError, store
  <2> QED  BY <2>1, <2>2, KeepClaims
<1>6. CASE HandlerEnds(w)
  <2>1. PICK s \in Outcomes : Start(w, cur[w], s, "us_hset") /\ UNCHANGED <<claimEp, status, episode>>
    BY <1>6 DEF HandlerEnds, store
  <2>2. cur[w] \in Jobs /\ Owns(w, cur[w])
    BY <1>6, <1>c DEF HandlerEnds, Owns
  <2>3. OwnersKept
    BY <1>w, <1>l, <2>1, <2>2, MovesKeepOwners
  <2> QED  BY <1>s, <2>1, <2>3, KeepClaims
<1> QED
  BY <1>1, <1>2, <1>3, <1>4, <1>5, <1>6 DEF WorkerStep

\* Every further command of a method preserves the invariant on claims.
LEMMA MethodStepClaims ==
  ASSUME RedisTypeOK, RedisTypeOK', ClaimInv, NEW c \in Clients, MethodStep(c)
  PROVE  ClaimInv'
<1>l. "queued" \in JobStatus
  BY DEF JobStatus
<1>s. UNCHANGED <<status, episode>> => StaysKept
  BY DEF StaysKept
<1>c. pc[c] \notin {"idle", "get"} => cur[c] \in Jobs
  BY DEF RedisTypeOK, ClientsTypeOK
<1>t. pc[c] \in {"us_hset", "us_zrem", "us_delete"} => target[c] \in JobStatus
  BY DEF RedisTypeOK, ClientsTypeOK
<1>1. CASE EnqueueZadd(c) \/ UpdateDelete(c) \/ ReleaseDelete(c)
  <2>1. Done(c) /\ UNCHANGED <<status, episode>>
    BY <1>1 DEF EnqueueZadd, UpdateDelete, ReleaseDelete
  <2> QED  BY <1>s, <2>1, MovesKeepOwners, KeepClaims
<1>2. CASE UpdateHset(c)
  <2>1. StaysKept
    BY <1>2, <1>c, <1>t, HsetKeepsStays DEF UpdateHset
  <2>2. OwnersKept
    BY <1>2, MovesKeepOwners DEF UpdateHset
  <2> QED  BY <2>1, <2>2, KeepClaims
<1>3. CASE UpdateZrem(c)
  <2>1. OwnersKept
    BY <1>3, MovesKeepOwners DEF UpdateZrem
  <2> QED  BY <1>3, <1>s, <2>1, KeepClaims DEF UpdateZrem
<1>4. CASE ReleaseHset(c)
  <2>1. StaysKept
    BY <1>4, <1>l, <1>c, HsetKeepsStays DEF ReleaseHset
  <2>2. OwnersKept
    BY <1>4, MovesKeepOwners DEF ReleaseHset
  <2> QED  BY <2>1, <2>2, KeepClaims
<1>5. CASE ReleaseZadd(c)
  <2>1. OwnersKept
    BY <1>5, MovesKeepOwners DEF ReleaseZadd
  <2> QED  BY <1>5, <1>s, <2>1, KeepClaims DEF ReleaseZadd
<1> QED
  BY <1>1, <1>2, <1>3, <1>4, <1>5 DEF MethodStep

\* Every step preserves the invariant on claims.
LEMMA RedisNextClaims ==
  ASSUME RedisTypeOK, RedisTypeOK', ClaimInv, [Next]_vars
  PROVE  ClaimInv'
<1>l. /\ {"enq_zadd", "us_hset", "rel_hset", "reap_exists"} \subseteq PC
      /\ {"queued", "cancelled"} \subseteq JobStatus
  BY DEF PC, JobStatus
<1>s. UNCHANGED <<status, episode>> => StaysKept
  BY DEF StaysKept
<1>1. ASSUME NEW w \in Workers, WorkerStep(w)  PROVE ClaimInv'
  BY <1>1, WorkerStepClaims
<1>2. ASSUME NEW c \in Clients, MethodStep(c)  PROVE ClaimInv'
  BY <1>2, MethodStepClaims
<1>3. ASSUME NEW c \in Clients, Crash(c)  PROVE ClaimInv'
  BY <1>3, <1>s, MovesKeepOwners, KeepClaims DEF Crash, store
<1>4. ASSUME NEW c \in Callers, CallerStep(c)  PROVE ClaimInv'
  <2>c. c \in Clients /\ c \notin Workers
    BY RedisConstants DEF RedisConstants, Clients
  <2>1. ASSUME NEW j \in Jobs, EnqueueHset(c, j)  PROVE ClaimInv'
    <3>1. OwnersKept
      BY <1>l, <2>c, <2>1, MovesKeepOwners DEF EnqueueHset
    <3>2. StaysKept
      BY <1>l, <2>1, HsetKeepsStays DEF EnqueueHset
    <3> QED  BY <3>1, <3>2, KeepClaims
  <2>2. ASSUME NEW j \in Jobs, CallerCancels(c, j) \/ CallerRetries(c, j) \/ CallerUpdates(c, j)
        PROVE  ClaimInv'
    <3>1. OwnersKept
      BY <1>l, <2>c, <2>2, MovesKeepOwners DEF CallerCancels, CallerRetries, CallerUpdates
    <3> QED  BY <1>s, <2>2, <3>1, KeepClaims DEF CallerCancels, CallerRetries, CallerUpdates, store
  <2> QED  BY <1>4, <2>1, <2>2 DEF CallerStep
<1>5. ASSUME NEW r \in Reapers, ReaperStep(r)  PROVE ClaimInv'
  <2>c. r \in Clients /\ r \notin Workers
    BY RedisConstants DEF RedisConstants, Clients
  <2>1. ASSUME ReapExists(r)  PROVE ClaimInv'
    <3>1. OwnersKept
      BY <2>c, <2>1, MovesKeepOwners DEF ReapExists
    <3> QED  BY <1>s, <2>1, <3>1, KeepClaims DEF ReapExists, store
  <2>2. ASSUME NEW j \in Jobs, ReapStatus(r, j)  PROVE ClaimInv'
    <3>1. OwnersKept
      BY <1>l, <2>c, <2>2, MovesKeepOwners DEF ReapStatus
    <3> QED  BY <1>s, <2>2, <3>1, KeepClaims DEF ReapStatus, store
  <2> QED  BY <1>5, <2>1, <2>2 DEF ReaperStep
<1>6. ASSUME UNCHANGED <<status, episode, clients>>  PROVE ClaimInv'
  <2>1. OwnersKept
    BY <1>6 DEF OwnersKept, Owns, clients
  <2> QED  BY <1>6, <1>s, <2>1, KeepClaims
<1>7. ASSUME NEW j \in Jobs, LeaseExpires(j)  PROVE ClaimInv'
  BY <1>6, <1>7 DEF LeaseExpires
<1>8. CASE UNCHANGED vars
  BY <1>6, <1>8 DEF vars, store
<1> QED
  BY <1>1, <1>2, <1>3, <1>4, <1>5, <1>7, <1>8 DEF Next

\* "Exactly one winner per job": two workers that run the same Redis job at the
\* same time won it for different stays in the queue, for any number of
\* workers, callers and reapers and whatever crashes between two commands.
THEOREM RedisOneClaimPerEpisode == Spec => []ExclusivePerEpisode
<1>1. Init => RedisTypeOK /\ ClaimInv
  <2> SUFFICES ASSUME Init  PROVE RedisTypeOK /\ ClaimInv
    OBVIOUS
  <2>1. RedisTypeOK
    BY DEF Init, RedisTypeOK, KeysTypeOK, ClientsTypeOK, PC
  <2>2. ClaimInv
    BY DEF Init, ClaimInv, ExclusivePerEpisode, ClaimsArePast, Owns, Clients
  <2> QED  BY <2>1, <2>2
<1>2. RedisTypeOK /\ ClaimInv /\ [Next]_vars => (RedisTypeOK /\ ClaimInv)'
  BY RedisNextType, RedisNextClaims
<1>3. ClaimInv => ExclusivePerEpisode
  BY DEF ClaimInv
<1> QED
  BY <1>1, <1>2, <1>3, PTL DEF Spec
-----------------------------------------------------------------------------
(* The backend implements ClaimQueue.                                      *)

\* The state of the abstract queue, as the refinement mapping gives it.
Waiting == {j \in Jobs : status[j] = "queued"}
HeldMap == [w \in Workers |-> {<<j, claimEp[w]>> : j \in {k \in Jobs : Owns(w, k)}}]

\* A worker never queues a job by update_status: its handlers end otherwise.
WorkerTargets ==
  \A w \in Workers : pc[w] \in {"us_hset", "us_zrem", "us_delete"} => target[w] # "queued"

\* The grants are as before: the same owners, with the same stays.
SameHeld == \A w \in Workers : \A j \in Jobs :
  /\ Owns(w, j)' <=> Owns(w, j)
  /\ Owns(w, j) => claimEp'[w] = claimEp[w]

\* One worker has let go of what it held, and nobody else's grants changed.
LetsGo(v) ==
  /\ \A j \in Jobs : ~Owns(v, j)'
  /\ \A w \in Workers \ {v} : \A j \in Jobs :
       /\ Owns(w, j)' <=> Owns(w, j)
       /\ Owns(w, j) => claimEp'[w] = claimEp[w]

\* The mapped grants are then the same.
LEMMA HeldKept == SameHeld => HeldMap' = HeldMap
<1> SUFFICES ASSUME SameHeld  PROVE HeldMap' = HeldMap
  OBVIOUS
<1>1. ASSUME NEW w \in Workers
      PROVE  {<<j, claimEp'[w]>> : j \in {k \in Jobs : Owns(w, k)'}}
               = {<<j, claimEp[w]>> : j \in {k \in Jobs : Owns(w, k)}}
  BY DEF SameHeld
<1> QED  BY <1>1 DEF HeldMap

\* Or those of one worker are gone.
LEMMA HeldDropped ==
  ASSUME NEW v \in Workers, LetsGo(v)
  PROVE  HeldMap' = [HeldMap EXCEPT ![v] = {}]
<1>1. {<<j, claimEp'[v]>> : j \in {k \in Jobs : Owns(v, k)'}} = {}
  BY DEF LetsGo
<1>2. ASSUME NEW w \in Workers \ {v}
      PROVE  {<<j, claimEp'[w]>> : j \in {k \in Jobs : Owns(w, k)'}}
               = {<<j, claimEp[w]>> : j \in {k \in Jobs : Owns(w, k)}}
  BY DEF LetsGo
<1> QED  BY <1>1, <1>2, ZenonT(60) DEF HeldMap

\* The steps of the abstract queue in terms of the mapped state.
LEMMA QueueSteps ==
  /\ \A j \in Jobs : Waiting' = Waiting \cup {j} /\ episode' = [episode EXCEPT ![j] = @ + 1]
                       /\ HeldMap' = HeldMap => Queue!Next
  /\ \A j \in Waiting : Waiting' = Waiting \ {j} /\ episode' = episode /\ HeldMap' = HeldMap
                       => Queue!Next
  /\ \A w \in Workers : Waiting' = Waiting /\ episode' = episode
                          /\ HeldMap' = [HeldMap EXCEPT ![w] = {}] => Queue!Next
  /\ \A w \in Workers, j \in Waiting :
       Waiting' = Waiting \ {j} /\ episode' = episode
         /\ HeldMap' = [HeldMap EXCEPT ![w] = @ \cup {<<j, episode[j]>>}] => Queue!Next
  /\ Waiting' = Waiting /\ episode' = episode /\ HeldMap' = HeldMap => UNCHANGED Queue!queueVars
<1>1. ASSUME NEW j \in Jobs, Waiting' = Waiting \cup {j}, episode' = [episode EXCEPT ![j] = @ + 1],
             HeldMap' = HeldMap
      PROVE  Queue!Next
  <2>1. Queue!Put(j)
    BY <1>1 DEF Queue!Put, Waiting, HeldMap
  <2> QED  BY <2>1 DEF Queue!Next
<1>2. ASSUME NEW j \in Waiting, Waiting' = Waiting \ {j}, episode' = episode, HeldMap' = HeldMap
      PROVE  Queue!Next
  <2>1. Queue!Withdraw(j) /\ j \in Jobs
    BY <1>2 DEF Queue!Withdraw, Waiting, HeldMap
  <2> QED  BY <2>1 DEF Queue!Next
<1>3. ASSUME NEW w \in Workers, Waiting' = Waiting, episode' = episode,
             HeldMap' = [HeldMap EXCEPT ![w] = {}]
      PROVE  Queue!Next
  <2>1. Queue!LetGo(w)
    BY <1>3 DEF Queue!LetGo, Waiting, HeldMap
  <2> QED  BY <2>1 DEF Queue!Next
<1>4. ASSUME NEW w \in Workers, NEW j \in Waiting, Waiting' = Waiting \ {j}, episode' = episode,
             HeldMap' = [HeldMap EXCEPT ![w] = @ \cup {<<j, episode[j]>>}]
      PROVE  Queue!Next
  <2>1. Queue!Take(w, j) /\ j \in Jobs
    BY <1>4 DEF Queue!Take, Waiting, HeldMap
  <2> QED  BY <2>1 DEF Queue!Next
<1>5. ASSUME Waiting' = Waiting, episode' = episode, HeldMap' = HeldMap
      PROVE  UNCHANGED Queue!queueVars
  BY <1>5 DEF Queue!queueVars, Waiting, HeldMap
<1> QED  BY <1>1, <1>2, <1>3, <1>4, <1>5

\* What the moves of a client do to the grants.
LEMMA MovesHeld ==
  ASSUME RedisTypeOK, NEW c \in Clients
  PROVE  /\ Done(c) /\ (\A j \in Jobs : ~Owns(c, j)) => SameHeld
         /\ Done(c) /\ c \notin Workers => SameHeld
         /\ Done(c) /\ c \in Workers => LetsGo(c)
         /\ \A label \in PC :
              Continue(c, label)
                /\ (\A j \in Jobs : Owns(c, j)' <=> Owns(c, j))
                => SameHeld
         /\ \A label \in PC, j \in Jobs, s \in JobStatus \cup {None} :
              Start(c, j, s, label) /\ UNCHANGED claimEp
                /\ (\/ c \notin Workers
                    \/ label = "claim" /\ \A k \in Jobs : ~Owns(c, k)
                    \/ label = "us_hset" /\ Owns(c, j))
                => SameHeld
<1> USE DEF RedisTypeOK, ClientsTypeOK, Owns
<1>n. \A w \in Workers : w \in Clients
  BY DEF Clients
<1>d. ASSUME Done(c)
      PROVE  /\ \A w \in Workers \ {c} : pc'[w] = pc[w] /\ cur'[w] = cur[w] /\ claimEp'[w] = claimEp[w]
             /\ \A j \in Jobs : ~Owns(c, j)'
  BY <1>d, <1>n DEF Done, Start, Goto
<1>1. ASSUME Done(c), (\A j \in Jobs : ~Owns(c, j)) \/ c \notin Workers  PROVE SameHeld
  BY <1>1, <1>d DEF SameHeld
<1>2. ASSUME Done(c), c \in Workers  PROVE LetsGo(c)
  BY <1>2, <1>d DEF LetsGo
<1>3. ASSUME NEW label \in PC, Continue(c, label), \A j \in Jobs : Owns(c, j)' <=> Owns(c, j)
      PROVE  SameHeld
  BY <1>3, <1>n DEF SameHeld, Continue, Goto
<1>4. ASSUME NEW label \in PC, NEW j \in Jobs, NEW s \in JobStatus \cup {None},
             Start(c, j, s, label), UNCHANGED claimEp,
             \/ c \notin Workers
             \/ label = "claim" /\ \A k \in Jobs : ~Owns(c, k)
             \/ label = "us_hset" /\ Owns(c, j)
      PROVE  SameHeld
  BY <1>4, <1>n DEF SameHeld, Start, Goto
<1> QED  BY <1>1, <1>2, <1>3, <1>4

\* What the commands on a job hash do to the queue.
LEMMA CommandsWait ==
  ASSUME RedisTypeOK, NEW j \in Jobs
  PROVE  /\ hset_status(j, "queued") => /\ Waiting' = Waiting \cup {j}
                                        /\ episode' = [episode EXCEPT ![j] = @ + 1]
         /\ \A s \in JobStatus \ {"queued"} : hset_status(j, s) =>
              /\ Waiting' = Waiting \ {j}
              /\ episode' = episode
         /\ \A w \in Workers : ClaimLua(w, j) => /\ Waiting' = Waiting \ {j}
                                                 /\ episode' = episode
<1> USE DEF RedisTypeOK, KeysTypeOK, Waiting
<1>1. ASSUME hset_status(j, "queued")
      PROVE  Waiting' = Waiting \cup {j} /\ episode' = [episode EXCEPT ![j] = @ + 1]
  BY <1>1 DEF hset_status
<1>2. ASSUME NEW s \in JobStatus \ {"queued"}, hset_status(j, s)
      PROVE  Waiting' = Waiting \ {j} /\ episode' = episode
  BY <1>2 DEF hset_status
<1>3. ASSUME NEW w \in Workers, ClaimLua(w, j)
      PROVE  Waiting' = Waiting \ {j} /\ episode' = episode
  BY <1>3 DEF ClaimLua
<1> QED  BY <1>1, <1>2, <1>3

\* A step of the abstract queue, or one it does not see.
QueueStep == [Queue!Next]_(Queue!queueVars)

\* Steps that keep the grants, and steps in which a worker lets go.
LEMMA HeldSteps ==
  /\ SameHeld /\ UNCHANGED <<status, episode>> => QueueStep
  /\ \A j \in Jobs : SameHeld /\ Waiting' = Waiting \ {j} /\ episode' = episode => QueueStep
  /\ \A j \in Jobs : SameHeld /\ Waiting' = Waiting \cup {j}
                       /\ episode' = [episode EXCEPT ![j] = @ + 1] => QueueStep
  /\ \A w \in Workers : LetsGo(w) /\ UNCHANGED <<status, episode>> => QueueStep
<1>u. UNCHANGED <<status, episode>> => Waiting' = Waiting /\ episode' = episode
  BY DEF Waiting
<1>1. ASSUME SameHeld, UNCHANGED <<status, episode>>  PROVE QueueStep
  BY <1>1, <1>u, HeldKept, QueueSteps DEF QueueStep
<1>2. ASSUME NEW j \in Jobs, SameHeld, Waiting' = Waiting \ {j}, episode' = episode
      PROVE  QueueStep
  <2>1. CASE j \in Waiting
    BY <1>2, <2>1, HeldKept, QueueSteps DEF QueueStep
  <2>2. CASE j \notin Waiting
    <3>1. Waiting' = Waiting
      BY <1>2, <2>2
    <3> QED  BY <1>2, <3>1, HeldKept, QueueSteps DEF QueueStep
  <2> QED  BY <2>1, <2>2
<1>3. ASSUME NEW j \in Jobs, SameHeld, Waiting' = Waiting \cup {j},
             episode' = [episode EXCEPT ![j] = @ + 1]
      PROVE  QueueStep
  BY <1>3, HeldKept, QueueSteps DEF QueueStep
<1>4. ASSUME NEW w \in Workers, LetsGo(w), UNCHANGED <<status, episode>>  PROVE QueueStep
  BY <1>4, <1>u, HeldDropped, QueueSteps DEF QueueStep
<1> QED  BY <1>1, <1>2, <1>3, <1>4

\* Every step of a worker is a step of the abstract queue or invisible there:
\* a won claim takes the job, a lost reply withdraws it.
LEMMA WorkerStepQueue ==
  ASSUME RedisTypeOK, NEW w \in Workers, WorkerStep(w)
  PROVE  QueueStep
<1>w. w \in Clients
  BY DEF Clients
<1>l. "claim" \in PC /\ "us_hset" \in PC /\ Outcomes \subseteq JobStatus
  BY RedisConstants DEF RedisConstants, PC, JobStatus
<1>c. pc[w] \in {"claim", "running"} => cur[w] \in Jobs
  BY <1>w DEF RedisTypeOK, ClientsTypeOK
<1>o. pc[w] \in {"idle", "get", "claim"} => \A j \in Jobs : ~Owns(w, j)
  BY DEF Owns
<1>1. CASE Dequeue(w)
  <2>1. SameHeld
    BY <1>1, <1>w DEF Dequeue, Goto, SameHeld, Owns, RedisTypeOK, ClientsTypeOK, Clients
  <2> QED  BY <1>1, <2>1, HeldSteps DEF Dequeue, store
<1>2. ASSUME NEW j \in Jobs, DequeueGet(w, j)  PROVE QueueStep
  <2>1. UNCHANGED <<status, episode, claimEp>> /\ pc[w] = "get"
    BY <1>2 DEF DequeueGet, store
  <2>2. CASE status[j] = "queued"
    <3>1. SameHeld
      BY <1>2, <1>w, <1>l, <1>o, <2>1, <2>2, MovesHeld DEF DequeueGet
    <3> QED  BY <2>1, <3>1, HeldSteps
  <2>3. CASE status[j] # "queued"
    <3>1. SameHeld
      BY <1>2, <2>1, <2>3 DEF DequeueGet, SameHeld, Owns
    <3> QED  BY <2>1, <3>1, HeldSteps
  <2> QED  BY <2>2, <2>3
<1>3. CASE DequeueEmpty(w) \/ ClaimLost(w)
  <2>1. SameHeld
    BY <1>3, <1>w, <1>o, MovesHeld DEF DequeueEmpty, ClaimLost
  <2> QED  BY <1>3, <2>1, HeldSteps DEF DequeueEmpty, ClaimLost, store
<1>4. CASE ClaimWon(w)
  <2> DEFINE k == cur[w]
  <2>1. /\ pc[w] = "claim" /\ k \in Jobs /\ k \in Waiting
        /\ ClaimLua(w, k)
        /\ cur' = cur
        /\ pc' = [pc EXCEPT ![w] = "running"]
        /\ claimEp' = [claimEp EXCEPT ![w] = episode[k]]
    BY <1>4, <1>c DEF ClaimWon, Goto, Waiting
  <2>2. Waiting' = Waiting \ {k} /\ episode' = episode
    BY <2>1, CommandsWait
  <2>3. /\ claimEp'[w] = episode[k]
        /\ \A j \in Jobs : ~Owns(w, j) /\ (Owns(w, j)' <=> j = k)
        /\ \A v \in Workers \ {w} : claimEp'[v] = claimEp[v] /\ \A j \in Jobs : Owns(v, j)' <=> Owns(v, j)
    BY <1>w, <1>o, <2>1 DEF Owns, RedisTypeOK, ClientsTypeOK, Clients
  <2> HIDE DEF k
  <2>4. {<<j, claimEp'[w]>> : j \in {i \in Jobs : Owns(w, i)'}} = {<<k, episode[k]>>}
    BY <2>1, <2>3
  <2>5. HeldMap[w] = {}
    BY <2>3 DEF HeldMap
  <2>6. ASSUME NEW v \in Workers \ {w}
        PROVE  {<<j, claimEp'[v]>> : j \in {i \in Jobs : Owns(v, i)'}}
                 = {<<j, claimEp[v]>> : j \in {i \in Jobs : Owns(v, i)}}
    BY <2>3
  <2>7. HeldMap' = [HeldMap EXCEPT ![w] = {<<k, episode[k]>>}]
    BY <2>4, <2>6, ZenonT(60) DEF HeldMap
  <2>8. HeldMap' = [HeldMap EXCEPT ![w] = @ \cup {<<k, episode[k]>>}]
    BY <2>5, <2>7
  <2> QED  BY <2>1, <2>2, <2>8, QueueSteps DEF QueueStep
<1>5. CASE ClaimError(w)
  <2>1. SameHeld
    BY <1>5, <1>w, <1>o, MovesHeld DEF ClaimError
  <2>2. \/ Waiting' = Waiting \ {cur[w]} /\ episode' = episode /\ cur[w] \in Jobs
        \/ UNCHANGED <<status, episode>>
    BY <1>5, <1>c, CommandsWait DEF ClaimError, store
  <2> QED  BY <2>1, <2>2, HeldSteps
<1>6. CASE HandlerEnds(w)
  <2>1. PICK s \in Outcomes : Start(w, cur[w], s, "us_hset") /\ UNCHANGED <<claimEp, status, episode>>
    BY <1>6 DEF HandlerEnds, store
  <2>2. cur[w] \in Jobs /\ Owns(w, cur[w])
    BY <1>6, <1>c DEF HandlerEnds, Owns
  <2>3. SameHeld
    BY <1>w, <1>l, <2>1, <2>2, MovesHeld
  <2> QED  BY <2>1, <2>3, HeldSteps
<1> QED
  BY <1>1, <1>2, <1>3, <1>4, <1>5, <1>6 DEF WorkerStep

\* Every further command of a method: an hset to queued puts the job, another
\* one withdraws it, the end of run_once lets go.
LEMMA MethodStepQueue ==
  ASSUME RedisTypeOK, WorkerTargets, NEW c \in Clients, MethodStep(c)
  PROVE  QueueStep
<1>l. /\ "queued" \in JobStatus
      /\ {"us_zrem", "us_delete", "rel_zadd", "rel_delete"} \subseteq PC
  BY DEF JobStatus, PC
<1>c. pc[c] \notin {"idle", "get"} => cur[c] \in Jobs
  BY DEF RedisTypeOK, ClientsTypeOK
<1>t. pc[c] \in {"us_hset", "us_zrem", "us_delete"} => target[c] \in JobStatus
  BY DEF RedisTypeOK, ClientsTypeOK
<1>d. ASSUME Done(c), UNCHANGED <<status, episode>>  PROVE QueueStep
  <2>1. CASE c \in Workers
    BY <1>d, <2>1, MovesHeld, HeldSteps
  <2>2. CASE c \notin Workers
    BY <1>d, <2>2, MovesHeld, HeldSteps
  <2> QED  BY <2>1, <2>2
<1>k. ASSUME NEW label \in PC, Continue(c, label),
             \/ pc[c] \in {"us_hset", "us_zrem"} /\ label \in {"us_zrem", "us_delete"}
             \/ pc[c] \in {"rel_hset", "rel_zadd"} /\ label \in {"rel_zadd", "rel_delete"}
      PROVE  SameHeld
  <2>1. \A j \in Jobs : Owns(c, j)' <=> Owns(c, j)
    BY <1>k DEF Continue, Goto, Owns, RedisTypeOK, ClientsTypeOK
  <2> QED  BY <1>k, <2>1, MovesHeld
<1>1. CASE EnqueueZadd(c) \/ UpdateDelete(c) \/ ReleaseDelete(c)
  BY <1>1, <1>d DEF EnqueueZadd, UpdateDelete, ReleaseDelete
<1>2. CASE UpdateHset(c)
  <2>1. cur[c] \in Jobs /\ target[c] \in JobStatus /\ hset_status(cur[c], target[c])
    BY <1>2, <1>c, <1>t DEF UpdateHset
  <2>2. CASE target[c] = "queued"
    <3>1. c \notin Workers
      BY <1>2, <2>2 DEF UpdateHset, WorkerTargets
    <3>2. SameHeld
      BY <1>2, <2>2, <3>1, MovesHeld DEF UpdateHset
    <3> QED  BY <2>1, <2>2, <3>2, CommandsWait, HeldSteps
  <2>3. CASE target[c] # "queued"
    <3>1. SameHeld
      BY <1>2, <1>l, <1>k, <2>3 DEF UpdateHset
    <3> QED  BY <2>1, <2>3, <3>1, CommandsWait, HeldSteps
  <2> QED  BY <2>2, <2>3
<1>3. CASE UpdateZrem(c)
  <2>1. UNCHANGED <<status, episode>>
    BY <1>3 DEF UpdateZrem
  <2>2. CASE Done(c)
    BY <1>d, <2>1, <2>2
  <2>3. CASE Continue(c, "us_delete")
    <3>1. SameHeld
      BY <1>3, <1>l, <1>k, <2>3 DEF UpdateZrem
    <3> QED  BY <2>1, <3>1, HeldSteps
  <2> QED  BY <1>3, <2>2, <2>3 DEF UpdateZrem
<1>4. CASE ReleaseHset(c)
  <2>1. SameHeld
    BY <1>4, <1>l, <1>k DEF ReleaseHset
  <2> QED  BY <1>4, <1>c, <2>1, CommandsWait, HeldSteps DEF ReleaseHset
<1>5. CASE ReleaseZadd(c)
  <2>1. SameHeld
    BY <1>5, <1>l, <1>k DEF ReleaseZadd
  <2> QED  BY <1>5, <2>1, HeldSteps DEF ReleaseZadd
<1> QED
  BY <1>1, <1>2, <1>3, <1>4, <1>5 DEF MethodStep

\* Every step is a step of the abstract queue or invisible there.
LEMMA RedisNextQueue ==
  ASSUME RedisTypeOK, WorkerTargets, [Next]_vars
  PROVE  QueueStep
<1>l. /\ {"enq_zadd", "us_hset", "rel_hset", "reap_exists"} \subseteq PC
      /\ {"queued", "cancelled"} \subseteq JobStatus
  BY DEF PC, JobStatus
<1>1. ASSUME NEW w \in Workers, WorkerStep(w)  PROVE QueueStep
  BY <1>1, WorkerStepQueue
<1>2. ASSUME NEW c \in Clients, MethodStep(c)  PROVE QueueStep
  BY <1>2, MethodStepQueue
<1>3. ASSUME NEW c \in Clients, Crash(c)  PROVE QueueStep
  <2>1. SameHeld \/ (c \in Workers /\ LetsGo(c))
    BY <1>3, MovesHeld DEF Crash
  <2> QED  BY <1>3, <2>1, HeldSteps DEF Crash, store
<1>4. ASSUME NEW c \in Callers, CallerStep(c)  PROVE QueueStep
  <2>c. c \in Clients /\ c \notin Workers
    BY RedisConstants DEF RedisConstants, Clients
  <2>1. ASSUME NEW j \in Jobs, EnqueueHset(c, j)  PROVE QueueStep
    <3>1. SameHeld
      BY <1>l, <2>c, <2>1, MovesHeld DEF EnqueueHset
    <3> QED  BY <2>1, <3>1, CommandsWait, HeldSteps DEF EnqueueHset
  <2>2. ASSUME NEW j \in Jobs, CallerCancels(c, j) \/ CallerRetries(c, j) \/ CallerUpdates(c, j)
        PROVE  QueueStep
    <3>1. SameHeld
      BY <1>l, <2>c, <2>2, MovesHeld DEF CallerCancels, CallerRetries, CallerUpdates
    <3> QED  BY <2>2, <3>1, HeldSteps DEF CallerCancels, CallerRetries, CallerUpdates, store
  <2> QED  BY <1>4, <2>1, <2>2 DEF CallerStep
<1>5. ASSUME NEW r \in Reapers, ReaperStep(r)  PROVE QueueStep
  <2>c. r \in Clients /\ r \notin Workers
    BY RedisConstants DEF RedisConstants, Clients
  <2>1. ASSUME ReapExists(r)  PROVE QueueStep
    <3>1. ASSUME Continue(r, "rel_hset")  PROVE SameHeld
      BY <2>c, <3>1 DEF Continue, Goto, SameHeld, Owns, RedisTypeOK, ClientsTypeOK, Clients
    <3>2. SameHeld
      BY <2>c, <2>1, <3>1, MovesHeld DEF ReapExists
    <3> QED  BY <2>1, <3>2, HeldSteps DEF ReapExists, store
  <2>2. ASSUME NEW j \in Jobs, ReapStatus(r, j)  PROVE QueueStep
    <3>1. SameHeld
      BY <1>l, <2>c, <2>2, MovesHeld DEF ReapStatus
    <3> QED  BY <2>2, <3>1, HeldSteps DEF ReapStatus, store
  <2> QED  BY <1>5, <2>1, <2>2 DEF ReaperStep
<1>6. ASSUME UNCHANGED <<status, episode, clients>>  PROVE QueueStep
  <2>1. SameHeld
    BY <1>6 DEF SameHeld, Owns, clients
  <2> QED  BY <1>6, <2>1, HeldSteps
<1>7. ASSUME NEW j \in Jobs, LeaseExpires(j)  PROVE QueueStep
  BY <1>6, <1>7 DEF LeaseExpires
<1>8. CASE UNCHANGED vars
  BY <1>6, <1>8 DEF vars, store
<1> QED
  BY <1>1, <1>2, <1>3, <1>4, <1>5, <1>7, <1>8 DEF Next

\* Every step keeps what workers write: only the end of a handler begins an
\* update_status of a worker.
LEMMA KeepTargets ==
  ASSUME RedisTypeOK, WorkerTargets, [Next]_vars
  PROVE  WorkerTargets'
<1> USE DEF RedisTypeOK, ClientsTypeOK, WorkerTargets
<1>n. \A w \in Workers : w \in Clients
  BY DEF Clients
<1>o. "queued" \notin Outcomes
  BY RedisConstants DEF RedisConstants
\* The four ways in which a client moves.
<1>d. ASSUME NEW c \in Clients, Done(c)  PROVE WorkerTargets'
  BY <1>d, <1>n DEF Done, Start, Goto
<1>k. ASSUME NEW c \in Clients, NEW label \in PC, Continue(c, label),
             label \in {"us_zrem", "us_delete"} => pc[c] \in {"us_hset", "us_zrem"},
             label # "us_hset"
      PROVE  WorkerTargets'
  BY <1>k, <1>n DEF Continue, Goto
<1>b. ASSUME NEW c \in Clients, NEW j, NEW s, NEW label, Start(c, j, s, label),
             c \notin Workers \/ label = "claim" \/ s # "queued"
      PROVE  WorkerTargets'
  BY <1>b, <1>n DEF Start, Goto
<1>u. UNCHANGED <<pc, target>> => WorkerTargets'
  OBVIOUS
<1>1. ASSUME NEW w \in Workers, WorkerStep(w)  PROVE WorkerTargets'
  <2>1. CASE Dequeue(w)
    BY <1>n, <2>1 DEF Dequeue, Goto
  <2>2. ASSUME NEW j \in Jobs, DequeueGet(w, j)  PROVE WorkerTargets'
    BY <1>b, <1>u, <1>n, <2>2 DEF DequeueGet
  <2>3. CASE DequeueEmpty(w) \/ ClaimLost(w) \/ ClaimError(w)
    BY <1>d, <1>n, <2>3 DEF DequeueEmpty, ClaimLost, ClaimError
  <2>4. CASE ClaimWon(w)
    BY <1>n, <2>4 DEF ClaimWon, Goto
  <2>5. CASE HandlerEnds(w)
    BY <1>b, <1>n, <1>o, <2>5 DEF HandlerEnds
  <2> QED  BY <1>1, <2>1, <2>2, <2>3, <2>4, <2>5 DEF WorkerStep
<1>2. ASSUME NEW c \in Clients, MethodStep(c)  PROVE WorkerTargets'
  <2>l. {"us_zrem", "us_delete", "rel_zadd", "rel_delete"} \subseteq PC
    BY DEF PC
  <2>1. CASE EnqueueZadd(c) \/ UpdateDelete(c) \/ ReleaseDelete(c)
    BY <1>d, <2>1 DEF EnqueueZadd, UpdateDelete, ReleaseDelete
  <2>2. CASE UpdateHset(c) \/ UpdateZrem(c)
    BY <1>d, <1>k, <2>l, <2>2 DEF UpdateHset, UpdateZrem
  <2>3. CASE ReleaseHset(c) \/ ReleaseZadd(c)
    BY <1>k, <2>l, <2>3 DEF ReleaseHset, ReleaseZadd
  <2> QED  BY <1>2, <2>1, <2>2, <2>3 DEF MethodStep
<1>3. ASSUME NEW c \in Clients, Crash(c)  PROVE WorkerTargets'
  BY <1>3, <1>d DEF Crash
<1>4. ASSUME NEW c \in Callers, CallerStep(c)  PROVE WorkerTargets'
  <2>c. c \in Clients /\ c \notin Workers
    BY RedisConstants DEF RedisConstants, Clients
  <2> QED
    BY <1>4, <1>b, <2>c DEF CallerStep, EnqueueHset, CallerCancels, CallerRetries, CallerUpdates
<1>5. ASSUME NEW r \in Reapers, ReaperStep(r)  PROVE WorkerTargets'
  <2>c. r \in Clients /\ r \notin Workers /\ "rel_hset" \in PC
    BY RedisConstants DEF RedisConstants, Clients, PC
  <2> QED  BY <1>5, <1>b, <1>d, <1>k, <2>c DEF ReaperStep, ReapStatus, ReapExists
<1>6. ASSUME NEW j \in Jobs, LeaseExpires(j)  PROVE WorkerTargets'
  BY <1>6, <1>u DEF LeaseExpires, clients
<1>7. CASE UNCHANGED vars
  BY <1>7, <1>u DEF vars, clients
<1> QED
  BY <1>1, <1>2, <1>3, <1>4, <1>5, <1>6, <1>7 DEF Next

\* The Redis backend implements the queue of exclusive claims: every command
\* and script, a lost reply, an expired lease and the death of a client between
\* two commands is a step of ClaimQueue or leaves its state alone.
THEOREM RedisImplementsClaimQueue == Spec => ImplementsClaimQueue
<1>1. Init => RedisTypeOK /\ WorkerTargets
  BY DEF Init, RedisTypeOK, KeysTypeOK, ClientsTypeOK, WorkerTargets, PC, Clients
<1>2. Init => Queue!Init
  BY DEF Init, Queue!Init, Owns, Clients
<1>3. RedisTypeOK /\ WorkerTargets /\ [Next]_vars => (RedisTypeOK /\ WorkerTargets)'
  BY RedisNextType, KeepTargets
<1>4. RedisTypeOK /\ WorkerTargets /\ [Next]_vars => [Queue!Next]_(Queue!queueVars)
  BY RedisNextQueue DEF QueueStep
<1> QED
  BY <1>1, <1>2, <1>3, <1>4, PTL DEF Spec, ImplementsClaimQueue, Queue!Spec

-----------------------------------------------------------------------------
(* What ClaimQueue promises, and so the backend.                           *)

\* The state of an abstract queue in which Exclusive is inductive: wt waits,
\* st counts the stays, hd are the grants.
Granted(wt, st, hd) ==
  \A w \in Workers : \A g \in hd[w] :
    /\ g \in Jobs \X Nat
    /\ g[2] <= st[g[1]]
    /\ g[1] \in wt => g[2] < st[g[1]]
Apart(hd) == \A v, w \in Workers : v # w => hd[v] \cap hd[w] = {}
QueueInvOf(wt, st, hd) ==
  /\ st \in [Jobs -> Nat]
  /\ DOMAIN hd = Workers
  /\ Granted(wt, st, hd)
  /\ Apart(hd)

\* A new stay is later than every grant.
LEMMA PutKeeps ==
  ASSUME NEW wt, NEW st, NEW hd, QueueInvOf(wt, st, hd), NEW j \in Jobs
  PROVE  QueueInvOf(wt \cup {j}, [st EXCEPT ![j] = @ + 1], hd)
<1> DEFINE st2 == [st EXCEPT ![j] = @ + 1]
<1>1. st2 \in [Jobs -> Nat] /\ \A k \in Jobs : st2[k] = IF k = j THEN st[k] + 1 ELSE st[k]
  BY DEF QueueInvOf
<1>2. ASSUME NEW w \in Workers, NEW g \in hd[w]
      PROVE  /\ g \in Jobs \X Nat
             /\ g[2] <= st2[g[1]]
             /\ g[1] \in wt \cup {j} => g[2] < st2[g[1]]
  <2>1. /\ g \in Jobs \X Nat
        /\ g[2] <= st[g[1]]
        /\ g[1] \in wt => g[2] < st[g[1]]
    BY <1>2 DEF QueueInvOf, Granted
  <2>2. g[1] \in Jobs /\ g[2] \in Nat /\ st[g[1]] \in Nat
    BY <2>1 DEF QueueInvOf
  <2>3. st2[g[1]] = IF g[1] = j THEN st[g[1]] + 1 ELSE st[g[1]]
    BY <1>1, <2>2
  <2> HIDE DEF st2
  <2> QED  BY <2>1, <2>2, <2>3
<1>3. Granted(wt \cup {j}, st2, hd)
  <2> HIDE DEF st2
  <2> QED  BY <1>2, Zenon DEF Granted
<1> QED  BY <1>1, <1>3 DEF QueueInvOf

\* A job that leaves the queue disturbs no grant.
LEMMA WithdrawKeeps ==
  ASSUME NEW wt, NEW st, NEW hd, QueueInvOf(wt, st, hd), NEW j
  PROVE  QueueInvOf(wt \ {j}, st, hd)
  BY DEF QueueInvOf, Granted

\* Nor does a worker that lets go.
LEMMA LetGoKeeps ==
  ASSUME NEW wt, NEW st, NEW hd, QueueInvOf(wt, st, hd), NEW w \in Workers
  PROVE  QueueInvOf(wt, st, [hd EXCEPT ![w] = {}])
<1> DEFINE hd2 == [hd EXCEPT ![w] = {}]
<1>1. DOMAIN hd2 = Workers /\ \A v \in Workers : hd2[v] \subseteq hd[v]
  BY DEF QueueInvOf
<1> HIDE DEF hd2
<1>2. Granted(wt, st, hd2)
  BY <1>1, Zenon DEF QueueInvOf, Granted
<1>3. Apart(hd2)
  <2> SUFFICES ASSUME NEW u \in Workers, NEW v \in Workers, u # v
               PROVE  hd2[u] \cap hd2[v] = {}
    BY DEF Apart
  <2> QED  BY <1>1 DEF QueueInvOf, Apart
<1> QED  BY <1>1, <1>2, <1>3 DEF QueueInvOf, hd2

\* The stay of a waiting job was granted to nobody, so its taker has it alone.
LEMMA TakeKeeps ==
  ASSUME NEW wt, NEW st, NEW hd, QueueInvOf(wt, st, hd), NEW w \in Workers,
         NEW j \in Jobs, j \in wt
  PROVE  QueueInvOf(wt \ {j}, st, [hd EXCEPT ![w] = @ \cup {<<j, st[j]>>}])
<1> DEFINE new == <<j, st[j]>>
           hd2 == [hd EXCEPT ![w] = @ \cup {new}]
<1>1. DOMAIN hd2 = Workers
      /\ \A v \in Workers : hd2[v] = IF v = w THEN hd[v] \cup {new} ELSE hd[v]
  BY DEF QueueInvOf
<1>2. new \in Jobs \X Nat /\ new[1] = j /\ new[2] = st[j]
  BY DEF QueueInvOf
<1>3. \A v \in Workers : new \notin hd[v]
  <2> SUFFICES ASSUME NEW v \in Workers, new \in hd[v]  PROVE FALSE
    OBVIOUS
  <2>1. new[2] < st[new[1]]
    <3> HIDE DEF new
    <3> QED  BY <1>2 DEF QueueInvOf, Granted
  <2>2. st[j] \in Nat
    BY DEF QueueInvOf
  <2> HIDE DEF new
  <2> QED  BY <1>2, <2>1, <2>2
<1>4. st[j] <= st[j]
  BY DEF QueueInvOf
<1> HIDE DEF new, hd2
<1>5. Granted(wt \ {j}, st, hd2)
  <2> SUFFICES ASSUME NEW v \in Workers, NEW g \in hd2[v]
               PROVE  /\ g \in Jobs \X Nat
                      /\ g[2] <= st[g[1]]
                      /\ g[1] \in wt \ {j} => g[2] < st[g[1]]
    BY Zenon DEF Granted
  <2>1. CASE g = new
    BY <1>2, <1>4, <2>1
  <2>2. CASE g \in hd[v]
    BY <2>2 DEF QueueInvOf, Granted
  <2> QED  BY <1>1, <2>1, <2>2
<1>6. Apart(hd2)
  <2> SUFFICES ASSUME NEW u \in Workers, NEW v \in Workers, u # v
               PROVE  hd2[u] \cap hd2[v] = {}
    BY DEF Apart
  <2>1. hd[u] \cap hd[v] = {}
    BY DEF QueueInvOf, Apart
  <2> QED  BY <1>1, <1>3, <2>1
<1> QED  BY <1>1, <1>5, <1>6 DEF QueueInvOf, hd2, new

\* The invariant of the abstract queue, under the refinement mapping.
QueueInv == QueueInvOf(Waiting, episode, HeldMap)

\* Every step of the abstract queue keeps it.
LEMMA QueueInvStep == QueueInv /\ [Queue!Next]_(Queue!queueVars) => QueueInv'
<1> SUFFICES ASSUME QueueInv, [Queue!Next]_(Queue!queueVars)
             PROVE  QueueInvOf(Waiting', episode', HeldMap')
  BY DEF QueueInv
<1>0. QueueInvOf(Waiting, episode, HeldMap)
  BY DEF QueueInv
<1>1. ASSUME NEW j \in Jobs, Queue!Put(j)
      PROVE  QueueInvOf(Waiting', episode', HeldMap')
  <2>1. /\ Waiting' = Waiting \cup {j} /\ episode' = [episode EXCEPT ![j] = @ + 1]
        /\ HeldMap' = HeldMap
    BY <1>1 DEF Queue!Put, Waiting, HeldMap
  <2> QED  BY <1>0, <2>1, PutKeeps, Zenon
<1>2. ASSUME NEW j \in Jobs, Queue!Withdraw(j)
      PROVE  QueueInvOf(Waiting', episode', HeldMap')
  <2>1. Waiting' = Waiting \ {j} /\ episode' = episode /\ HeldMap' = HeldMap
    BY <1>2 DEF Queue!Withdraw, Waiting, HeldMap
  <2> QED  BY <1>0, <2>1, WithdrawKeeps, Zenon
<1>3. ASSUME NEW w \in Workers, Queue!LetGo(w)
      PROVE  QueueInvOf(Waiting', episode', HeldMap')
  <2>1. Waiting' = Waiting /\ episode' = episode /\ HeldMap' = [HeldMap EXCEPT ![w] = {}]
    BY <1>3 DEF Queue!LetGo, Waiting, HeldMap
  <2> QED  BY <1>0, <2>1, LetGoKeeps, Zenon
<1>4. ASSUME NEW w \in Workers, NEW j \in Jobs, Queue!Take(w, j)
      PROVE  QueueInvOf(Waiting', episode', HeldMap')
  <2>1. /\ j \in Waiting /\ Waiting' = Waiting \ {j} /\ episode' = episode
        /\ HeldMap' = [HeldMap EXCEPT ![w] = @ \cup {<<j, episode[j]>>}]
    BY <1>4 DEF Queue!Take, Waiting, HeldMap
  <2> QED  BY <1>0, <2>1, TakeKeeps, Zenon
<1>5. CASE UNCHANGED Queue!queueVars
  <2>1. Waiting' = Waiting /\ episode' = episode /\ HeldMap' = HeldMap
    BY <1>5 DEF Queue!queueVars, Waiting, HeldMap
  <2> QED  BY <1>0, <2>1, Zenon
<1> QED  BY <1>1, <1>2, <1>3, <1>4, <1>5 DEF Queue!Next

\* The abstract queue, in the state the mapping gives it, keeps its promise:
\* no stay of a job in the queue is held by two workers.
THEOREM QueueExclusive == Queue!Spec => []Queue!Exclusive
<1>1. Queue!Init => QueueInv
  <2> SUFFICES ASSUME Queue!Init  PROVE QueueInv
    OBVIOUS
  <2>1. episode = [j \in Jobs |-> 0] /\ HeldMap = [w \in Workers |-> {}]
    BY DEF Queue!Init, HeldMap
  <2> HIDE DEF HeldMap
  <2> QED  BY <2>1 DEF QueueInv, QueueInvOf, Granted, Apart
<1>2. QueueInv => Queue!Exclusive
  <2> SUFFICES ASSUME QueueInv  PROVE Queue!Exclusive
    OBVIOUS
  <2>1. Apart(HeldMap)
    BY DEF QueueInv, QueueInvOf
  <2> QED  BY <2>1 DEF Apart, Queue!Exclusive, HeldMap
<1> HIDE DEF QueueInv
<1> QED
  BY <1>1, <1>2, QueueInvStep, PTL DEF Queue!Spec

\* So does the Redis backend, by the refinement alone: claims are exclusive
\* whatever its commands look like from inside.
THEOREM RedisQueueExclusive == Spec => []Queue!Exclusive
  BY RedisImplementsClaimQueue, QueueExclusive, PTL DEF ImplementsClaimQueue

-----------------------------------------------------------------------------
(* The hybrid backend: its inductive invariants.                           *)

\* HybridTypeOK without the sequences of ids, which nothing below looks at.
Debt == [call : Calls, job : Jobs \cup {None}, status : JobStatus \cup {None}]
HybridTypes ==
  /\ RedisTypeOK
  /\ row \in [Jobs -> JobStatus \cup {"absent"}]
  /\ attempts \in [Jobs -> Nat] /\ recorded \in [Jobs -> Nat]
  /\ due \in [Clients -> Debt]
  /\ meta \in [Workers -> Nat]
  /\ torn \subseteq Jobs /\ shared \subseteq Jobs

\* A call that is due fits where its client stands, and an insert comes before
\* the job is in Redis.
Owed(c) ==
  /\ due[c].call = "none" => due[c] = Nothing
  /\ due[c].call # "none" => due[c].job \in Jobs
  /\ due[c].call \in {"redis_enqueue", "update"} => pc[c] = "idle"
  /\ due[c].call = "redis_enqueue" => c \in Callers /\ row[due[c].job] # "absent"
  /\ due[c].call = "update" => due[c].status \in JobStatus
  /\ due[c].call \in {"claim_read", "claim_write", "record_write", "put_write"} =>
       c \in Workers /\ pc[c] = "running" /\ cur[c] = due[c].job

\* A method works on a job that Redis has, and writes what methods write.
Present(c) == pc[c] \notin {"idle", "get"} => status[cur[c]] # "absent"
Targets(c) == pc[c] \in {"us_hset", "us_zrem", "us_delete"} =>
                target[c] \in Outcomes \cup {"cancelled", "queued"}
DurableInv == DurableBeforeDispatch /\ \A c \in Clients : Owed(c) /\ Present(c) /\ Targets(c)

\* What makes AttemptsKept inductive: a job that was never shared is in one
\* worker's hands, and what that worker read of its meta column is still there.
SoleHand ==
  \A v, w \in Workers : \A j \in Jobs \ shared : v # w => ~(InHand(v, j) /\ InHand(w, j))
FreshMeta ==
  \A w \in Workers :
    due[w].call \in {"claim_write", "record_write", "put_write"} /\ due[w].job \notin shared =>
      meta[w] = attempts[due[w].job]
AttemptsInv == SoleHand /\ FreshMeta /\ AttemptsKept

\* What makes StoresAgree inductive: a job that is not torn is moved by one
\* client at a time, and how far its method has come says what the two stores
\* hold.
Moving(c, j) == Changing(c, j) \/ (due[c].job = j /\ due[c].call \notin {"record_write", "put_write"})
Phase(c, j) ==
  /\ cur[c] = j =>
       /\ pc[c] \in {"enq_zadd", "us_hset", "rel_zadd", "rel_delete"} => row[j] = status[j]
       /\ pc[c] \in {"us_zrem", "us_delete"} => status[j] = target[c]
       /\ pc[c] = "rel_hset" => row[j] = "queued"
       /\ pc[c] \in {"rel_zadd", "rel_delete"} => status[j] = "queued"
  /\ due[c].job = j =>
       /\ due[c].call = "redis_enqueue" => row[j] = "queued"
       /\ due[c].call \in {"claim_read", "claim_write"} => row[j] = "queued" /\ status[j] = "running"
       /\ due[c].call = "update" => status[j] = due[c].status
SoleMover == \A c, d \in Clients : \A j \in Jobs \ torn : Moving(c, j) /\ Moving(d, j) => c = d
InPhase == \A c \in Clients : \A j \in Jobs \ torn : Phase(c, j)
Agree == \A j \in Jobs \ torn : (\A c \in Clients : ~Moving(c, j)) => row[j] = status[j]
MoveInv == SoleMover /\ InPhase /\ Agree

-----------------------------------------------------------------------------
(* The hybrid backend: its Redis half, and types.                          *)

\* What a step of the hybrid backend is for the Redis backend: one of its own,
\* or the death of a client that owes a call to SQL only.
RedisPart == [Next]_vars \/ \E c \in Clients : Done(c) /\ UNCHANGED store

\* Every step is one.
LEMMA HybridIsRedis ==
  ASSUME \A c \in Clients : Owed(c) /\ (due[c].call # "none" => due[c].job \in Jobs), [HybridNext]_allVars
  PROVE  RedisPart
<1>u. UNCHANGED vars => RedisPart
  BY DEF RedisPart
<1>n. Next => RedisPart
  BY DEF RedisPart
<1>1. ASSUME NEW c \in Callers, NEW j \in Jobs,
             EnqueueSql(c, j) \/ CallerChanges(c, j) \/ CallerChangesSqlOnly(c, j)
      PROVE  RedisPart
  BY <1>1, <1>u, <1>n DEF EnqueueSql, CallerChanges, CallerChangesSqlOnly, Next, CallerStep
<1>2. ASSUME NEW w \in Workers, ClaimRedis(w) \/ ClaimRefused(w) \/ ClaimUnanswered(w) \/ HandlerDone(w)
      PROVE  RedisPart
  BY <1>2, <1>n DEF ClaimRedis, ClaimRefused, ClaimUnanswered, HandlerDone, Next, WorkerStep
<1>3. ASSUME NEW w \in Workers,
             \/ ClaimSqlRead(w) \/ ClaimSqlWrite(w) \/ RecordAttemptWrite(w) \/ PutMetaWrite(w)
             \/ MetaRead(w, "record_write") \/ MetaRead(w, "put_write")
      PROVE  RedisPart
  BY <1>3, <1>u DEF ClaimSqlRead, ClaimSqlWrite, RecordAttemptWrite, PutMetaWrite, MetaRead
<1>4. ASSUME NEW c \in Clients, EnqueueRedis(c)  PROVE RedisPart
  <2>1. c \in Callers /\ due[c].job \in Jobs /\ EnqueueHset(c, due[c].job)
    BY <1>4 DEF EnqueueRedis, Owed
  <2> QED  BY <1>n, <2>1 DEF Next, CallerStep
<1>5. ASSUME NEW c \in Clients, RedisStep(c) \/ UpdateRedis(c)  PROVE RedisPart
  BY <1>5, <1>n DEF RedisStep, UpdateRedis, Next, WorkerStep, MethodStep
<1>6. ASSUME NEW c \in Clients, UpdateSql(c) \/ Abandon(c)  PROVE RedisPart
  BY <1>6, <1>u DEF UpdateSql, Abandon, RedisPart
<1>7. ASSUME NEW j \in Jobs, LeaseExpires(j)  PROVE RedisPart
  BY <1>7, <1>n DEF Next
<1>8. CASE UNCHANGED allVars
  BY <1>8, <1>u DEF allVars
<1> QED
  BY <1>1, <1>2, <1>3, <1>4, <1>5, <1>6, <1>7, <1>8 DEF HybridNext

\* Such a step keeps the Redis half well typed and its claims exclusive.
LEMMA RedisPartKeeps ==
  ASSUME RedisTypeOK, RedisPart
  PROVE  RedisTypeOK' /\ (ClaimInv => ClaimInv')
<1>1. CASE [Next]_vars
  BY <1>1, RedisNextType, RedisNextClaims
<1>2. ASSUME NEW c \in Clients, Done(c), UNCHANGED store  PROVE RedisTypeOK' /\ (ClaimInv => ClaimInv')
  <2>1. RedisTypeOK'
    <3>1. ClientsTypeOK'
      BY <1>2, ClientMoves DEF RedisTypeOK
    <3> QED  BY <1>2, <3>1 DEF RedisTypeOK, KeysTypeOK, store
  <2>2. OwnersKept /\ StaysKept
    BY <1>2, MovesKeepOwners DEF StaysKept, store
  <2> QED  BY <2>1, <2>2, KeepClaims
<1> QED  BY <1>1, <1>2 DEF RedisPart

\* A client's debt is recorded, paid or left alone.
LEMMA DebtTypes ==
  ASSUME due \in [Clients -> Debt], NEW c \in Clients
  PROVE  /\ Paid(c) => due' \in [Clients -> Debt]
         /\ \A call \in Calls, j \in Jobs \cup {None}, s \in JobStatus \cup {None} :
              Owe(c, call, j, s) => due' \in [Clients -> Debt]
<1>1. Nothing \in Debt
  BY DEF Nothing, Debt, Calls
<1>2. ASSUME NEW call \in Calls, NEW j \in Jobs \cup {None}, NEW s \in JobStatus \cup {None},
             Owe(c, call, j, s)
      PROVE  due' \in [Clients -> Debt]
  <2>1. [call |-> call, job |-> j, status |-> s] \in Debt
    BY DEF Debt
  <2> QED  BY <1>2, <2>1 DEF Owe
<1> QED  BY <1>1, <1>2 DEF Paid

\* What a client works on is a job, and so is what it owes a call for.
LEMMA WorkTypes ==
  ASSUME HybridTypes, NEW c \in Clients, Owed(c)
  PROVE  /\ pc[c] \in PC /\ cur[c] \in Jobs \cup {None}
         /\ pc[c] \notin {"idle", "get"} => cur[c] \in Jobs
         /\ pc[c] \in {"us_hset", "us_zrem", "us_delete"} => target[c] \in JobStatus
         /\ due[c] \in Debt /\ due[c].call \in Calls
         /\ due[c].call # "none" => due[c].job \in Jobs
BY DEF HybridTypes, RedisTypeOK, ClientsTypeOK, Owed, Debt

\* Every step keeps the types.
LEMMA HybridStepType ==
  ASSUME HybridTypes, \A c \in Clients : Owed(c), [HybridNext]_allVars
  PROVE  HybridTypes'
<1>r. RedisTypeOK'
  <2>1. RedisPart
    BY WorkTypes, HybridIsRedis
  <2> QED  BY <2>1, RedisPartKeeps DEF HybridTypes
<1>t. /\ row \in [Jobs -> JobStatus \cup {"absent"}]
      /\ attempts \in [Jobs -> Nat] /\ recorded \in [Jobs -> Nat]
      /\ due \in [Clients -> Debt]
      /\ meta \in [Workers -> Nat]
      /\ torn \subseteq Jobs /\ shared \subseteq Jobs
  BY DEF HybridTypes
<1>w. Workers \subseteq Clients /\ Callers \subseteq Clients
  BY DEF Clients
<1>s. /\ {"queued", "running", "cancelled"} \subseteq JobStatus
      /\ {"redis_enqueue", "claim_read", "claim_write", "record_write", "put_write", "update"} \subseteq Calls
  BY DEF JobStatus, Calls
<1>j. \A c \in Clients, j \in Jobs : Tears(c, j) \subseteq Jobs /\ Shares(c, j) \subseteq Jobs
  BY <1>t DEF Tears, Shares
<1>1. ASSUME NEW c \in Callers, NEW j \in Jobs, EnqueueSql(c, j)  PROVE HybridTypes'
  <2>1. row' \in [Jobs -> JobStatus \cup {"absent"}] /\ UNCHANGED <<attempts, meta, recorded, shared>>
    BY <1>1, <1>t, <1>s DEF EnqueueSql
  <2>2. due' \in [Clients -> Debt]
    BY <1>1, <1>t, <1>s, <1>w, DebtTypes DEF EnqueueSql
  <2>3. torn' \subseteq Jobs
    BY <1>1, <1>j, <1>w DEF EnqueueSql
  <2> QED  BY <1>r, <1>t, <2>1, <2>2, <2>3 DEF HybridTypes
<1>2. ASSUME NEW c \in Callers, NEW j \in Jobs, CallerChanges(c, j) \/ CallerChangesSqlOnly(c, j)
      PROVE  HybridTypes'
  <2>1. row' \in [Jobs -> JobStatus \cup {"absent"}] /\ UNCHANGED <<attempts, due, meta, recorded, shared>>
    BY <1>2, <1>t, <1>s DEF CallerChanges, CallerChangesSqlOnly
  <2>2. torn' \subseteq Jobs
    BY <1>2, <1>j, <1>w DEF CallerChanges, CallerChangesSqlOnly
  <2> QED  BY <1>r, <1>t, <2>1, <2>2 DEF HybridTypes
<1>3. ASSUME NEW w \in Workers, ClaimRedis(w)  PROVE HybridTypes'
  <2>1. cur[w] \in Jobs
    BY <1>3, <1>w, WorkTypes DEF ClaimRedis, ClaimWon
  <2>2. due' \in [Clients -> Debt] /\ torn' \subseteq Jobs /\ shared' \subseteq Jobs
    BY <1>3, <1>t, <1>s, <1>w, <1>j, <2>1, DebtTypes DEF ClaimRedis
  <2> QED  BY <1>3, <1>r, <1>t, <2>2 DEF ClaimRedis, HybridTypes
<1>4. ASSUME NEW w \in Workers, ClaimSqlRead(w) \/ ClaimSqlWrite(w)  PROVE HybridTypes'
  <2>1. due[w].job \in Jobs
    BY <1>4, <1>w, WorkTypes DEF ClaimSqlRead, ClaimSqlWrite
  <2>2. due' \in [Clients -> Debt]
    BY <1>4, <1>t, <1>s, <1>w, <2>1, DebtTypes DEF ClaimSqlRead, ClaimSqlWrite
  <2>3. meta' \in [Workers -> Nat]
    BY <1>4, <1>t, <2>1 DEF ClaimSqlRead, ClaimSqlWrite, Forget
  <2>4. row' \in [Jobs -> JobStatus \cup {"absent"}] /\ attempts' \in [Jobs -> Nat]
    BY <1>4, <1>t, <1>s, <2>1 DEF ClaimSqlRead, ClaimSqlWrite
  <2> QED  BY <1>4, <1>r, <1>t, <2>2, <2>3, <2>4 DEF ClaimSqlRead, ClaimSqlWrite, HybridTypes
<1>5. ASSUME NEW w \in Workers, RecordAttemptWrite(w) \/ PutMetaWrite(w)  PROVE HybridTypes'
  <2>1. due[w].job \in Jobs
    BY <1>5, <1>w, WorkTypes DEF RecordAttemptWrite, PutMetaWrite
  <2>2. due' \in [Clients -> Debt]
    BY <1>5, <1>t, <1>w, DebtTypes DEF RecordAttemptWrite, PutMetaWrite
  <2>3. meta' \in [Workers -> Nat]
    BY <1>5, <1>t DEF RecordAttemptWrite, PutMetaWrite, Forget
  <2>4. recorded' \in [Jobs -> Nat] /\ attempts' \in [Jobs -> Nat]
    BY <1>5, <1>t, <2>1 DEF RecordAttemptWrite, PutMetaWrite
  <2> QED  BY <1>5, <1>r, <1>t, <2>2, <2>3, <2>4 DEF RecordAttemptWrite, PutMetaWrite, HybridTypes
<1>6. ASSUME NEW w \in Workers, NEW call \in {"record_write", "put_write"}, MetaRead(w, call)
      PROVE  HybridTypes'
  <2>1. cur[w] \in Jobs
    BY <1>6, <1>w, WorkTypes DEF MetaRead
  <2>2. due' \in [Clients -> Debt] /\ meta' \in [Workers -> Nat]
    BY <1>6, <1>t, <1>s, <1>w, <2>1, DebtTypes DEF MetaRead
  <2> QED  BY <1>6, <1>r, <1>t, <2>2 DEF MetaRead, HybridTypes
<1>7. ASSUME NEW w \in Workers, ClaimRefused(w) \/ ClaimUnanswered(w) \/ HandlerDone(w)  PROVE HybridTypes'
  <2>1. cur[w] \in Jobs
    BY <1>7, <1>w, WorkTypes DEF ClaimRefused, ClaimUnanswered, HandlerDone, ClaimLost, ClaimError, HandlerEnds
  <2>2. torn' \subseteq Jobs
    BY <1>7, <1>t, <1>j, <1>w, <2>1 DEF ClaimRefused, ClaimUnanswered, HandlerDone, hybridVars
  <2>3. UNCHANGED <<row, attempts, due, meta, recorded, shared>>
    BY <1>7 DEF ClaimRefused, ClaimUnanswered, HandlerDone, hybridVars
  <2> QED  BY <1>r, <1>t, <2>2, <2>3 DEF HybridTypes
<1>8. ASSUME NEW c \in Clients, EnqueueRedis(c) \/ RedisStep(c)  PROVE HybridTypes'
  <2>1. due' \in [Clients -> Debt] /\ UNCHANGED <<row, attempts, meta, recorded, torn, shared>>
    BY <1>8, <1>t, DebtTypes DEF EnqueueRedis, RedisStep, hybridVars
  <2> QED  BY <1>r, <1>t, <2>1 DEF HybridTypes
<1>9. ASSUME NEW c \in Clients, UpdateRedis(c)  PROVE HybridTypes'
  <2>1. cur[c] \in Jobs /\ target[c] \in JobStatus
    BY <1>9, WorkTypes DEF UpdateRedis, UpdateHset, UpdateZrem, UpdateDelete
  <2>2. due' \in [Clients -> Debt]
    BY <1>9, <1>t, <1>s, <2>1, DebtTypes DEF UpdateRedis
  <2> QED  BY <1>9, <1>r, <1>t, <2>2 DEF UpdateRedis, HybridTypes
<1>10. ASSUME NEW c \in Clients, UpdateSql(c)  PROVE HybridTypes'
  <2>1. due[c].job \in Jobs /\ due[c].status \in JobStatus
    BY <1>10, WorkTypes DEF UpdateSql, Owed
  <2>2. row' \in [Jobs -> JobStatus \cup {"absent"}] /\ due' \in [Clients -> Debt]
    BY <1>10, <1>t, <2>1, DebtTypes DEF UpdateSql
  <2> QED  BY <1>10, <1>r, <1>t, <2>2 DEF UpdateSql, HybridTypes
<1>11. ASSUME NEW c \in Clients, Abandon(c)  PROVE HybridTypes'
  <2>1. due' \in [Clients -> Debt] /\ torn' \subseteq Jobs
    BY <1>11, <1>t, DebtTypes DEF Abandon
  <2>2. meta' \in [Workers -> Nat]
    BY <1>11, <1>t DEF Abandon, Forget
  <2> QED  BY <1>11, <1>r, <1>t, <2>1, <2>2 DEF Abandon, HybridTypes
<1>12. CASE (\E j \in Jobs : LeaseExpires(j) /\ UNCHANGED hybridVars) \/ UNCHANGED allVars
  BY <1>12, <1>r, <1>t DEF HybridTypes, hybridVars, allVars
<1> QED
  BY <1>1, <1>2, <1>3, <1>4, <1>5, <1>6, <1>7, <1>8, <1>9, <1>10, <1>11, <1>12 DEF HybridNext

-----------------------------------------------------------------------------
(* The hybrid backend: what a step does to its client and to its job.      *)

\* Everybody but client c, and every job but j, is as before.
Frame(c, j) ==
  /\ \A d \in Clients \ {c} :
       pc'[d] = pc[d] /\ cur'[d] = cur[d] /\ target'[d] = target[d] /\ due'[d] = due[d]
  /\ \A w \in Workers \ {c} : meta'[w] = meta[w] /\ claimEp'[w] = claimEp[w]
  /\ \A k \in Jobs \ {j} : /\ status'[k] = status[k] /\ row'[k] = row[k]
                           /\ attempts'[k] = attempts[k] /\ recorded'[k] = recorded[k]
                           /\ lease'[k] = lease[k] /\ episode'[k] = episode[k]
  /\ torn \subseteq torn' /\ shared \subseteq shared' /\ expired \subseteq expired'

\* Where the client stands after the step, and what it owes.
Stands(c, p, u, t, d) == pc'[c] = p /\ cur'[c] = u /\ target'[c] = t /\ due'[c] = d
Stays(c) == Stands(c, pc[c], cur[c], target[c], due[c])

\* What the two stores hold of the job after the step.
Holds(j, s, r) == status'[j] = s /\ row'[j] = r
SameMeta(j) == attempts'[j] = attempts[j] /\ recorded'[j] = recorded[j]
SameKeys(j) == lease'[j] = lease[j] /\ episode'[j] = episode[j]

\* The ways in which a client moves in Redis, client by client.
RedisFrame(c) ==
  /\ \A d \in Clients \ {c} : pc'[d] = pc[d] /\ cur'[d] = cur[d] /\ target'[d] = target[d]
  /\ \A w \in Workers \ {c} : claimEp'[w] = claimEp[w]

\* A client ends a method, goes on with it, or begins one.
LEMMA ClientDoes ==
  ASSUME ClientsTypeOK, NEW c \in Clients
  PROVE  /\ Done(c) => RedisFrame(c) /\ pc'[c] = "idle" /\ cur'[c] = None /\ target'[c] = None
         /\ \A label : Continue(c, label) =>
              RedisFrame(c) /\ pc'[c] = label /\ cur'[c] = cur[c] /\ target'[c] = target[c]
         /\ \A j, s, label : Start(c, j, s, label) /\ UNCHANGED claimEp =>
              RedisFrame(c) /\ pc'[c] = label /\ cur'[c] = j /\ target'[c] = s
<1> USE DEF ClientsTypeOK, RedisFrame, Start, Goto
<1>w. Workers \subseteq Clients
  BY DEF Clients
<1>1. Done(c) => RedisFrame(c) /\ pc'[c] = "idle" /\ cur'[c] = None /\ target'[c] = None
  BY <1>w DEF Done
<1>2. ASSUME NEW label, Continue(c, label)
      PROVE  RedisFrame(c) /\ pc'[c] = label /\ cur'[c] = cur[c] /\ target'[c] = target[c]
  BY <1>2 DEF Continue
<1>3. ASSUME NEW j, NEW s, NEW label, Start(c, j, s, label), UNCHANGED claimEp
      PROVE  RedisFrame(c) /\ pc'[c] = label /\ cur'[c] = j /\ target'[c] = s
  BY <1>3
<1> QED  BY <1>1, <1>2, <1>3

\* The ways in which a debt changes.
DebtFrame(c) == \A d \in Clients \ {c} : due'[d] = due[d]

\* A client owes a call on the other store, or has made it.
LEMMA DebtDoes ==
  ASSUME due \in [Clients -> Debt], NEW c \in Clients
  PROVE  /\ Paid(c) => DebtFrame(c) /\ due'[c] = Nothing
         /\ \A call, j, s : Owe(c, call, j, s) =>
              DebtFrame(c) /\ due'[c] = [call |-> call, job |-> j, status |-> s]
BY DEF Paid, Owe, DebtFrame

\* The ways in which the keys of a job change.
KeyFrame(j) == \A k \in Jobs \ {j} :
  status'[k] = status[k] /\ lease'[k] = lease[k] /\ episode'[k] = episode[k]

\* A status, a lease, or both are written.
LEMMA KeysDo ==
  ASSUME KeysTypeOK, NEW j \in Jobs
  PROVE  /\ \A s : hset_status(j, s) /\ UNCHANGED lease =>
              /\ KeyFrame(j) /\ status'[j] = s /\ lease'[j] = lease[j]
              /\ s # "queued" => episode'[j] = episode[j]
         /\ delete_lease(j) /\ UNCHANGED <<status, episode>> =>
              KeyFrame(j) /\ status'[j] = status[j] /\ lease'[j] = None /\ episode'[j] = episode[j]
         /\ \A w : ClaimLua(w, j) =>
              KeyFrame(j) /\ status'[j] = "running" /\ lease'[j] = w /\ episode'[j] = episode[j]
BY DEF KeysTypeOK, KeyFrame, hset_status, delete_lease, ClaimLua

\* enqueue: the insert.
LEMMA EnqueueSqlDoes ==
  ASSUME HybridTypes, NEW c \in Callers, NEW j \in Jobs, Owed(c), EnqueueSql(c, j)
  PROVE  /\ Frame(c, j) /\ SameMeta(j) /\ SameKeys(j)
         /\ pc[c] = "idle" /\ due[c] = Nothing /\ row[j] = "absent" /\ torn' = Tears(c, j)
         /\ Stands(c, pc[c], cur[c], target[c], [call |-> "redis_enqueue", job |-> j, status |-> None])
         /\ Holds(j, status[j], "queued")
<1> USE DEF EnqueueSql
<1>1. c \in Clients
  BY DEF Clients
<1>2. due[c] = Nothing
  BY DEF Free, Owed
<1>3. DebtFrame(c) /\ due'[c] = [call |-> "redis_enqueue", job |-> j, status |-> None]
  BY <1>1, DebtDoes DEF HybridTypes
<1>4. row'[j] = "queued" /\ \A k \in Jobs \ {j} : row'[k] = row[k]
  BY DEF HybridTypes
<1>5. torn \subseteq torn'
  BY DEF Tears
<1> QED
  BY <1>2, <1>3, <1>4, <1>5 DEF Frame, DebtFrame, Stands, Holds, SameMeta, SameKeys, vars, store, clients

\* enqueue: the first command of the Redis method.
LEMMA EnqueueRedisDoes ==
  ASSUME HybridTypes, NEW c \in Clients, NEW j \in Jobs, j = due[c].job, EnqueueRedis(c)
  PROVE  /\ Frame(c, j) /\ SameMeta(j) /\ lease'[j] = lease[j]
         /\ pc[c] = "idle" /\ due[c].call = "redis_enqueue" /\ status[j] = "absent"
         /\ Stands(c, "enq_zadd", j, None, Nothing)
         /\ Holds(j, "queued", row[j])
<1> USE DEF EnqueueRedis
<1>0. EnqueueHset(c, j)
  OBVIOUS
<1>1. RedisFrame(c) /\ pc'[c] = "enq_zadd" /\ cur'[c] = j /\ target'[c] = None
  BY <1>0, ClientDoes DEF EnqueueHset, HybridTypes, RedisTypeOK
<1>2. DebtFrame(c) /\ due'[c] = Nothing
  BY DebtDoes DEF HybridTypes
<1>3. KeyFrame(j) /\ status'[j] = "queued" /\ lease'[j] = lease[j]
  BY <1>0, KeysDo DEF EnqueueHset, HybridTypes, RedisTypeOK
<1>4. pc[c] = "idle" /\ status[j] = "absent" /\ expired' = expired
  BY <1>0 DEF EnqueueHset
<1> QED
  BY <1>1, <1>2, <1>3, <1>4 DEF Frame, RedisFrame, DebtFrame, KeyFrame, Stands, Holds, SameMeta

\* The later commands of enqueue and release.
LEMMA RedisStepDoes ==
  ASSUME HybridTypes, NEW c \in Clients, NEW j \in Jobs, j = cur[c], Owed(c), Free(c), UNCHANGED hybridVars,
         EnqueueZadd(c) \/ ReleaseHset(c) \/ ReleaseZadd(c) \/ ReleaseDelete(c)
  PROVE  /\ Frame(c, j) /\ SameMeta(j) /\ due[c] = Nothing /\ torn' = torn /\ shared' = shared
         /\ \/ /\ pc[c] = "enq_zadd" /\ SameKeys(j)
               /\ Stands(c, "idle", None, None, Nothing) /\ Holds(j, status[j], row[j])
            \/ /\ pc[c] = "rel_hset" /\ lease'[j] = lease[j]
               /\ Stands(c, "rel_zadd", j, target[c], Nothing) /\ Holds(j, "queued", row[j])
            \/ /\ pc[c] = "rel_zadd" /\ SameKeys(j)
               /\ Stands(c, "rel_delete", j, target[c], Nothing) /\ Holds(j, status[j], row[j])
            \/ /\ pc[c] = "rel_delete"
               /\ Stands(c, "idle", None, None, Nothing) /\ Holds(j, status[j], row[j])
<1>1. due[c] = Nothing /\ due' = due
  BY DEF Free, Owed, hybridVars
<1>t. ClientsTypeOK /\ KeysTypeOK
  BY DEF HybridTypes, RedisTypeOK
<1>f. RedisFrame(c) /\ KeyFrame(j) /\ expired' = expired => Frame(c, j)
  BY DEF Frame, RedisFrame, KeyFrame, hybridVars
<1>r. row' = row /\ attempts' = attempts /\ recorded' = recorded /\ torn' = torn /\ shared' = shared
  BY DEF hybridVars
<1>2. CASE EnqueueZadd(c)
  <2>1. RedisFrame(c) /\ pc'[c] = "idle" /\ cur'[c] = None /\ target'[c] = None
    BY <1>2, <1>t, ClientDoes DEF EnqueueZadd
  <2>2. pc[c] = "enq_zadd" /\ KeyFrame(j) /\ UNCHANGED <<status, lease, episode, expired>>
    BY <1>2 DEF EnqueueZadd, KeyFrame
  <2> QED  BY <1>1, <1>f, <1>r, <2>1, <2>2 DEF Stands, Holds, SameMeta, SameKeys
<1>3. CASE ReleaseHset(c)
  <2>1. RedisFrame(c) /\ pc'[c] = "rel_zadd" /\ cur'[c] = j /\ target'[c] = target[c]
    BY <1>3, <1>t, ClientDoes DEF ReleaseHset
  <2>2. pc[c] = "rel_hset" /\ KeyFrame(j) /\ status'[j] = "queued" /\ lease'[j] = lease[j] /\ expired' = expired
    BY <1>3, <1>t, KeysDo DEF ReleaseHset
  <2> QED  BY <1>1, <1>f, <1>r, <2>1, <2>2 DEF Stands, Holds, SameMeta
<1>4. CASE ReleaseZadd(c)
  <2>1. RedisFrame(c) /\ pc'[c] = "rel_delete" /\ cur'[c] = j /\ target'[c] = target[c]
    BY <1>4, <1>t, ClientDoes DEF ReleaseZadd
  <2>2. pc[c] = "rel_zadd" /\ KeyFrame(j) /\ UNCHANGED <<status, lease, episode, expired>>
    BY <1>4 DEF ReleaseZadd, KeyFrame
  <2> QED  BY <1>1, <1>f, <1>r, <2>1, <2>2 DEF Stands, Holds, SameMeta, SameKeys
<1>5. CASE ReleaseDelete(c)
  <2>1. RedisFrame(c) /\ pc'[c] = "idle" /\ cur'[c] = None /\ target'[c] = None
    BY <1>5, <1>t, ClientDoes DEF ReleaseDelete
  <2>2. pc[c] = "rel_delete" /\ KeyFrame(j) /\ status'[j] = status[j] /\ expired' = expired
    BY <1>5, <1>t, KeysDo DEF ReleaseDelete
  <2> QED  BY <1>1, <1>f, <1>r, <2>1, <2>2 DEF Stands, Holds, SameMeta
<1> QED  BY <1>2, <1>3, <1>4, <1>5

\* What happens to a worker before its claim concerns nobody: dequeue, and a
\* claim that Redis refuses.
Looking == {"idle", "get", "claim"}
Quiet(w) ==
  /\ \A d \in Clients \ {w} : pc'[d] = pc[d] /\ cur'[d] = cur[d] /\ target'[d] = target[d]
  /\ \A v \in Workers \ {w} : claimEp'[v] = claimEp[v]
  /\ pc[w] \in Looking /\ pc'[w] \in Looking /\ due[w] = Nothing
  /\ pc'[w] = "claim" => status[cur'[w]] # "absent"
  /\ UNCHANGED <<status, episode, lease, expired, hybridVars>>

\* They leave the job and the other clients alone.
LEMMA QuietDoes ==
  ASSUME HybridTypes, NEW w \in Workers, Owed(w), Free(w), UNCHANGED hybridVars,
         Dequeue(w) \/ DequeueEmpty(w) \/ (\E j \in Jobs : DequeueGet(w, j)) \/ ClaimLost(w)
  PROVE  Quiet(w)
<1>1. due[w] = Nothing
  BY DEF Free, Owed
<1>t. ClientsTypeOK /\ w \in Clients
  BY DEF HybridTypes, RedisTypeOK, Clients
<1>2. CASE Dequeue(w)
  <2>1. pc[w] = "idle" /\ pc'[w] = "get" /\ RedisFrame(w) /\ UNCHANGED <<status, episode, lease, expired>>
    BY <1>2, <1>t DEF Dequeue, Goto, RedisFrame, ClientsTypeOK, store
  <2> QED  BY <1>1, <2>1 DEF Quiet, Looking, RedisFrame
<1>3. CASE DequeueEmpty(w) \/ ClaimLost(w)
  <2>1. /\ pc[w] \in Looking /\ pc'[w] = "idle" /\ RedisFrame(w)
        /\ UNCHANGED <<status, episode, lease, expired>>
    BY <1>3, <1>t, ClientDoes DEF DequeueEmpty, ClaimLost, Looking, store
  <2> QED  BY <1>1, <2>1 DEF Quiet, Looking, RedisFrame
<1>4. ASSUME NEW j \in Jobs, DequeueGet(w, j)  PROVE Quiet(w)
  <2>0. pc[w] = "get" /\ UNCHANGED <<claimEp, status, episode, lease, expired>>
    BY <1>4 DEF DequeueGet, store
  <2>1. CASE status[j] = "queued"
    <3>1. RedisFrame(w) /\ pc'[w] = "claim" /\ cur'[w] = j
      BY <1>4, <1>t, <2>0, <2>1, ClientDoes DEF DequeueGet
    <3> QED  BY <1>1, <2>0, <2>1, <3>1 DEF Quiet, Looking, RedisFrame
  <2>2. CASE status[j] # "queued"
    BY <1>1, <1>4, <2>0, <2>2 DEF DequeueGet, Quiet, Looking
  <2> QED  BY <2>1, <2>2
<1> QED  BY <1>2, <1>3, <1>4

\* claim: the script runs and its reply arrives.
LEMMA ClaimRedisDoes ==
  ASSUME HybridTypes, NEW w \in Workers, NEW j \in Jobs, j = cur[w], Owed(w), ClaimRedis(w)
  PROVE  /\ Frame(w, j) /\ SameMeta(j) /\ episode'[j] = episode[j] /\ lease'[j] = w
         /\ pc[w] = "claim" /\ due[w] = Nothing /\ status[j] = "queued"
         /\ torn' = Tears(w, j) /\ shared' = Shares(w, j) /\ claimEp'[w] = episode[j]
         /\ Stands(w, "running", j, target[w], [call |-> "claim_read", job |-> j, status |-> None])
         /\ Holds(j, "running", row[j])
<1> USE DEF ClaimRedis
<1>t. ClientsTypeOK /\ KeysTypeOK /\ w \in Clients
  BY DEF HybridTypes, RedisTypeOK, Clients
<1>1. due[w] = Nothing
  BY DEF Free, Owed
<1>2. DebtFrame(w) /\ due'[w] = [call |-> "claim_read", job |-> j, status |-> None]
  BY <1>t, DebtDoes DEF HybridTypes
<1>3. /\ RedisFrame(w) /\ pc[w] = "claim" /\ pc'[w] = "running" /\ cur'[w] = j /\ target'[w] = target[w]
      /\ claimEp'[w] = episode[j]
  BY <1>t DEF ClaimWon, Goto, RedisFrame, ClientsTypeOK
<1>4. /\ KeyFrame(j) /\ status'[j] = "running" /\ lease'[j] = w /\ episode'[j] = episode[j]
      /\ status[j] = "queued" /\ expired' = expired
  BY <1>t, KeysDo, ZenonT(60) DEF ClaimWon, ClaimLua
<1>5. torn \subseteq torn' /\ shared \subseteq shared'
  BY DEF Tears, Shares
<1> QED
  BY <1>1, <1>2, <1>3, <1>4, <1>5 DEF Frame, RedisFrame, DebtFrame, KeyFrame, Stands, Holds, SameMeta

\* claim whose reply is lost.
LEMMA ClaimUnansweredDoes ==
  ASSUME HybridTypes, NEW w \in Workers, NEW j \in Jobs, j = cur[w], Owed(w), ClaimUnanswered(w)
  PROVE  /\ Frame(w, j) /\ SameMeta(j) /\ row'[j] = row[j] /\ shared' = shared
         /\ pc[w] = "claim" /\ due[w] = Nothing
         /\ Stands(w, "idle", None, None, Nothing)
         /\ \/ status'[j] = status[j] /\ SameKeys(j) /\ torn' = torn
            \/ status'[j] = "running" /\ j \in torn'
<1> USE DEF ClaimUnanswered
<1>t. ClientsTypeOK /\ KeysTypeOK /\ w \in Clients
  BY DEF HybridTypes, RedisTypeOK, Clients
<1>1. due[w] = Nothing /\ due'[w] = Nothing
  BY DEF Free, Owed
<1>2. RedisFrame(w) /\ pc[w] = "claim" /\ pc'[w] = "idle" /\ cur'[w] = None /\ target'[w] = None
  BY <1>t, ClientDoes DEF ClaimError
<1>3. torn \subseteq torn' /\ (status' = status => torn' = torn) /\ (status' # status => j \in torn')
  OBVIOUS
<1>4. CASE status[j] = "queued" /\ ClaimLua(w, j)
  <2>1. KeyFrame(j) /\ status'[j] = "running" /\ expired' = expired
    BY <1>t, <1>4, KeysDo DEF ClaimLua
  <2>2. status' # status
    BY <1>4, <2>1
  <2> QED
    BY <1>1, <1>2, <1>3, <2>1, <2>2 DEF Frame, RedisFrame, KeyFrame, Stands, SameMeta
<1>5. CASE UNCHANGED store
  BY <1>1, <1>2, <1>3, <1>5 DEF Frame, RedisFrame, Stands, SameMeta, SameKeys, store
<1> QED  BY <1>4, <1>5 DEF ClaimError

\* The SQL statements of claim, record_attempt, update_progress and
\* store_result: Redis is left alone.
LEMMA SqlStepDoes ==
  ASSUME HybridTypes, NEW w \in Workers, NEW j \in Jobs, Owed(w),
         \/ (ClaimSqlRead(w) \/ ClaimSqlWrite(w) \/ PutMetaWrite(w) \/ RecordAttemptWrite(w)) /\ j = due[w].job
         \/ (MetaRead(w, "record_write") \/ MetaRead(w, "put_write")) /\ j = cur[w]
  PROVE  /\ Frame(w, j) /\ SameKeys(j) /\ status'[j] = status[j] /\ torn' = torn /\ shared' = shared
         /\ pc[w] = "running" /\ cur[w] = j /\ due[w].job \in {j, None}
         /\ UNCHANGED vars
         /\ \/ /\ due[w].call = "claim_read" /\ SameMeta(j) /\ row'[j] = row[j]
               /\ due'[w] = [call |-> "claim_write", job |-> j, status |-> None]
               /\ meta'[w] = attempts[j]
            \/ /\ due[w].call = "none" /\ SameMeta(j) /\ row'[j] = row[j]
               /\ \E call \in {"record_write", "put_write"} :
                    due'[w] = [call |-> call, job |-> j, status |-> None]
               /\ meta'[w] = attempts[j]
            \/ /\ due[w].call = "claim_write" /\ due'[w] = Nothing
               /\ row'[j] = IF row[j] = "queued" THEN "running" ELSE row[j]
               /\ attempts'[j] \in {attempts[j], meta[w]} /\ recorded'[j] = recorded[j]
            \/ /\ due[w].call = "put_write" /\ due'[w] = Nothing /\ row'[j] = row[j]
               /\ attempts'[j] = meta[w] /\ recorded'[j] = recorded[j]
            \/ /\ due[w].call = "record_write" /\ due'[w] = Nothing /\ row'[j] = row[j]
               /\ attempts'[j] = meta[w] + 1 /\ recorded'[j] = recorded[j] + 1
<1>t. /\ w \in Clients /\ due \in [Clients -> Debt] /\ meta \in [Workers -> Nat]
      /\ row \in [Jobs -> JobStatus \cup {"absent"}]
      /\ attempts \in [Jobs -> Nat] /\ recorded \in [Jobs -> Nat]
  BY DEF HybridTypes, Clients
<1>f. ASSUME UNCHANGED <<vars, torn, shared>>, DebtFrame(w),
             \A v \in Workers \ {w} : meta'[v] = meta[v],
             \A k \in Jobs \ {j} : row'[k] = row[k] /\ attempts'[k] = attempts[k] /\ recorded'[k] = recorded[k]
      PROVE  /\ Frame(w, j) /\ SameKeys(j) /\ status'[j] = status[j]
             /\ torn' = torn /\ shared' = shared /\ UNCHANGED vars
  BY <1>f DEF Frame, DebtFrame, SameKeys, vars, store, clients
<1>1. CASE ClaimSqlRead(w) /\ j = due[w].job
  <2>1. DebtFrame(w) /\ due'[w] = [call |-> "claim_write", job |-> j, status |-> None]
    BY <1>1, <1>t, DebtDoes DEF ClaimSqlRead
  <2>2. meta'[w] = attempts[j] /\ \A v \in Workers \ {w} : meta'[v] = meta[v]
    BY <1>1, <1>t DEF ClaimSqlRead
  <2>3. due[w].call = "claim_read" /\ UNCHANGED <<vars, row, attempts, recorded, torn, shared>>
    BY <1>1 DEF ClaimSqlRead
  <2>4. pc[w] = "running" /\ cur[w] = j
    BY <1>1, <2>3 DEF Owed
  <2> QED  BY <1>1, <1>f, <2>1, <2>2, <2>3, <2>4 DEF SameMeta
<1>2. ASSUME NEW call \in {"record_write", "put_write"}, MetaRead(w, call), j = cur[w]
      PROVE  /\ Frame(w, j) /\ SameKeys(j) /\ status'[j] = status[j] /\ torn' = torn /\ shared' = shared
             /\ UNCHANGED vars
             /\ pc[w] = "running" /\ due[w].call = "none" /\ due[w].job = None /\ SameMeta(j) /\ row'[j] = row[j]
             /\ due'[w] = [call |-> call, job |-> j, status |-> None]
             /\ meta'[w] = attempts[j]
  <2>1. DebtFrame(w) /\ due'[w] = [call |-> call, job |-> j, status |-> None]
    BY <1>2, <1>t, DebtDoes DEF MetaRead
  <2>2. meta'[w] = attempts[j] /\ \A v \in Workers \ {w} : meta'[v] = meta[v]
    BY <1>2, <1>t DEF MetaRead
  <2>3. /\ due[w].call = "none" /\ pc[w] = "running"
        /\ UNCHANGED <<vars, row, attempts, recorded, torn, shared>>
    BY <1>2 DEF MetaRead, Free
  <2>4. due[w].job = None
    BY <2>3 DEF Owed, Nothing
  <2> QED  BY <1>2, <1>f, <2>1, <2>2, <2>3, <2>4 DEF SameMeta
<1>w. ASSUME Paid(w), Forget(w)
      PROVE  DebtFrame(w) /\ due'[w] = Nothing /\ \A v \in Workers \ {w} : meta'[v] = meta[v]
  BY <1>w, <1>t, DebtDoes DEF Forget
<1>3. CASE ClaimSqlWrite(w) /\ j = due[w].job
  <2>1. DebtFrame(w) /\ due'[w] = Nothing /\ \A v \in Workers \ {w} : meta'[v] = meta[v]
    BY <1>3, <1>w DEF ClaimSqlWrite
  <2>2. /\ row'[j] = (IF row[j] = "queued" THEN "running" ELSE row[j])
        /\ attempts'[j] \in {attempts[j], meta[w]}
        /\ \A k \in Jobs \ {j} : row'[k] = row[k] /\ attempts'[k] = attempts[k]
    BY <1>3, <1>t DEF ClaimSqlWrite
  <2>3. due[w].call = "claim_write" /\ UNCHANGED <<vars, recorded, torn, shared>>
    BY <1>3 DEF ClaimSqlWrite
  <2>4. pc[w] = "running" /\ cur[w] = j
    BY <1>3, <2>3 DEF Owed
  <2> QED  BY <1>3, <1>f, <2>1, <2>2, <2>3, <2>4
<1>4. CASE PutMetaWrite(w) /\ j = due[w].job
  <2>1. DebtFrame(w) /\ due'[w] = Nothing /\ \A v \in Workers \ {w} : meta'[v] = meta[v]
    BY <1>4, <1>w DEF PutMetaWrite
  <2>2. attempts'[j] = meta[w] /\ \A k \in Jobs \ {j} : attempts'[k] = attempts[k]
    BY <1>4, <1>t DEF PutMetaWrite
  <2>3. due[w].call = "put_write" /\ UNCHANGED <<vars, row, recorded, torn, shared>>
    BY <1>4 DEF PutMetaWrite
  <2>4. pc[w] = "running" /\ cur[w] = j
    BY <1>4, <2>3 DEF Owed
  <2> QED  BY <1>4, <1>f, <2>1, <2>2, <2>3, <2>4
<1>5. CASE RecordAttemptWrite(w) /\ j = due[w].job
  <2>1. DebtFrame(w) /\ due'[w] = Nothing /\ \A v \in Workers \ {w} : meta'[v] = meta[v]
    BY <1>5, <1>w DEF RecordAttemptWrite
  <2>2. /\ attempts'[j] = meta[w] + 1 /\ recorded'[j] = recorded[j] + 1
        /\ \A k \in Jobs \ {j} : attempts'[k] = attempts[k] /\ recorded'[k] = recorded[k]
    BY <1>5, <1>t DEF RecordAttemptWrite
  <2>3. due[w].call = "record_write" /\ UNCHANGED <<vars, row, torn, shared>>
    BY <1>5 DEF RecordAttemptWrite
  <2>4. pc[w] = "running" /\ cur[w] = j
    BY <1>5, <2>3 DEF Owed
  <2> QED  BY <1>5, <1>f, <2>1, <2>2, <2>3, <2>4
<1> QED
  BY <1>1, <1>2, <1>3, <1>4, <1>5

\* The handler returns.
LEMMA HandlerDoneDoes ==
  ASSUME HybridTypes, NEW w \in Workers, NEW j \in Jobs, j = cur[w], Owed(w), HandlerDone(w)
  PROVE  /\ Frame(w, j) /\ SameMeta(j) /\ SameKeys(j) /\ Holds(j, status[j], row[j])
         /\ pc[w] = "running" /\ due[w] = Nothing /\ torn' = Tears(w, j) /\ shared' = shared
         /\ \E s \in Outcomes : Stands(w, "us_hset", j, s, Nothing)
<1> USE DEF HandlerDone
<1>t. ClientsTypeOK /\ w \in Clients
  BY DEF HybridTypes, RedisTypeOK, Clients
<1>1. due[w] = Nothing /\ torn \subseteq torn'
  BY DEF Free, Owed, Tears
<1>2. PICK s \in Outcomes : Start(w, j, s, "us_hset") /\ UNCHANGED <<store, claimEp>>
  BY DEF HandlerEnds
<1>3. RedisFrame(w) /\ pc'[w] = "us_hset" /\ cur'[w] = j /\ target'[w] = s
  BY <1>t, <1>2, ClientDoes
<1>4. pc[w] = "running" /\ UNCHANGED <<status, lease, episode, expired>>
  BY <1>2 DEF HandlerEnds, store
<1> QED
  BY <1>1, <1>3, <1>4 DEF Frame, RedisFrame, Stands, Holds, SameMeta, SameKeys

\* The Redis commands of update_status.
LEMMA UpdateRedisDoes ==
  ASSUME HybridTypes, NEW c \in Clients, NEW j \in Jobs, j = cur[c], Owed(c), UpdateRedis(c)
  PROVE  /\ Frame(c, j) /\ SameMeta(j) /\ row'[j] = row[j] /\ due[c] = Nothing
         /\ torn' = torn /\ shared' = shared
         /\ \/ pc[c] = "us_hset" /\ status'[j] = target[c] /\ lease'[j] = lease[j]
            \/ pc[c] = "us_zrem" /\ status'[j] = status[j] /\ SameKeys(j)
            \/ pc[c] = "us_delete" /\ status'[j] = status[j] /\ episode'[j] = episode[j]
         /\ \/ /\ Stands(c, "idle", None, None, [call |-> "update", job |-> j, status |-> target[c]])
            \/ Stands(c, "us_zrem", j, target[c], Nothing) /\ pc[c] = "us_hset"
            \/ Stands(c, "us_delete", j, target[c], Nothing) /\ pc[c] = "us_zrem" /\ target[c] \in Terminal
<1> USE DEF UpdateRedis
<1>t. ClientsTypeOK /\ KeysTypeOK
  BY DEF HybridTypes, RedisTypeOK
<1>1. due[c] = Nothing
  BY DEF Free, Owed
<1>r. UNCHANGED <<row, attempts, meta, recorded, torn, shared>>
  OBVIOUS
<1>i. ASSUME Done(c)
      PROVE  RedisFrame(c) /\ DebtFrame(c)
             /\ Stands(c, "idle", None, None, [call |-> "update", job |-> j, status |-> target[c]])
  <2>1. RedisFrame(c) /\ pc'[c] = "idle" /\ cur'[c] = None /\ target'[c] = None
    BY <1>t, <1>i, ClientDoes
  <2>2. DebtFrame(c) /\ due'[c] = [call |-> "update", job |-> j, status |-> target[c]]
    BY <2>1, DebtDoes DEF HybridTypes
  <2> QED  BY <2>1, <2>2 DEF Stands
<1>k. ASSUME NEW label, label # "idle", Continue(c, label)
      PROVE  RedisFrame(c) /\ DebtFrame(c) /\ Stands(c, label, j, target[c], Nothing)
  <2>1. RedisFrame(c) /\ pc'[c] = label /\ cur'[c] = j /\ target'[c] = target[c]
    BY <1>t, <1>k, ClientDoes
  <2>2. due' = due
    BY <1>k, <2>1
  <2> QED  BY <1>1, <2>1, <2>2 DEF Stands, DebtFrame
<1>f. RedisFrame(c) /\ DebtFrame(c) /\ KeyFrame(j) /\ expired' = expired => Frame(c, j)
  BY <1>r DEF Frame, RedisFrame, DebtFrame, KeyFrame
<1>2. CASE UpdateHset(c)
  <2>1. pc[c] = "us_hset" /\ KeyFrame(j) /\ status'[j] = target[c] /\ lease'[j] = lease[j] /\ expired' = expired
    BY <1>2, <1>t, KeysDo DEF UpdateHset
  <2>2. Done(c) \/ Continue(c, "us_zrem")
    BY <1>2 DEF UpdateHset
  <2> QED  BY <1>1, <1>r, <1>i, <1>k, <1>f, <2>1, <2>2 DEF SameMeta
<1>3. CASE UpdateZrem(c)
  <2>1. /\ pc[c] = "us_zrem" /\ KeyFrame(j) /\ expired' = expired
        /\ status'[j] = status[j] /\ SameKeys(j)
    BY <1>3 DEF UpdateZrem, KeyFrame, SameKeys
  <2>2. Done(c) \/ (Continue(c, "us_delete") /\ target[c] \in Terminal)
    BY <1>3 DEF UpdateZrem
  <2> QED  BY <1>1, <1>r, <1>i, <1>k, <1>f, <2>1, <2>2 DEF SameMeta
<1>4. CASE UpdateDelete(c)
  <2>1. pc[c] = "us_delete" /\ KeyFrame(j) /\ status'[j] = status[j] /\ episode'[j] = episode[j] /\ expired' = expired
    BY <1>4, <1>t, KeysDo DEF UpdateDelete
  <2>2. Done(c)
    BY <1>4 DEF UpdateDelete
  <2> QED  BY <1>1, <1>r, <1>i, <1>f, <2>1, <2>2 DEF SameMeta
<1> QED  BY <1>2, <1>3, <1>4

\* The SQL statement of update_status.
LEMMA UpdateSqlDoes ==
  ASSUME HybridTypes, NEW c \in Clients, NEW j \in Jobs, j = due[c].job, UpdateSql(c)
  PROVE  /\ Frame(c, j) /\ SameMeta(j) /\ SameKeys(j) /\ torn' = torn /\ shared' = shared
         /\ due[c].call = "update" /\ Stands(c, pc[c], cur[c], target[c], Nothing)
         /\ Holds(j, status[j], due[c].status)
<1> USE DEF UpdateSql
<1>1. DebtFrame(c) /\ due'[c] = Nothing
  BY DebtDoes DEF HybridTypes
<1>2. row'[j] = due[c].status /\ \A k \in Jobs \ {j} : row'[k] = row[k]
  BY DEF HybridTypes
<1> QED
  BY <1>1, <1>2 DEF Frame, DebtFrame, Stands, Holds, SameMeta, SameKeys, vars, store, clients

\* cancel_job, retry_now and update_job, up to their first Redis command.
LEMMA CallerChangesDoes ==
  ASSUME HybridTypes, NEW c \in Callers, NEW j \in Jobs, Owed(c), CallerChanges(c, j)
  PROVE  /\ Frame(c, j) /\ SameMeta(j) /\ SameKeys(j) /\ status'[j] = status[j]
         /\ pc[c] = "idle" /\ due[c] = Nothing /\ status[j] # "absent"
         /\ torn' = Tears(c, j) /\ shared' = shared
         /\ \/ /\ \E s \in {"cancelled", "queued"} : Stands(c, "us_hset", j, s, Nothing)
               /\ row'[j] = row[j]
            \/ Stands(c, "rel_hset", j, None, Nothing) /\ row'[j] = "queued"
<1> USE DEF CallerChanges
<1>t. ClientsTypeOK /\ c \in Clients
  BY DEF HybridTypes, RedisTypeOK, Clients
<1>1. due[c] = Nothing /\ due' = due /\ torn \subseteq torn'
  BY DEF Free, Owed, Tears
<1>f. ASSUME RedisFrame(c), UNCHANGED store, \A k \in Jobs \ {j} : row'[k] = row[k]
      PROVE  Frame(c, j) /\ SameMeta(j) /\ SameKeys(j) /\ status'[j] = status[j]
  BY <1>1, <1>f DEF Frame, RedisFrame, SameMeta, SameKeys, store
<1>2. ASSUME NEW s \in {"cancelled", "queued"}, Start(c, j, s, "us_hset"), UNCHANGED <<store, claimEp, row>>
      PROVE  /\ Frame(c, j) /\ SameMeta(j) /\ SameKeys(j) /\ status'[j] = status[j]
             /\ Stands(c, "us_hset", j, s, Nothing) /\ row'[j] = row[j]
  <2>1. RedisFrame(c) /\ pc'[c] = "us_hset" /\ cur'[c] = j /\ target'[c] = s
    BY <1>t, <1>2, ClientDoes
  <2> QED  BY <1>1, <1>2, <1>f, <2>1 DEF Stands
<1>3. CASE (CallerCancels(c, j) \/ CallerRetries(c, j)) /\ UNCHANGED row
  <2>1. pc[c] = "idle" /\ status[j] # "absent"
    BY <1>3 DEF CallerCancels, CallerRetries
  <2>2. \E s \in {"cancelled", "queued"} : Start(c, j, s, "us_hset") /\ UNCHANGED <<store, claimEp, row>>
    BY <1>3 DEF CallerCancels, CallerRetries
  <2> QED  BY <1>1, <1>2, <2>1, <2>2
<1>4. CASE CallerUpdates(c, j) /\ row' = [row EXCEPT ![j] = "queued"]
  <2>1. pc[c] = "idle" /\ status[j] # "absent" /\ UNCHANGED store
    BY <1>4 DEF CallerUpdates
  <2>2. RedisFrame(c) /\ pc'[c] = "rel_hset" /\ cur'[c] = j /\ target'[c] = None
    BY <1>4, <1>t, ClientDoes DEF CallerUpdates
  <2>3. row'[j] = "queued" /\ \A k \in Jobs \ {j} : row'[k] = row[k]
    BY <1>4 DEF HybridTypes
  <2> QED  BY <1>1, <1>f, <2>1, <2>2, <2>3 DEF Stands
<1> QED  BY <1>3, <1>4

\* The same on a job that Redis has not.
LEMMA SqlOnlyDoes ==
  ASSUME HybridTypes, NEW c \in Callers, NEW j \in Jobs, Owed(c), CallerChangesSqlOnly(c, j)
  PROVE  /\ Frame(c, j) /\ SameMeta(j) /\ SameKeys(j) /\ status'[j] = status[j]
         /\ pc[c] = "idle" /\ due[c] = Nothing /\ status[j] = "absent" /\ row[j] # "absent"
         /\ torn' = Tears(c, j) /\ shared' = shared
         /\ Stays(c) /\ row'[j] \in {"cancelled", "queued"}
<1> USE DEF CallerChangesSqlOnly
<1>1. due[c] = Nothing /\ due' = due /\ torn \subseteq torn'
  BY DEF Free, Owed, Tears
<1>2. row'[j] \in {"cancelled", "queued"} /\ \A k \in Jobs \ {j} : row'[k] = row[k]
  BY DEF HybridTypes
<1> QED
  BY <1>1, <1>2 DEF Frame, Stays, Stands, SameMeta, SameKeys, vars, store, clients

\* The death of a client, or an exception between two calls.
LEMMA AbandonDoes ==
  ASSUME HybridTypes, NEW c \in Clients, Abandon(c)
  PROVE  /\ \A j : Frame(c, j)
         /\ UNCHANGED <<status, row, attempts, recorded, lease, episode, expired>>
         /\ Stands(c, "idle", None, None, Nothing)
         /\ \A j \in Jobs : InMethod(c, j) => j \in torn'
         /\ torn \subseteq torn' /\ shared' = shared
<1> USE DEF Abandon
<1>1. RedisFrame(c) /\ pc'[c] = "idle" /\ cur'[c] = None /\ target'[c] = None
  BY ClientDoes DEF HybridTypes, RedisTypeOK
<1>2. DebtFrame(c) /\ due'[c] = Nothing
  BY DebtDoes DEF HybridTypes
<1>3. \A w \in Workers \ {c} : meta'[w] = meta[w]
  BY DEF Forget, HybridTypes
<1> QED
  BY <1>1, <1>2, <1>3 DEF Frame, RedisFrame, DebtFrame, Stands, store

\* The steps of HybridNext, by client and job.
JobStep(c, j) ==
  \/ c \in Callers /\ (EnqueueSql(c, j) \/ CallerChanges(c, j) \/ CallerChangesSqlOnly(c, j))
  \/ c \in Workers /\ j = cur[c] /\ (ClaimRedis(c) \/ ClaimUnanswered(c) \/ HandlerDone(c))
  \/ c \in Workers /\ j = cur[c] /\ (MetaRead(c, "record_write") \/ MetaRead(c, "put_write"))
  \/ /\ c \in Workers /\ j = due[c].job
     /\ ClaimSqlRead(c) \/ ClaimSqlWrite(c) \/ PutMetaWrite(c) \/ RecordAttemptWrite(c)
  \/ j = due[c].job /\ (EnqueueRedis(c) \/ UpdateSql(c))
  \/ j = cur[c] /\ UpdateRedis(c)
  \/ /\ j = cur[c] /\ Free(c) /\ UNCHANGED hybridVars
     /\ EnqueueZadd(c) \/ ReleaseHset(c) \/ ReleaseZadd(c) \/ ReleaseDelete(c)

\* Every step is one of these.
LEMMA HybridCases ==
  ASSUME HybridTypes, \A c \in Clients : Owed(c), [HybridNext]_allVars
  PROVE  \/ \E c \in Clients, j \in Jobs : JobStep(c, j)
         \/ \E w \in Workers : Quiet(w)
         \/ \E c \in Clients : Abandon(c)
         \/ \E j \in Jobs : LeaseExpires(j) /\ UNCHANGED hybridVars
         \/ UNCHANGED allVars
<1>w. Workers \subseteq Clients /\ Callers \subseteq Clients
  BY DEF Clients
<1>1. ASSUME NEW c \in Callers, NEW j \in Jobs,
             EnqueueSql(c, j) \/ CallerChanges(c, j) \/ CallerChangesSqlOnly(c, j)
      PROVE  \E d \in Clients, k \in Jobs : JobStep(d, k)
  BY <1>1, <1>w DEF JobStep
<1>2. ASSUME NEW w \in Workers,
             \/ ClaimRedis(w) \/ ClaimUnanswered(w) \/ HandlerDone(w)
             \/ MetaRead(w, "record_write") \/ MetaRead(w, "put_write")
      PROVE  \E d \in Clients, k \in Jobs : JobStep(d, k)
  <2>1. cur[w] \in Jobs
    BY <1>2, <1>w, WorkTypes DEF ClaimRedis, ClaimWon, ClaimUnanswered, ClaimError, HandlerDone, HandlerEnds,
                                 MetaRead
  <2>2. w \in Clients /\ JobStep(w, cur[w])
    BY <1>2, <1>w DEF JobStep
  <2> QED  BY <2>1, <2>2
<1>3. ASSUME NEW w \in Workers, ClaimSqlRead(w) \/ ClaimSqlWrite(w) \/ PutMetaWrite(w) \/ RecordAttemptWrite(w)
      PROVE  \E d \in Clients, k \in Jobs : JobStep(d, k)
  <2>1. due[w].job \in Jobs
    BY <1>3, <1>w, WorkTypes DEF ClaimSqlRead, ClaimSqlWrite, PutMetaWrite, RecordAttemptWrite
  <2>2. w \in Clients /\ JobStep(w, due[w].job)
    BY <1>3, <1>w DEF JobStep
  <2> QED  BY <2>1, <2>2
<1>4. ASSUME NEW c \in Clients, EnqueueRedis(c) \/ UpdateSql(c)
      PROVE  \E d \in Clients, k \in Jobs : JobStep(d, k)
  <2>1. due[c].job \in Jobs
    BY <1>4, WorkTypes DEF EnqueueRedis, UpdateSql
  <2>2. JobStep(c, due[c].job)
    BY <1>4 DEF JobStep
  <2> QED  BY <2>1, <2>2
<1>5. ASSUME NEW c \in Clients, UpdateRedis(c)  PROVE \E d \in Clients, k \in Jobs : JobStep(d, k)
  <2>1. cur[c] \in Jobs
    BY <1>5, WorkTypes DEF UpdateRedis, UpdateHset, UpdateZrem, UpdateDelete
  <2>2. JobStep(c, cur[c])
    BY <1>5 DEF JobStep
  <2> QED  BY <2>1, <2>2
<1>6. ASSUME NEW c \in Clients, RedisStep(c)
      PROVE  (\E d \in Clients, k \in Jobs : JobStep(d, k)) \/ \E w \in Workers : Quiet(w)
  <2>1. CASE EnqueueZadd(c) \/ ReleaseHset(c) \/ ReleaseZadd(c) \/ ReleaseDelete(c)
    <3>1. cur[c] \in Jobs
      BY <2>1, WorkTypes DEF EnqueueZadd, ReleaseHset, ReleaseZadd, ReleaseDelete
    <3>2. JobStep(c, cur[c])
      BY <1>6, <2>1 DEF JobStep, RedisStep
    <3> QED  BY <3>1, <3>2
  <2>2. CASE c \in Workers /\ (Dequeue(c) \/ DequeueEmpty(c) \/ \E j \in Jobs : DequeueGet(c, j))
    BY <1>6, <2>2, QuietDoes DEF RedisStep
  <2> QED  BY <1>6, <2>1, <2>2 DEF RedisStep
<1>7. ASSUME NEW w \in Workers, ClaimRefused(w)  PROVE Quiet(w)
  BY <1>7, <1>w, QuietDoes DEF ClaimRefused
<1> QED
  BY <1>1, <1>2, <1>3, <1>4, <1>5, <1>6, <1>7 DEF HybridNext

-----------------------------------------------------------------------------
(* The hybrid backend: a row for every job in Redis.                       *)

\* A step that takes no job away, and leaves its client and its job in order.
LEMMA DurableAt ==
  ASSUME HybridTypes, DurableInv, NEW c \in Clients, NEW j, Frame(c, j),
         j \in Jobs => /\ status[j] # "absent" => status'[j] # "absent"
                       /\ row[j] # "absent" => row'[j] # "absent"
                       /\ status'[j] # "absent" => row'[j] # "absent",
         Owed(c)', Present(c)', Targets(c)'
  PROVE  DurableInv'
<1>1. \A k \in Jobs : /\ status[k] # "absent" => status'[k] # "absent"
                      /\ row[k] # "absent" => row'[k] # "absent"
  BY DEF Frame
<1>2. ASSUME NEW d \in Clients, d # c  PROVE Owed(d)' /\ Present(d)' /\ Targets(d)'
  <2>1. pc'[d] = pc[d] /\ cur'[d] = cur[d] /\ target'[d] = target[d] /\ due'[d] = due[d]
    BY <1>2 DEF Frame
  <2>2. Owed(d) /\ Present(d) /\ Targets(d)
    BY DEF DurableInv
  <2>3. Owed(d)'
    BY <1>1, <2>1, <2>2 DEF Owed, Calls
  <2>4. Present(d)'
    BY <1>1, <2>1, <2>2, WorkTypes DEF Present
  <2>5. Targets(d)'
    BY <2>1, <2>2 DEF Targets
  <2> QED  BY <2>3, <2>4, <2>5
<1>3. DurableBeforeDispatch'
  BY DEF DurableInv, DurableBeforeDispatch, Frame
<1> QED  BY <1>2, <1>3 DEF DurableInv

\* Every step keeps the rows ahead of Redis.
LEMMA DurableSteps ==
  ASSUME HybridTypes, DurableInv, [HybridNext]_allVars
  PROVE  DurableInv'
<1>o. \A c \in Clients : Owed(c) /\ Present(c) /\ Targets(c)
  BY DEF DurableInv
<1>s. /\ {"queued", "running", "cancelled"} \subseteq JobStatus /\ "absent" \notin JobStatus
      /\ Outcomes \cup {"cancelled", "queued"} \subseteq JobStatus /\ None \notin Jobs
  BY RedisConstants DEF RedisConstants, JobStatus
<1>w. Workers \subseteq Clients /\ Callers \subseteq Clients
  BY DEF Clients
<1>d. \A j \in Jobs : status[j] # "absent" => row[j] # "absent"
  BY DEF DurableInv, DurableBeforeDispatch
<1> USE DEF Owed, Present, Targets, Nothing, Stands, Holds
<1>1. ASSUME NEW c \in Callers, NEW j \in Jobs, EnqueueSql(c, j)  PROVE DurableInv'
  <2>1. /\ Frame(c, j) /\ pc'[c] = "idle" /\ row'[j] = "queued" /\ status'[j] = status[j]
        /\ due'[c] = [call |-> "redis_enqueue", job |-> j, status |-> None]
    BY <1>1, <1>o, <1>w, EnqueueSqlDoes
  <2>2. Owed(c)' /\ Present(c)' /\ Targets(c)'
    BY <2>1
  <2> QED  BY <1>w, <2>1, <2>2, DurableAt
<1>2. ASSUME NEW c \in Callers, NEW j \in Jobs, CallerChanges(c, j)  PROVE DurableInv'
  <2>1. /\ Frame(c, j) /\ status'[j] = status[j] /\ status[j] # "absent"
        /\ row'[j] = row[j] \/ row'[j] = "queued"
        /\ pc'[c] \in {"us_hset", "rel_hset"} /\ cur'[c] = j /\ due'[c] = Nothing
        /\ pc'[c] = "us_hset" => target'[c] \in {"cancelled", "queued"}
    BY <1>2, <1>o, <1>w, CallerChangesDoes
  <2>2. Owed(c)' /\ Present(c)' /\ Targets(c)'
    BY <2>1
  <2> QED  BY <1>w, <1>d, <2>1, <2>2, DurableAt
<1>3. ASSUME NEW c \in Callers, NEW j \in Jobs, CallerChangesSqlOnly(c, j)  PROVE DurableInv'
  <2>1. /\ Frame(c, j) /\ status'[j] = status[j] /\ row'[j] # "absent"
        /\ pc'[c] = "idle" /\ due'[c] = Nothing
    BY <1>3, <1>o, <1>w, SqlOnlyDoes DEF Stays
  <2>2. Owed(c)' /\ Present(c)' /\ Targets(c)'
    BY <2>1
  <2> QED  BY <1>w, <2>1, <2>2, DurableAt
<1>4. ASSUME NEW w \in Workers, NEW j \in Jobs, j = cur[w], ClaimRedis(w)  PROVE DurableInv'
  <2>1. /\ Frame(w, j) /\ status[j] = "queued" /\ status'[j] = "running" /\ row'[j] = row[j]
        /\ pc'[w] = "running" /\ cur'[w] = j
        /\ due'[w] = [call |-> "claim_read", job |-> j, status |-> None]
    BY <1>4, <1>o, <1>w, ClaimRedisDoes
  <2>2. Owed(w)' /\ Present(w)' /\ Targets(w)'
    BY <2>1
  <2> QED  BY <1>w, <1>d, <2>1, <2>2, DurableAt
<1>5. ASSUME NEW w \in Workers, NEW j \in Jobs, j = cur[w], ClaimUnanswered(w)  PROVE DurableInv'
  <2>1. /\ Frame(w, j) /\ status'[j] \in {status[j], "running"} /\ row'[j] = row[j]
        /\ pc[w] = "claim" /\ pc'[w] = "idle" /\ due'[w] = Nothing
    BY <1>5, <1>o, <1>w, ClaimUnansweredDoes
  <2>2. Owed(w)' /\ Present(w)' /\ Targets(w)'
    BY <2>1
  <2>3. status[j] # "absent"
    BY <1>5, <1>o, <1>w, <2>1
  <2> QED  BY <1>w, <1>d, <2>1, <2>2, <2>3, DurableAt
<1>6. ASSUME NEW w \in Workers, NEW j \in Jobs, j = cur[w], HandlerDone(w)  PROVE DurableInv'
  <2>1. /\ Frame(w, j) /\ status'[j] = status[j] /\ row'[j] = row[j]
        /\ pc[w] = "running" /\ pc'[w] = "us_hset" /\ cur'[w] = j /\ target'[w] \in Outcomes
        /\ due'[w] = Nothing
    BY <1>6, <1>o, <1>w, HandlerDoneDoes
  <2>2. status[j] # "absent"
    BY <1>6, <1>o, <1>w, <2>1
  <2>3. Owed(w)' /\ Present(w)' /\ Targets(w)'
    BY <2>1, <2>2
  <2> QED  BY <1>w, <1>d, <2>1, <2>3, DurableAt
<1>7. ASSUME NEW w \in Workers, NEW j \in Jobs,
             \/ (ClaimSqlRead(w) \/ ClaimSqlWrite(w) \/ PutMetaWrite(w) \/ RecordAttemptWrite(w)) /\ j = due[w].job
             \/ (MetaRead(w, "record_write") \/ MetaRead(w, "put_write")) /\ j = cur[w]
      PROVE  DurableInv'
  <2>1. /\ Frame(w, j) /\ status'[j] = status[j] /\ pc[w] = "running" /\ cur[w] = j /\ UNCHANGED vars
        /\ row'[j] = row[j] \/ row'[j] = "running"
        /\ \/ due'[w] = Nothing
           \/ \E call \in {"claim_write", "record_write", "put_write"} :
                due'[w] = [call |-> call, job |-> j, status |-> None]
    BY <1>7, <1>o, <1>w, SqlStepDoes
  <2>2. pc'[w] = "running" /\ cur'[w] = j /\ target'[w] = target[w]
    BY <2>1 DEF vars, clients
  <2>3. status[j] # "absent"
    BY <1>o, <1>w, <2>1
  <2>4. Owed(w)'
    BY <2>1, <2>2
  <2>5. Present(w)' /\ Targets(w)'
    BY <2>1, <2>2, <2>3
  <2> QED  BY <1>w, <1>d, <2>1, <2>4, <2>5, DurableAt
<1>8. ASSUME NEW c \in Clients, NEW j \in Jobs, j = due[c].job, EnqueueRedis(c)  PROVE DurableInv'
  <2>1. /\ Frame(c, j) /\ due[c].call = "redis_enqueue" /\ status'[j] = "queued" /\ row'[j] = row[j]
        /\ pc'[c] = "enq_zadd" /\ cur'[c] = j /\ due'[c] = Nothing
    BY <1>8, EnqueueRedisDoes
  <2>2. row[j] # "absent"
    BY <1>8, <1>o, <2>1
  <2>3. Owed(c)' /\ Present(c)' /\ Targets(c)'
    BY <2>1
  <2> QED  BY <2>1, <2>2, <2>3, DurableAt
<1>9. ASSUME NEW c \in Clients, NEW j \in Jobs, j = due[c].job, UpdateSql(c)  PROVE DurableInv'
  <2>1. /\ Frame(c, j) /\ due[c].call = "update" /\ status'[j] = status[j] /\ row'[j] = due[c].status
        /\ pc'[c] = pc[c] /\ due'[c] = Nothing
    BY <1>9, UpdateSqlDoes
  <2>2. pc[c] = "idle" /\ due[c].status \in JobStatus
    BY <1>o, <2>1
  <2>3. Owed(c)' /\ Present(c)' /\ Targets(c)'
    BY <2>1, <2>2
  <2>4. row'[j] # "absent"
    BY <1>s, <2>1, <2>2
  <2> QED  BY <2>1, <2>3, <2>4, DurableAt
<1>10. ASSUME NEW c \in Clients, NEW j \in Jobs, j = cur[c], UpdateRedis(c)  PROVE DurableInv'
  <2>1. /\ Frame(c, j) /\ row'[j] = row[j]
        /\ pc[c] \in {"us_hset", "us_zrem", "us_delete"} /\ status'[j] \in {status[j], target[c]}
        /\ \/ pc'[c] = "idle" /\ due'[c] = [call |-> "update", job |-> j, status |-> target[c]]
           \/ pc'[c] \in {"us_zrem", "us_delete"} /\ cur'[c] = j /\ target'[c] = target[c] /\ due'[c] = Nothing
    BY <1>10, <1>o, UpdateRedisDoes
  <2>2. /\ target[c] \in Outcomes \cup {"cancelled", "queued"} /\ target[c] \in JobStatus /\ target[c] # "absent"
        /\ status[j] # "absent"
    BY <1>10, <1>o, <1>s, <2>1
  <2>3. Owed(c)'
    BY <2>1, <2>2
  <2>4. Present(c)' /\ Targets(c)'
    BY <2>1, <2>2
  <2> QED  BY <1>d, <2>1, <2>2, <2>3, <2>4, DurableAt
<1>11. ASSUME NEW c \in Clients, NEW j \in Jobs, j = cur[c], Free(c), UNCHANGED hybridVars,
              EnqueueZadd(c) \/ ReleaseHset(c) \/ ReleaseZadd(c) \/ ReleaseDelete(c)
       PROVE  DurableInv'
  <2>1. /\ Frame(c, j) /\ row'[j] = row[j] /\ due'[c] = Nothing
        /\ status'[j] \in {status[j], "queued"} /\ pc[c] \notin {"idle", "get"}
        /\ pc'[c] = "idle" \/ (pc'[c] \in {"rel_zadd", "rel_delete"} /\ cur'[c] = j)
    BY <1>11, <1>o, RedisStepDoes
  <2>2. status[j] # "absent"
    BY <1>11, <1>o, <2>1
  <2>3. Owed(c)' /\ Present(c)' /\ Targets(c)'
    BY <2>1, <2>2
  <2> QED  BY <1>d, <2>1, <2>2, <2>3, DurableAt
<1>12. ASSUME NEW w \in Workers, Quiet(w)  PROVE DurableInv'
  <2>1. Frame(w, None)
    BY <1>12 DEF Quiet, Frame, hybridVars
  <2>2. Owed(w)' /\ Present(w)' /\ Targets(w)'
    BY <1>12 DEF Quiet, Looking, hybridVars
  <2> QED  BY <1>w, <1>s, <2>1, <2>2, DurableAt
<1>13. ASSUME NEW c \in Clients, Abandon(c)  PROVE DurableInv'
  <2>1. Frame(c, None) /\ pc'[c] = "idle" /\ due'[c] = Nothing
    BY <1>13, AbandonDoes
  <2>2. Owed(c)' /\ Present(c)' /\ Targets(c)'
    BY <2>1
  <2> QED  BY <1>s, <2>1, <2>2, DurableAt
<1>14. ASSUME UNCHANGED <<status, clients, hybridVars>>  PROVE DurableInv'
  BY <1>14 DEF DurableInv, DurableBeforeDispatch, hybridVars, clients
<1>15. CASE (\E j \in Jobs : LeaseExpires(j) /\ UNCHANGED hybridVars) \/ UNCHANGED allVars
  BY <1>14, <1>15 DEF LeaseExpires, allVars, vars, store
<1>16. ASSUME NEW c \in Clients, NEW j \in Jobs, JobStep(c, j)  PROVE DurableInv'
  BY <1>1, <1>2, <1>3, <1>4, <1>5, <1>6, <1>7, <1>8, <1>9, <1>10, <1>11, <1>16 DEF JobStep
<1> QED
  BY <1>o, <1>12, <1>13, <1>15, <1>16, HybridCases

-----------------------------------------------------------------------------
(* The hybrid backend: the two stores.                                     *)

\* A client that does not move a job has no phase to be in.
LEMMA NoPhase ==
  ASSUME NEW c, NEW j
  PROVE  (~Moving(c, j) => Phase(c, j)) /\ (~Moving(c, j)' => Phase(c, j)')
BY DEF Moving, Phase, Changing

\* A step keeps the stores in order if it moves at most one job: one that
\* nobody else moves, and with the right outcome.
LEMMA MoveAt ==
  ASSUME MoveInv, NEW c \in Clients, NEW j, Frame(c, j),
         \A k \in Jobs \ torn' : k # j => ~Moving(c, k) /\ ~Moving(c, k)',
         j \in Jobs \ torn' =>
           \/ /\ \A d \in Clients \ {c} : ~Moving(d, j)
              /\ Phase(c, j)'
              /\ ~Moving(c, j)' => row'[j] = status'[j]
           \/ ~Moving(c, j) /\ ~Moving(c, j)' /\ row'[j] = row[j] /\ status'[j] = status[j]
  PROVE  MoveInv'
<1>1. ASSUME NEW d \in Clients, d # c, NEW k \in Jobs
      PROVE  /\ Moving(d, k)' <=> Moving(d, k)
             /\ row'[k] = row[k] /\ status'[k] = status[k] => (Phase(d, k)' <=> Phase(d, k))
  <2>1. pc'[d] = pc[d] /\ cur'[d] = cur[d] /\ target'[d] = target[d] /\ due'[d] = due[d]
    BY <1>1 DEF Frame
  <2>2. Moving(d, k)' <=> Moving(d, k)
    BY <2>1 DEF Moving, Changing
  <2>3. row'[k] = row[k] /\ status'[k] = status[k] => (Phase(d, k)' <=> Phase(d, k))
    BY <2>1 DEF Phase
  <2> QED  BY <2>2, <2>3
<1>2. ASSUME NEW k \in Jobs \ torn'
      PROVE  /\ \A d, e \in Clients : Moving(d, k)' /\ Moving(e, k)' => d = e
             /\ \A d \in Clients : Phase(d, k)'
             /\ (\A d \in Clients : ~Moving(d, k)') => row'[k] = status'[k]
  <2>t. k \in Jobs \ torn
    BY DEF Frame
  <2>0. /\ \A d, e \in Clients : Moving(d, k) /\ Moving(e, k) => d = e
        /\ \A d \in Clients : Phase(d, k)
        /\ (\A d \in Clients : ~Moving(d, k)) => row[k] = status[k]
    BY <2>t DEF MoveInv, SoleMover, InPhase, Agree
  <2>1. ASSUME ~Moving(c, k), ~Moving(c, k)', row'[k] = row[k], status'[k] = status[k]
        PROVE  /\ \A d, e \in Clients : Moving(d, k)' /\ Moving(e, k)' => d = e
               /\ \A d \in Clients : Phase(d, k)'
               /\ (\A d \in Clients : ~Moving(d, k)') => row'[k] = status'[k]
    BY <1>1, <2>0, <2>1, NoPhase
  <2>2. CASE k # j
    <3>1. ~Moving(c, k) /\ ~Moving(c, k)' /\ row'[k] = row[k] /\ status'[k] = status[k]
      BY <2>2 DEF Frame
    <3> QED  BY <2>1, <3>1
  <2>3. CASE /\ k = j
             /\ \A d \in Clients \ {c} : ~Moving(d, k)
             /\ Phase(c, k)'
             /\ ~Moving(c, k)' => row'[k] = status'[k]
    BY <1>1, <2>3, NoPhase
  <2> QED  BY <2>1, <2>2, <2>3
<1> QED  BY <1>2 DEF MoveInv, SoleMover, InPhase, Agree

\* A job that a step leaves untorn is moved by nobody else, if the step looks
\* for others before it begins.
LEMMA TearsAlone ==
  ASSUME NEW c \in Clients, NEW j \in Jobs, torn' = Tears(c, j), j \notin torn'
  PROVE  \A d \in Clients \ {c} : ~Moving(d, j)
BY DEF Tears, InMethod, Moving

\* Every step keeps the stores in order.
LEMMA MoveSteps ==
  ASSUME HybridTypes, DurableInv, MoveInv, [HybridNext]_allVars
  PROVE  MoveInv'
<1>o. \A c \in Clients : Owed(c) /\ Present(c) /\ Targets(c)
  BY DEF DurableInv
<1>n. None \notin Jobs
  BY RedisConstants DEF RedisConstants
<1>w. Workers \subseteq Clients /\ Callers \subseteq Clients
  BY DEF Clients
<1>m. \A j \in Jobs \ torn : /\ \A c, d \in Clients : Moving(c, j) /\ Moving(d, j) => c = d
                             /\ \A c \in Clients : Phase(c, j)
                             /\ (\A c \in Clients : ~Moving(c, j)) => row[j] = status[j]
  BY DEF MoveInv, SoleMover, InPhase, Agree
<1>f. \A c, j : Frame(c, j) => torn \subseteq torn'
  BY DEF Frame
\* A client that works on j, or on nothing, moves no other job.
<1>b. ASSUME NEW c, NEW j, NEW k \in Jobs, k # j,
             cur[c] = j \/ pc[c] \in {"idle", "get", "claim", "running"}, due[c].job \in {j, None}
      PROVE  ~Moving(c, k)
  BY <1>b, <1>n DEF Moving, Changing
<1>a. ASSUME NEW c, NEW j, NEW k \in Jobs, k # j,
             cur'[c] = j \/ pc'[c] \in {"idle", "get", "claim", "running"}, due'[c].job \in {j, None}
      PROVE  ~Moving(c, k)'
  BY <1>a, <1>n DEF Moving, Changing
<1> USE DEF Nothing, Stands, Holds
<1>1. ASSUME NEW c \in Callers, NEW j \in Jobs, EnqueueSql(c, j)  PROVE MoveInv'
  <2>1. /\ Frame(c, j) /\ pc[c] = "idle" /\ due[c].job = None /\ torn' = Tears(c, j)
        /\ pc'[c] = "idle" /\ row'[j] = "queued"
        /\ due'[c] = [call |-> "redis_enqueue", job |-> j, status |-> None]
    BY <1>1, <1>o, <1>w, EnqueueSqlDoes
  <2>2. Phase(c, j)' /\ Moving(c, j)'
    BY <2>1 DEF Phase, Moving
  <2>a. due'[c].job \in {j, None}
    BY <2>1
  <2>3. \A k \in Jobs \ torn' : k # j => ~Moving(c, k) /\ ~Moving(c, k)'
    BY <1>a, <1>b, <2>1, <2>a
  <2> QED  BY <1>w, <2>1, <2>2, <2>3, TearsAlone, MoveAt
<1>2. ASSUME NEW c \in Callers, NEW j \in Jobs, CallerChanges(c, j)  PROVE MoveInv'
  <2>1. /\ Frame(c, j) /\ pc[c] = "idle" /\ due[c].job = None /\ torn' = Tears(c, j)
        /\ status'[j] = status[j] /\ cur'[c] = j /\ due'[c] = Nothing
        /\ \/ pc'[c] = "us_hset" /\ row'[j] = row[j]
           \/ pc'[c] = "rel_hset" /\ row'[j] = "queued"
    BY <1>2, <1>o, <1>w, CallerChangesDoes
  <2>2. ASSUME j \notin torn'
        PROVE  (\A d \in Clients \ {c} : ~Moving(d, j)) /\ Phase(c, j)' /\ Moving(c, j)'
    <3>1. \A d \in Clients \ {c} : ~Moving(d, j)
      BY <1>w, <2>1, <2>2, TearsAlone
    <3>2. ~Moving(c, j)
      BY <1>n, <2>1 DEF Moving, Changing
    <3>3. row[j] = status[j]
      BY <1>m, <1>f, <2>1, <2>2, <3>1, <3>2
    <3>4. Phase(c, j)'
      BY <1>n, <2>1, <3>3 DEF Phase
    <3>5. Moving(c, j)'
      BY <2>1 DEF Moving, Changing
    <3> QED  BY <3>1, <3>4, <3>5
  <2>a. due'[c].job \in {j, None}
    BY <2>1
  <2>3. \A k \in Jobs \ torn' : k # j => ~Moving(c, k) /\ ~Moving(c, k)'
    BY <1>a, <1>b, <2>1, <2>a
  <2> QED  BY <1>w, <2>1, <2>2, <2>3, MoveAt
<1>3. ASSUME NEW c \in Callers, NEW j \in Jobs, CallerChangesSqlOnly(c, j)  PROVE MoveInv'
  <2>1. /\ Frame(c, j) /\ pc[c] = "idle" /\ due[c].job = None /\ torn' = Tears(c, j)
        /\ pc'[c] = "idle" /\ due'[c].job = None /\ status[j] = "absent" /\ row[j] # "absent"
    BY <1>3, <1>o, <1>w, SqlOnlyDoes DEF Stays
  <2>2. j \in torn'
    <3>1. ~Moving(c, j)
      BY <1>n, <2>1 DEF Moving, Changing
    <3>2. j \notin torn' => \A d \in Clients \ {c} : ~Moving(d, j)
      BY <1>w, <2>1, TearsAlone
    <3> QED  BY <1>m, <1>f, <2>1, <3>1, <3>2
  <2>3. \A k \in Jobs \ torn' : k # j => ~Moving(c, k) /\ ~Moving(c, k)'
    BY <1>a, <1>b, <2>1
  <2> QED  BY <1>w, <2>1, <2>2, <2>3, MoveAt
<1>4. ASSUME NEW w \in Workers, NEW j \in Jobs, j = cur[w], ClaimRedis(w)  PROVE MoveInv'
  <2>1. /\ Frame(w, j) /\ pc[w] = "claim" /\ due[w].job = None /\ torn' = Tears(w, j)
        /\ status[j] = "queued" /\ status'[j] = "running" /\ row'[j] = row[j]
        /\ pc'[w] = "running" /\ cur'[w] = j
        /\ due'[w] = [call |-> "claim_read", job |-> j, status |-> None]
    BY <1>4, <1>o, <1>w, ClaimRedisDoes
  <2>2. ASSUME j \notin torn'
        PROVE  (\A d \in Clients \ {w} : ~Moving(d, j)) /\ Phase(w, j)' /\ Moving(w, j)'
    <3>1. \A d \in Clients \ {w} : ~Moving(d, j)
      BY <1>w, <2>1, <2>2, TearsAlone
    <3>2. ~Moving(w, j)
      BY <1>n, <2>1 DEF Moving, Changing
    <3>3. row[j] = "queued"
      BY <1>m, <1>f, <2>1, <2>2, <3>1, <3>2
    <3>4. Phase(w, j)' /\ Moving(w, j)'
      BY <2>1, <3>3 DEF Phase, Moving
    <3> QED  BY <3>1, <3>4
  <2>a. due'[w].job \in {j, None}
    BY <2>1
  <2>3. \A k \in Jobs \ torn' : k # j => ~Moving(w, k) /\ ~Moving(w, k)'
    BY <1>a, <1>b, <2>1, <2>a
  <2> QED  BY <1>w, <2>1, <2>2, <2>3, MoveAt
<1>5. ASSUME NEW w \in Workers, NEW j \in Jobs, j = cur[w], ClaimUnanswered(w)  PROVE MoveInv'
  <2>1. /\ Frame(w, j) /\ pc[w] = "claim" /\ due[w].job = None /\ row'[j] = row[j]
        /\ pc'[w] = "idle" /\ due'[w].job = None
        /\ status'[j] = status[j] \/ j \in torn'
    BY <1>5, <1>o, <1>w, ClaimUnansweredDoes
  <2>2. ~Moving(w, j) /\ ~Moving(w, j)'
    BY <1>n, <2>1 DEF Moving, Changing
  <2>3. \A k \in Jobs \ torn' : k # j => ~Moving(w, k) /\ ~Moving(w, k)'
    BY <1>a, <1>b, <2>1
  <2> QED  BY <1>w, <2>1, <2>2, <2>3, MoveAt
<1>6. ASSUME NEW w \in Workers, NEW j \in Jobs, j = cur[w], HandlerDone(w)  PROVE MoveInv'
  <2>1. /\ Frame(w, j) /\ pc[w] = "running" /\ due[w].job = None /\ torn' = Tears(w, j)
        /\ status'[j] = status[j] /\ row'[j] = row[j]
        /\ pc'[w] = "us_hset" /\ cur'[w] = j /\ due'[w] = Nothing
    BY <1>6, <1>o, <1>w, HandlerDoneDoes
  <2>2. ASSUME j \notin torn'
        PROVE  (\A d \in Clients \ {w} : ~Moving(d, j)) /\ Phase(w, j)' /\ Moving(w, j)'
    <3>1. \A d \in Clients \ {w} : ~Moving(d, j)
      BY <1>w, <2>1, <2>2, TearsAlone
    <3>2. ~Moving(w, j)
      BY <1>n, <2>1 DEF Moving, Changing
    <3>3. row[j] = status[j]
      BY <1>m, <1>f, <2>1, <2>2, <3>1, <3>2
    <3>4. Phase(w, j)' /\ Moving(w, j)'
      BY <1>n, <2>1, <3>3 DEF Phase, Moving, Changing
    <3> QED  BY <3>1, <3>4
  <2>a. due'[w].job \in {j, None}
    BY <2>1
  <2>3. \A k \in Jobs \ torn' : k # j => ~Moving(w, k) /\ ~Moving(w, k)'
    BY <1>a, <1>b, <2>1, <2>a
  <2> QED  BY <1>w, <2>1, <2>2, <2>3, MoveAt
<1>7. ASSUME NEW w \in Workers, NEW j \in Jobs,
             \/ (ClaimSqlRead(w) \/ ClaimSqlWrite(w) \/ PutMetaWrite(w) \/ RecordAttemptWrite(w)) /\ j = due[w].job
             \/ (MetaRead(w, "record_write") \/ MetaRead(w, "put_write")) /\ j = cur[w]
      PROVE  MoveInv'
  <2>1. /\ Frame(w, j) /\ status'[j] = status[j] /\ pc[w] = "running" /\ cur[w] = j /\ UNCHANGED vars
        /\ torn' = torn /\ due[w].job \in {j, None}
        /\ \/ /\ due[w].call = "claim_read" /\ row'[j] = row[j]
              /\ due'[w] = [call |-> "claim_write", job |-> j, status |-> None]
           \/ /\ due[w].call = "claim_write" /\ due'[w] = Nothing
              /\ row'[j] = IF row[j] = "queued" THEN "running" ELSE row[j]
           \/ /\ due[w].call \in {"none", "put_write", "record_write"} /\ row'[j] = row[j]
              /\ due'[w] = Nothing
                 \/ \E call \in {"record_write", "put_write"} :
                      due'[w] = [call |-> call, job |-> j, status |-> None]
    BY <1>7, <1>o, <1>w, SqlStepDoes
  <2>2. pc'[w] = "running" /\ cur'[w] = j
    BY <2>1 DEF vars, clients
  <2>a. due'[w].job \in {j, None}
    BY <2>1
  <2>3. \A k \in Jobs \ torn' : k # j => ~Moving(w, k) /\ ~Moving(w, k)'
    BY <1>a, <1>b, <2>1, <2>2, <2>a
  <2>4. CASE due[w].call \in {"claim_read", "claim_write"}
    <3>1. due[w].job = j
      BY <1>o, <1>w, <2>1, <2>4 DEF Owed
    <3>2. Moving(w, j)
      BY <2>4, <3>1 DEF Moving
    <3>3. ASSUME j \notin torn'
          PROVE  /\ \A d \in Clients \ {w} : ~Moving(d, j)
                 /\ row[j] = "queued" /\ status[j] = "running"
      BY <1>m, <1>w, <2>1, <2>4, <3>1, <3>2, <3>3 DEF Phase
    <3>4. ASSUME j \notin torn', due[w].call = "claim_read"
          PROVE  Phase(w, j)' /\ Moving(w, j)'
      <4>1. due'[w].call = "claim_write" /\ due'[w].job = j /\ row'[j] = "queued" /\ status'[j] = "running"
        BY <2>1, <3>3, <3>4
      <4> QED  BY <2>2, <4>1 DEF Phase, Moving
    <3>5. ASSUME j \notin torn', due[w].call = "claim_write"
          PROVE  Phase(w, j)' /\ row'[j] = status'[j]
      <4>1. due'[w].call = "none" /\ due'[w].job = None /\ row'[j] = "running" /\ status'[j] = "running"
        BY <2>1, <3>3, <3>5
      <4> QED  BY <1>n, <2>2, <4>1 DEF Phase
    <3> QED  BY <1>w, <2>1, <2>3, <2>4, <3>3, <3>4, <3>5, MoveAt
  <2>5. CASE due[w].call \in {"none", "put_write", "record_write"}
    <3>1. due[w].call = "none" => due[w].job = None
      BY <1>o, <1>w DEF Owed
    <3>2. ~Moving(w, j)
      BY <1>n, <2>1, <2>5, <3>1 DEF Moving, Changing
    <3>3. due'[w].job = None \/ due'[w].call \in {"record_write", "put_write"}
      BY <2>1, <2>5
    <3>4. ~Moving(w, j)'
      BY <1>n, <2>2, <3>3 DEF Moving, Changing
    <3>5. row'[j] = row[j]
      BY <2>1, <2>5
    <3> QED  BY <1>w, <2>1, <2>3, <3>2, <3>4, <3>5, MoveAt
  <2> QED  BY <2>1, <2>4, <2>5
<1>8. ASSUME NEW c \in Clients, NEW j \in Jobs, j = due[c].job, EnqueueRedis(c)  PROVE MoveInv'
  <2>1. /\ Frame(c, j) /\ pc[c] = "idle" /\ due[c].call = "redis_enqueue" /\ status'[j] = "queued"
        /\ row'[j] = row[j] /\ pc'[c] = "enq_zadd" /\ cur'[c] = j /\ due'[c] = Nothing
    BY <1>8, EnqueueRedisDoes
  <2>a. due'[c].job = None
    BY <2>1
  <2>2. Moving(c, j)
    BY <1>8, <2>1 DEF Moving
  <2>3. \A k \in Jobs \ torn' : k # j => ~Moving(c, k) /\ ~Moving(c, k)'
    BY <1>a, <1>b, <1>8, <2>1, <2>a
  <2>4. ASSUME j \notin torn'
        PROVE  (\A d \in Clients \ {c} : ~Moving(d, j)) /\ Phase(c, j)' /\ Moving(c, j)'
    <3>1. (\A d \in Clients \ {c} : ~Moving(d, j)) /\ Phase(c, j)
      BY <1>m, <1>f, <2>1, <2>2, <2>4
    <3>2. row'[j] = "queued"
      BY <1>8, <2>1, <3>1 DEF Phase
    <3>3. Phase(c, j)'
      BY <1>n, <2>1, <2>a, <3>2 DEF Phase
    <3>4. Moving(c, j)'
      BY <2>1 DEF Moving, Changing
    <3> QED  BY <3>1, <3>3, <3>4
  <2> QED  BY <2>1, <2>3, <2>4, MoveAt
<1>9. ASSUME NEW c \in Clients, NEW j \in Jobs, j = due[c].job, UpdateSql(c)  PROVE MoveInv'
  <2>1. /\ Frame(c, j) /\ due[c].call = "update" /\ status'[j] = status[j] /\ row'[j] = due[c].status
        /\ pc'[c] = pc[c] /\ due'[c] = Nothing
    BY <1>9, UpdateSqlDoes
  <2>a. due'[c].job = None /\ pc[c] = "idle"
    BY <1>o, <2>1 DEF Owed
  <2>2. Moving(c, j)
    BY <1>9, <2>1 DEF Moving
  <2>3. \A k \in Jobs \ torn' : k # j => ~Moving(c, k) /\ ~Moving(c, k)'
    BY <1>a, <1>b, <1>9, <2>1, <2>a
  <2>4. ASSUME j \notin torn'
        PROVE  (\A d \in Clients \ {c} : ~Moving(d, j)) /\ Phase(c, j)' /\ row'[j] = status'[j]
    <3>1. (\A d \in Clients \ {c} : ~Moving(d, j)) /\ Phase(c, j)
      BY <1>m, <1>f, <2>1, <2>2, <2>4
    <3>2. row'[j] = status'[j]
      BY <1>9, <2>1, <3>1 DEF Phase
    <3>3. Phase(c, j)'
      BY <1>n, <2>1, <2>a DEF Phase
    <3> QED  BY <3>1, <3>2, <3>3
  <2> QED  BY <2>1, <2>3, <2>4, MoveAt
<1>10. ASSUME NEW c \in Clients, NEW j \in Jobs, j = cur[c], UpdateRedis(c)  PROVE MoveInv'
  <2>1. /\ Frame(c, j) /\ row'[j] = row[j] /\ due[c] = Nothing
        /\ pc[c] \in {"us_hset", "us_zrem", "us_delete"}
        /\ status'[j] = IF pc[c] = "us_hset" THEN target[c] ELSE status[j]
        /\ \/ pc'[c] = "idle" /\ due'[c] = [call |-> "update", job |-> j, status |-> target[c]]
           \/ pc'[c] \in {"us_zrem", "us_delete"} /\ cur'[c] = j /\ target'[c] = target[c] /\ due'[c] = Nothing
    BY <1>10, <1>o, UpdateRedisDoes
  <2>a. due'[c].job \in {j, None} /\ due[c].job = None
    BY <2>1
  <2>2. Moving(c, j)
    BY <1>10, <2>1 DEF Moving, Changing
  <2>3. \A k \in Jobs \ torn' : k # j => ~Moving(c, k) /\ ~Moving(c, k)'
    BY <1>a, <1>b, <1>10, <2>1, <2>a
  <2>4. ASSUME j \notin torn'
        PROVE  (\A d \in Clients \ {c} : ~Moving(d, j)) /\ Phase(c, j)' /\ Moving(c, j)'
    <3>1. (\A d \in Clients \ {c} : ~Moving(d, j)) /\ Phase(c, j)
      BY <1>m, <1>f, <2>1, <2>2, <2>4
    <3>2. status'[j] = target[c]
      BY <1>10, <2>1, <3>1 DEF Phase
    <3>3. CASE pc'[c] = "idle" /\ due'[c] = [call |-> "update", job |-> j, status |-> target[c]]
      <4>1. due'[c].call = "update" /\ due'[c].job = j /\ due'[c].status = target[c]
        BY <3>3
      <4> QED  BY <3>1, <3>2, <3>3, <4>1 DEF Phase, Moving
    <3>4. CASE pc'[c] \in {"us_zrem", "us_delete"} /\ cur'[c] = j /\ target'[c] = target[c] /\ due'[c] = Nothing
      <4>1. due'[c].job = None
        BY <3>4
      <4>2. Moving(c, j)'
        BY <3>4 DEF Moving, Changing
      <4>3. Phase(c, j)'
        BY <1>n, <3>2, <3>4, <4>1 DEF Phase
      <4> QED  BY <3>1, <4>2, <4>3
    <3> QED  BY <2>1, <3>3, <3>4
  <2> QED  BY <2>1, <2>3, <2>4, MoveAt
<1>11. ASSUME NEW c \in Clients, NEW j \in Jobs, j = cur[c], Free(c), UNCHANGED hybridVars,
              EnqueueZadd(c) \/ ReleaseHset(c) \/ ReleaseZadd(c) \/ ReleaseDelete(c)
       PROVE  MoveInv'
  <2>1. /\ Frame(c, j) /\ row'[j] = row[j] /\ due[c] = Nothing /\ due'[c] = Nothing
        /\ pc[c] \in {"enq_zadd", "rel_hset", "rel_zadd", "rel_delete"}
        /\ status'[j] = IF pc[c] = "rel_hset" THEN "queued" ELSE status[j]
        /\ \/ pc'[c] = "idle" /\ pc[c] \in {"enq_zadd", "rel_delete"}
           \/ /\ pc'[c] \in {"rel_zadd", "rel_delete"} /\ cur'[c] = j
              /\ pc[c] \in {"rel_hset", "rel_zadd"}
    BY <1>11, <1>o, RedisStepDoes
  <2>a. due'[c].job = None /\ due[c].job = None
    BY <2>1
  <2>2. Moving(c, j)
    BY <1>11, <2>1 DEF Moving, Changing
  <2>3. \A k \in Jobs \ torn' : k # j => ~Moving(c, k) /\ ~Moving(c, k)'
    BY <1>a, <1>b, <1>11, <2>1, <2>a
  <2>4. ASSUME j \notin torn'
        PROVE  /\ \A d \in Clients \ {c} : ~Moving(d, j)
               /\ Phase(c, j)' /\ row'[j] = status'[j]
    <3>1. (\A d \in Clients \ {c} : ~Moving(d, j)) /\ Phase(c, j)
      BY <1>m, <1>f, <2>1, <2>2, <2>4
    <3>2. row'[j] = status'[j] /\ (pc[c] \in {"rel_hset", "rel_zadd"} => status'[j] = "queued")
      BY <1>11, <2>1, <3>1 DEF Phase
    <3>3. Phase(c, j)'
      BY <1>n, <2>1, <2>a, <3>2 DEF Phase
    <3> QED  BY <3>1, <3>2, <3>3
  <2> QED  BY <2>1, <2>3, <2>4, MoveAt
<1>12. ASSUME NEW w \in Workers, Quiet(w)  PROVE MoveInv'
  <2>1. Frame(w, None)
    BY <1>12 DEF Quiet, Frame, hybridVars
  <2>2. /\ pc[w] \in Looking /\ pc'[w] \in Looking /\ due[w] = Nothing /\ due'[w] = Nothing
    BY <1>12 DEF Quiet, hybridVars
  <2>a. due'[w].job = None /\ due[w].job = None
    BY <2>2
  <2>3. \A k \in Jobs \ torn' : ~Moving(w, k) /\ ~Moving(w, k)'
    BY <1>n, <2>2, <2>a DEF Moving, Changing, Looking
  <2> QED  BY <1>w, <1>n, <2>1, <2>3, MoveAt
<1>13. ASSUME NEW c \in Clients, Abandon(c)  PROVE MoveInv'
  <2>1. /\ Frame(c, None) /\ pc'[c] = "idle" /\ due'[c] = Nothing
        /\ \A k \in Jobs : InMethod(c, k) => k \in torn'
    BY <1>13, AbandonDoes
  <2>a. due'[c].job = None
    BY <2>1
  <2>2. \A k \in Jobs \ torn' : ~Moving(c, k)
    BY <2>1 DEF Moving, InMethod
  <2>3. \A k \in Jobs \ torn' : ~Moving(c, k)'
    BY <1>n, <2>1, <2>a DEF Moving, Changing
  <2> QED  BY <1>n, <2>1, <2>2, <2>3, MoveAt
<1>14. ASSUME UNCHANGED <<status, clients, hybridVars>>  PROVE MoveInv'
  BY <1>14 DEF MoveInv, SoleMover, InPhase, Agree, Phase, Moving, Changing, hybridVars, clients
<1>15. CASE (\E j \in Jobs : LeaseExpires(j) /\ UNCHANGED hybridVars) \/ UNCHANGED allVars
  BY <1>14, <1>15 DEF LeaseExpires, allVars, vars, store
<1>16. ASSUME NEW c \in Clients, NEW j \in Jobs, JobStep(c, j)  PROVE MoveInv'
  BY <1>1, <1>2, <1>3, <1>4, <1>5, <1>6, <1>7, <1>8, <1>9, <1>10, <1>11, <1>16 DEF JobStep
<1> QED
  BY <1>o, <1>12, <1>13, <1>15, <1>16, HybridCases

-----------------------------------------------------------------------------
(* The hybrid backend: the attempts counter.                               *)

\* A step keeps the counters if its client takes at most one job in hand, one
\* that was in no other hands, and writes the counter only with it in hand.
LEMMA AttemptsAt ==
  ASSUME HybridTypes, DurableInv, AttemptsInv, NEW c \in Clients, NEW j, Frame(c, j),
         c \in Workers => \A k \in Jobs : k # j => ~InHand(c, k)',
         j \in Jobs \ shared' =>
           /\ attempts'[j] = recorded'[j]
           /\ \/ \A v \in Workers \ {c} : ~InHand(v, j)
              \/ attempts'[j] = attempts[j] /\ (c \in Workers => ~InHand(c, j)'),
         c \in Workers /\ due'[c].call \in {"claim_write", "record_write", "put_write"} =>
           due'[c].job = j /\ j \in Jobs /\ (j \notin shared' => meta'[c] = attempts'[j])
  PROVE  AttemptsInv'
<1>1. ASSUME NEW v \in Workers, v # c
      PROVE  /\ pc'[v] = pc[v] /\ cur'[v] = cur[v] /\ due'[v] = due[v] /\ meta'[v] = meta[v]
             /\ \A k \in Jobs : InHand(v, k)' <=> InHand(v, k)
             /\ due[v].call # "none" => due[v].job \in Jobs
  <2>0. v \in Clients
    BY DEF Clients
  <2>1. pc'[v] = pc[v] /\ cur'[v] = cur[v] /\ due'[v] = due[v] /\ meta'[v] = meta[v]
    BY <1>1, <2>0 DEF Frame
  <2>2. \A k \in Jobs : InHand(v, k)' <=> InHand(v, k)
    BY <2>1 DEF InHand, Owns
  <2>3. due[v].call # "none" => due[v].job \in Jobs
    BY <2>0 DEF DurableInv, Owed
  <2> QED  BY <2>1, <2>2, <2>3
<1>s. shared \subseteq shared' /\ \A k \in Jobs : k # j => attempts'[k] = attempts[k] /\ recorded'[k] = recorded[k]
  BY DEF Frame
<1>k. AttemptsKept'
  BY <1>s DEF AttemptsInv, AttemptsKept
<1>2. ASSUME NEW v \in Workers, NEW w \in Workers, NEW k \in Jobs \ shared', v # w
      PROVE  ~(InHand(v, k)' /\ InHand(w, k)')
  <2>1. k \in Jobs \ shared /\ ~(InHand(v, k) /\ InHand(w, k))
    BY <1>2, <1>s DEF AttemptsInv, SoleHand
  <2>2. CASE v # c /\ w # c
    BY <1>1, <2>1, <2>2
  <2>3. CASE v = c
    BY <1>1, <1>2, <2>1, <2>3
  <2>4. CASE w = c
    BY <1>1, <1>2, <2>1, <2>4
  <2> QED  BY <2>2, <2>3, <2>4
<1>h. SoleHand'
  BY <1>2 DEF SoleHand
<1>3. ASSUME NEW v \in Workers, due'[v].call \in {"claim_write", "record_write", "put_write"}, due'[v].job \notin shared'
      PROVE  meta'[v] = attempts'[due'[v].job]
  <2>1. CASE v = c
    BY <1>3, <2>1
  <2>2. CASE v # c
    <3>1. /\ due'[v] = due[v] /\ meta'[v] = meta[v] /\ due[v].job \in Jobs
      BY <1>1, <1>3, <2>2
    <3>2. meta[v] = attempts[due[v].job]
      BY <1>3, <1>s, <3>1 DEF AttemptsInv, FreshMeta
    <3>3. InHand(v, due[v].job)
      BY DEF InHand
    <3>4. attempts'[due[v].job] = attempts[due[v].job]
      BY <1>3, <1>s, <2>2, <3>1, <3>3
    <3> QED  BY <3>1, <3>2, <3>4
  <2> QED  BY <2>1, <2>2
<1>f. FreshMeta'
  BY <1>3 DEF FreshMeta
<1> QED  BY <1>k, <1>h, <1>f DEF AttemptsInv

\* Every step keeps the counters.
LEMMA AttemptsSteps ==
  ASSUME HybridTypes, DurableInv, AttemptsInv, [HybridNext]_allVars
  PROVE  AttemptsInv'
<1>o. \A c \in Clients : Owed(c)
  BY DEF DurableInv
<1>n. None \notin Jobs /\ Workers \cap Callers = {}
  BY RedisConstants DEF RedisConstants
<1>w. Workers \subseteq Clients /\ Callers \subseteq Clients
  BY DEF Clients
<1>k. \A j \in Jobs \ shared : attempts[j] = recorded[j]
  BY DEF AttemptsInv, AttemptsKept
<1>h. \A w \in Workers, j \in Jobs \ shared : InHand(w, j) => \A v \in Workers \ {w} : ~InHand(v, j)
  BY DEF AttemptsInv, SoleHand
<1>f. \A c, j : Frame(c, j) => shared \subseteq shared'
  BY DEF Frame
\* A worker that works on j, or on nothing, has no other job in hand.
<1>a. ASSUME NEW w, NEW j, NEW k \in Jobs, k # j,
             cur'[w] = j \/ pc'[w] \notin {"running", "us_hset", "us_zrem", "us_delete"},
             due'[w].job \in {j, None}
      PROVE  ~InHand(w, k)'
  BY <1>a, <1>n DEF InHand, Owns
<1> USE DEF Nothing, Stands, Holds, SameMeta
<1>1. ASSUME NEW c \in Callers, NEW j \in Jobs,
             EnqueueSql(c, j) \/ CallerChanges(c, j) \/ CallerChangesSqlOnly(c, j)
      PROVE  AttemptsInv'
  <2>1. Frame(c, j) /\ attempts'[j] = attempts[j] /\ recorded'[j] = recorded[j]
    <3>1. CASE EnqueueSql(c, j)
      BY <1>o, <1>w, <3>1, EnqueueSqlDoes
    <3>2. CASE CallerChanges(c, j)
      BY <1>o, <1>w, <3>2, CallerChangesDoes
    <3>3. CASE CallerChangesSqlOnly(c, j)
      BY <1>o, <1>w, <3>3, SqlOnlyDoes
    <3> QED  BY <1>1, <3>1, <3>2, <3>3
  <2>2. c \notin Workers
    BY <1>n
  <2> QED  BY <1>w, <1>k, <1>f, <2>1, <2>2, AttemptsAt
<1>2. ASSUME NEW w \in Workers, NEW j \in Jobs, j = cur[w], ClaimRedis(w)  PROVE AttemptsInv'
  <2>1. /\ Frame(w, j) /\ attempts'[j] = attempts[j] /\ recorded'[j] = recorded[j] /\ shared' = Shares(w, j)
        /\ pc'[w] = "running" /\ cur'[w] = j
        /\ due'[w] = [call |-> "claim_read", job |-> j, status |-> None]
    BY <1>2, <1>o, <1>w, ClaimRedisDoes
  <2>2. due'[w].job = j /\ due'[w].call = "claim_read"
    BY <2>1
  <2>3. \A k \in Jobs : k # j => ~InHand(w, k)'
    BY <1>a, <2>1, <2>2
  <2>4. j \notin shared' => \A v \in Workers \ {w} : ~InHand(v, j)
    BY <2>1 DEF Shares
  <2> QED  BY <1>w, <1>k, <1>f, <2>1, <2>2, <2>3, <2>4, AttemptsAt
<1>3. ASSUME NEW w \in Workers, NEW j \in Jobs, j = cur[w], ClaimUnanswered(w)  PROVE AttemptsInv'
  <2>1. /\ Frame(w, j) /\ attempts'[j] = attempts[j] /\ recorded'[j] = recorded[j]
        /\ pc'[w] = "idle" /\ due'[w] = Nothing
    BY <1>3, <1>o, <1>w, ClaimUnansweredDoes
  <2>2. due'[w].job = None /\ due'[w].call = "none"
    BY <2>1
  <2>3. \A k \in Jobs : ~InHand(w, k)'
    BY <1>n, <2>1, <2>2 DEF InHand, Owns
  <2> QED  BY <1>w, <1>k, <1>f, <2>1, <2>2, <2>3, AttemptsAt
<1>4. ASSUME NEW w \in Workers, NEW j \in Jobs, j = cur[w], HandlerDone(w)  PROVE AttemptsInv'
  <2>1. /\ Frame(w, j) /\ attempts'[j] = attempts[j] /\ recorded'[j] = recorded[j] /\ pc[w] = "running"
        /\ cur'[w] = j /\ due'[w] = Nothing
    BY <1>4, <1>o, <1>w, HandlerDoneDoes
  <2>2. due'[w].job = None /\ due'[w].call = "none"
    BY <2>1
  <2>3. \A k \in Jobs : k # j => ~InHand(w, k)'
    BY <1>a, <2>1, <2>2
  <2>4. InHand(w, j)
    BY <1>4, <2>1 DEF InHand, Owns
  <2> QED  BY <1>w, <1>k, <1>f, <1>h, <2>1, <2>2, <2>3, <2>4, AttemptsAt
<1>5. ASSUME NEW w \in Workers, NEW j \in Jobs,
             \/ (ClaimSqlRead(w) \/ ClaimSqlWrite(w) \/ PutMetaWrite(w) \/ RecordAttemptWrite(w)) /\ j = due[w].job
             \/ (MetaRead(w, "record_write") \/ MetaRead(w, "put_write")) /\ j = cur[w]
      PROVE  AttemptsInv'
  <2>1. /\ Frame(w, j) /\ pc[w] = "running" /\ cur[w] = j /\ UNCHANGED vars /\ shared' = shared
        /\ \/ /\ due[w].call \in {"none", "claim_read"} /\ meta'[w] = attempts[j]
              /\ attempts'[j] = attempts[j] /\ recorded'[j] = recorded[j]
              /\ \E call \in {"claim_write", "record_write", "put_write"} :
                   due'[w] = [call |-> call, job |-> j, status |-> None]
           \/ /\ due[w].call \in {"claim_write", "put_write"} /\ due'[w] = Nothing
              /\ attempts'[j] \in {attempts[j], meta[w]} /\ recorded'[j] = recorded[j]
           \/ /\ due[w].call = "record_write" /\ due'[w] = Nothing
              /\ attempts'[j] = meta[w] + 1 /\ recorded'[j] = recorded[j] + 1
    <3>1. Owed(w)
      BY <1>o, <1>w
    <3> QED  BY <1>5, <3>1, SqlStepDoes
  <2>2. pc'[w] = "running" /\ cur'[w] = j
    BY <2>1 DEF vars, clients
  <2>3. due'[w].job \in {j, None} /\ (due'[w].job = j \/ due'[w].call = "none")
    BY <2>1
  <2>4. \A k \in Jobs : k # j => ~InHand(w, k)'
    BY <1>a, <2>2, <2>3
  <2>5. InHand(w, j)
    BY <2>1 DEF InHand, Owns
  <2>6. ASSUME j \notin shared, due[w].call \in {"claim_write", "put_write", "record_write"}
        PROVE  meta[w] = attempts[j]
    <3>1. due[w].job = j
      BY <1>o, <1>w, <2>1, <2>6 DEF Owed
    <3> QED  BY <2>6, <3>1 DEF AttemptsInv, FreshMeta
  <2>7. ASSUME j \notin shared  PROVE attempts'[j] = recorded'[j]
    BY <1>k, <2>1, <2>6, <2>7
  <2>8. ASSUME due'[w].call \in {"claim_write", "record_write", "put_write"}
        PROVE  due'[w].job = j /\ meta'[w] = attempts'[j]
    <3>1. due'[w] # Nothing
      BY <2>8
    <3>2. due'[w].job = j
      BY <2>1, <2>3, <3>1
    <3> QED  BY <2>1, <3>1, <3>2
  <2> QED  BY <1>w, <1>h, <2>1, <2>4, <2>5, <2>7, <2>8, AttemptsAt
<1>6. ASSUME NEW c \in Clients, NEW j \in Jobs, j = due[c].job, EnqueueRedis(c)  PROVE AttemptsInv'
  <2>1. /\ Frame(c, j) /\ attempts'[j] = attempts[j] /\ recorded'[j] = recorded[j]
        /\ pc'[c] = "enq_zadd" /\ due'[c] = Nothing
    BY <1>6, EnqueueRedisDoes
  <2>2. due'[c].job = None /\ due'[c].call = "none"
    BY <2>1
  <2>3. \A k \in Jobs : ~InHand(c, k)'
    BY <1>n, <2>1, <2>2 DEF InHand, Owns
  <2> QED  BY <1>k, <1>f, <2>1, <2>2, <2>3, AttemptsAt
<1>7. ASSUME NEW c \in Clients, NEW j \in Jobs, j = due[c].job, UpdateSql(c)  PROVE AttemptsInv'
  <2>1. /\ Frame(c, j) /\ attempts'[j] = attempts[j] /\ recorded'[j] = recorded[j]
        /\ pc'[c] = pc[c] /\ due[c].call = "update" /\ due'[c] = Nothing
    BY <1>7, UpdateSqlDoes
  <2>2. due'[c].job = None /\ due'[c].call = "none" /\ pc'[c] = "idle"
    BY <1>o, <2>1 DEF Owed
  <2>3. \A k \in Jobs : ~InHand(c, k)'
    BY <1>n, <2>2 DEF InHand, Owns
  <2> QED  BY <1>k, <1>f, <2>1, <2>2, <2>3, AttemptsAt
<1>8. ASSUME NEW c \in Clients, NEW j \in Jobs, j = cur[c], UpdateRedis(c)  PROVE AttemptsInv'
  <2>1. /\ Frame(c, j) /\ attempts'[j] = attempts[j] /\ recorded'[j] = recorded[j]
        /\ pc[c] \in {"us_hset", "us_zrem", "us_delete"}
        /\ \/ pc'[c] = "idle" /\ due'[c] = [call |-> "update", job |-> j, status |-> target[c]]
           \/ cur'[c] = j /\ due'[c] = Nothing
    BY <1>8, <1>o, UpdateRedisDoes
  <2>2. due'[c].job \in {j, None} /\ due'[c].call \in {"none", "update"}
    BY <2>1
  <2>3. \A k \in Jobs : k # j => ~InHand(c, k)'
    BY <1>a, <2>1, <2>2
  <2>4. InHand(c, j)
    BY <1>8, <2>1 DEF InHand, Owns
  <2> QED  BY <1>k, <1>f, <1>h, <2>1, <2>2, <2>3, <2>4, AttemptsAt
<1>9. ASSUME NEW c \in Clients, NEW j \in Jobs, j = cur[c], Free(c), UNCHANGED hybridVars,
              EnqueueZadd(c) \/ ReleaseHset(c) \/ ReleaseZadd(c) \/ ReleaseDelete(c)
       PROVE  AttemptsInv'
  <2>1. /\ Frame(c, j) /\ attempts'[j] = attempts[j] /\ recorded'[j] = recorded[j]
        /\ due'[c] = Nothing /\ pc'[c] \in {"idle", "rel_zadd", "rel_delete"}
    BY <1>9, <1>o, RedisStepDoes
  <2>2. due'[c].job = None /\ due'[c].call = "none"
    BY <2>1
  <2>3. \A k \in Jobs : ~InHand(c, k)'
    BY <1>n, <2>1, <2>2 DEF InHand, Owns
  <2> QED  BY <1>k, <1>f, <2>1, <2>2, <2>3, AttemptsAt
<1>10. ASSUME NEW w \in Workers, Quiet(w)  PROVE AttemptsInv'
  <2>1. Frame(w, None)
    BY <1>10 DEF Quiet, Frame, hybridVars
  <2>2. pc'[w] \in Looking /\ due'[w] = Nothing
    BY <1>10 DEF Quiet, hybridVars
  <2>3. due'[w].job = None /\ due'[w].call = "none"
    BY <2>2
  <2>4. \A k \in Jobs : ~InHand(w, k)'
    BY <1>n, <2>2, <2>3 DEF InHand, Owns, Looking
  <2> QED  BY <1>w, <1>n, <2>1, <2>3, <2>4, AttemptsAt
<1>11. ASSUME NEW c \in Clients, Abandon(c)  PROVE AttemptsInv'
  <2>1. Frame(c, None) /\ pc'[c] = "idle" /\ due'[c] = Nothing
    BY <1>11, AbandonDoes
  <2>2. due'[c].job = None /\ due'[c].call = "none"
    BY <2>1
  <2>3. \A k \in Jobs : ~InHand(c, k)'
    BY <1>n, <2>1, <2>2 DEF InHand, Owns
  <2> QED  BY <1>n, <2>1, <2>2, <2>3, AttemptsAt
<1>12. ASSUME UNCHANGED <<clients, hybridVars>>  PROVE AttemptsInv'
  BY <1>12 DEF AttemptsInv, SoleHand, FreshMeta, AttemptsKept, InHand, Owns, hybridVars, clients
<1>13. CASE (\E j \in Jobs : LeaseExpires(j) /\ UNCHANGED hybridVars) \/ UNCHANGED allVars
  BY <1>12, <1>13 DEF LeaseExpires, allVars, vars, store
<1>14. ASSUME NEW c \in Clients, NEW j \in Jobs, JobStep(c, j)  PROVE AttemptsInv'
  BY <1>1, <1>2, <1>3, <1>4, <1>5, <1>6, <1>7, <1>8, <1>9, <1>14 DEF JobStep
<1> QED
  BY <1>o, <1>10, <1>11, <1>13, <1>14, HybridCases

-----------------------------------------------------------------------------
(* The hybrid backend: the lease of a running job.                         *)

\* A step keeps the leases if it leaves its job not running, leaves it as it
\* was, or is the claim that the lease is for.
RunsLatest(w, j) == pc[w] = "running" /\ cur[w] = j /\ claimEp[w] = episode[j]
LeaseOutcome(c, j) ==
  \/ status'[j] # "running"
  \/ status'[j] = status[j] /\ SameKeys(j) /\ (c \in Workers /\ RunsLatest(c, j)' => RunsLatest(c, j))
  \/ /\ lease'[j] = c /\ episode'[j] = episode[j]
     /\ \A v \in Workers \ {c} : ~RunsLatest(v, j)

\* Any such step keeps LeaseHeld.
LEMMA LeaseAt ==
  ASSUME LeaseHeld, NEW c \in Clients, NEW j, Frame(c, j),
         c \in Workers /\ pc'[c] = "running" => cur'[c] = j,
         j \in Jobs \ torn' => LeaseOutcome(c, j)
  PROVE  LeaseHeld'
<1>1. ASSUME NEW v \in Workers, NEW k \in Jobs \ torn', status'[k] = "running",
             pc'[v] = "running", cur'[v] = k, claimEp'[v] = episode'[k]
      PROVE  lease'[k] = v \/ <<k, episode'[k]>> \in expired'
  <2>0. v \in Clients /\ k \in Jobs \ torn /\ expired \subseteq expired'
    BY DEF Clients, Frame
  <2>1. v # c => pc'[v] = pc[v] /\ cur'[v] = cur[v] /\ claimEp'[v] = claimEp[v]
    BY <2>0 DEF Frame
  <2>2. ASSUME status[k] = "running", RunsLatest(v, k)
        PROVE  lease[k] = v \/ <<k, episode[k]>> \in expired
    BY <2>0, <2>2 DEF LeaseHeld, RunsLatest
  <2>3. CASE k # j
    <3>1. status'[k] = status[k] /\ lease'[k] = lease[k] /\ episode'[k] = episode[k]
      BY <2>3 DEF Frame
    <3>2. v # c
      BY <1>1, <2>3
    <3> QED  BY <1>1, <2>0, <2>1, <2>2, <3>1, <3>2 DEF RunsLatest
  <2>4. CASE k = j /\ status'[j] = status[j] /\ SameKeys(j) /\ (c \in Workers /\ RunsLatest(c, j)' => RunsLatest(c, j))
    <3>1. RunsLatest(v, k)
      BY <1>1, <2>1, <2>4 DEF RunsLatest, SameKeys
    <3> QED  BY <1>1, <2>0, <2>2, <2>4, <3>1 DEF SameKeys
  <2>5. CASE k = j /\ lease'[j] = c /\ episode'[j] = episode[j] /\ \A w \in Workers \ {c} : ~RunsLatest(w, j)
    BY <1>1, <2>1, <2>5 DEF RunsLatest
  <2> QED  BY <1>1, <2>3, <2>4, <2>5 DEF LeaseOutcome
<1> QED  BY <1>1 DEF LeaseHeld

\* Every step keeps the leases.
LEMMA LeaseSteps ==
  ASSUME HybridTypes, ClaimInv, DurableInv, MoveInv, LeaseHeld, [HybridNext]_allVars
  PROVE  LeaseHeld'
<1>o. \A c \in Clients : Owed(c) /\ Targets(c)
  BY DEF DurableInv
<1>n. None \notin Jobs /\ Workers \cap Callers = {} /\ "running" \notin Outcomes
  BY RedisConstants DEF RedisConstants
<1>w. Workers \subseteq Clients /\ Callers \subseteq Clients
  BY DEF Clients
<1>p. \A c \in Clients, j \in Jobs \ torn : Phase(c, j)
  BY DEF MoveInv, InPhase
<1>f. \A c, j : Frame(c, j) => torn \subseteq torn'
  BY DEF Frame
<1> USE DEF Nothing, Stands, Holds
\* A step that leaves the keys of its job alone and does not end in a handler.
<1>s. ASSUME NEW c \in Clients, NEW j \in Jobs, Frame(c, j), status'[j] = status[j], SameKeys(j),
             c \notin Workers \/ pc'[c] # "running"
      PROVE  LeaseHeld'
  <2>1. LeaseOutcome(c, j)
    BY <1>s DEF LeaseOutcome, RunsLatest
  <2> QED  BY <1>s, <2>1, LeaseAt
\* A step after which its job does not run.
<1>q. ASSUME NEW c \in Clients, NEW j \in Jobs, Frame(c, j), j \notin torn' => status'[j] # "running",
             c \notin Workers \/ pc'[c] # "running"
      PROVE  LeaseHeld'
  <2>1. j \notin torn' => LeaseOutcome(c, j)
    BY <1>q DEF LeaseOutcome
  <2> QED  BY <1>q, <2>1, LeaseAt
<1>1. ASSUME NEW c \in Callers, NEW j \in Jobs,
             EnqueueSql(c, j) \/ CallerChanges(c, j) \/ CallerChangesSqlOnly(c, j)
      PROVE  LeaseHeld'
  <2>1. Frame(c, j) /\ status'[j] = status[j] /\ SameKeys(j)
    <3>1. CASE EnqueueSql(c, j)
      BY <1>o, <1>w, <3>1, EnqueueSqlDoes
    <3>2. CASE CallerChanges(c, j)
      BY <1>o, <1>w, <3>2, CallerChangesDoes
    <3>3. CASE CallerChangesSqlOnly(c, j)
      BY <1>o, <1>w, <3>3, SqlOnlyDoes
    <3> QED  BY <1>1, <3>1, <3>2, <3>3
  <2> QED  BY <1>n, <1>w, <1>s, <2>1
<1>2. ASSUME NEW w \in Workers, NEW j \in Jobs, j = cur[w], ClaimRedis(w)  PROVE LeaseHeld'
  <2>1. /\ Frame(w, j) /\ episode'[j] = episode[j] /\ lease'[j] = w
        /\ status[j] = "queued" /\ cur'[w] = j
    <3>1. Owed(w)
      BY <1>o, <1>w
    <3>2. /\ Frame(w, j) /\ episode'[j] = episode[j] /\ lease'[j] = w /\ status[j] = "queued"
          /\ Stands(w, "running", j, target[w], [call |-> "claim_read", job |-> j, status |-> None])
      BY <1>2, <3>1, ClaimRedisDoes
    <3> QED  BY <3>2
  <2>2. ASSUME NEW v \in Workers  PROVE ~RunsLatest(v, j)
    <3>1. SUFFICES ASSUME RunsLatest(v, j)  PROVE FALSE
      OBVIOUS
    <3>2. claimEp[v] < episode[j]
      BY <2>1, <3>1 DEF ClaimInv, ClaimsArePast, Owns, RunsLatest
    <3>3. claimEp[v] = episode[j] /\ episode[j] \in Nat
      BY <3>1 DEF RunsLatest, HybridTypes, RedisTypeOK, KeysTypeOK
    <3> QED  BY <3>2, <3>3
  <2>3. LeaseOutcome(w, j)
    BY <2>1, <2>2 DEF LeaseOutcome
  <2> QED  BY <1>w, <2>1, <2>3, LeaseAt
<1>3. ASSUME NEW w \in Workers, NEW j \in Jobs, j = cur[w], ClaimUnanswered(w)  PROVE LeaseHeld'
  <2>1. /\ Frame(w, j) /\ pc'[w] = "idle"
        /\ (status'[j] = status[j] /\ SameKeys(j)) \/ j \in torn'
    BY <1>3, <1>o, <1>w, ClaimUnansweredDoes
  <2> QED  BY <1>w, <1>s, <1>q, <2>1
<1>4. ASSUME NEW w \in Workers, NEW j \in Jobs, j = cur[w], HandlerDone(w)  PROVE LeaseHeld'
  <2>1. Frame(w, j) /\ status'[j] = status[j] /\ SameKeys(j) /\ pc'[w] = "us_hset"
    BY <1>4, <1>o, <1>w, HandlerDoneDoes
  <2> QED  BY <1>w, <1>s, <2>1
<1>5. ASSUME NEW w \in Workers, NEW j \in Jobs,
             \/ (ClaimSqlRead(w) \/ ClaimSqlWrite(w) \/ PutMetaWrite(w) \/ RecordAttemptWrite(w)) /\ j = due[w].job
             \/ (MetaRead(w, "record_write") \/ MetaRead(w, "put_write")) /\ j = cur[w]
      PROVE  LeaseHeld'
  <2>0. Owed(w)
    BY <1>o, <1>w
  <2>1. torn' = torn /\ UNCHANGED vars
    BY <1>5, <2>0, SqlStepDoes
  <2> QED  BY <2>1 DEF LeaseHeld, vars, store, clients
<1>6. ASSUME NEW c \in Clients, NEW j \in Jobs, j = due[c].job, EnqueueRedis(c)  PROVE LeaseHeld'
  <2>1. Frame(c, j) /\ status'[j] = "queued" /\ pc'[c] = "enq_zadd"
    BY <1>6, EnqueueRedisDoes
  <2> QED  BY <1>q, <2>1
<1>7. ASSUME NEW c \in Clients, NEW j \in Jobs, j = due[c].job, UpdateSql(c)  PROVE LeaseHeld'
  <2>1. Frame(c, j) /\ status'[j] = status[j] /\ SameKeys(j) /\ due[c].call = "update" /\ pc'[c] = pc[c]
    BY <1>7, UpdateSqlDoes
  <2>2. pc'[c] = "idle"
    BY <1>o, <2>1 DEF Owed
  <2> QED  BY <1>s, <2>1, <2>2
<1>8. ASSUME NEW c \in Clients, NEW j \in Jobs, j = cur[c], UpdateRedis(c)  PROVE LeaseHeld'
  <2>1. /\ Frame(c, j) /\ pc'[c] \in {"idle", "us_zrem", "us_delete"}
        /\ \/ pc[c] = "us_hset" /\ status'[j] = target[c]
           \/ pc[c] = "us_zrem" /\ status'[j] = status[j] /\ SameKeys(j)
           \/ pc[c] = "us_delete" /\ status'[j] = status[j]
    BY <1>8, <1>o, UpdateRedisDoes
  <2>2. target[c] # "running"
    BY <1>n, <1>o, <2>1 DEF Targets
  <2>3. pc[c] = "us_delete" /\ j \notin torn' => status[j] = target[c]
    BY <1>8, <1>f, <1>p, <2>1 DEF Phase
  <2> QED  BY <1>s, <1>q, <2>1, <2>2, <2>3
<1>9. ASSUME NEW c \in Clients, NEW j \in Jobs, j = cur[c], Free(c), UNCHANGED hybridVars,
             EnqueueZadd(c) \/ ReleaseHset(c) \/ ReleaseZadd(c) \/ ReleaseDelete(c)
      PROVE  LeaseHeld'
  <2>1. /\ Frame(c, j) /\ pc'[c] \in {"idle", "rel_zadd", "rel_delete"}
        /\ \/ pc[c] \in {"enq_zadd", "rel_zadd"} /\ status'[j] = status[j] /\ SameKeys(j)
           \/ pc[c] = "rel_hset" /\ status'[j] = "queued"
           \/ pc[c] = "rel_delete" /\ status'[j] = status[j]
    BY <1>9, <1>o, RedisStepDoes
  <2>2. pc[c] = "rel_delete" /\ j \notin torn' => status[j] = "queued"
    BY <1>9, <1>f, <1>p, <2>1 DEF Phase
  <2> QED  BY <1>s, <1>q, <2>1, <2>2
<1>10. ASSUME NEW w \in Workers, Quiet(w)  PROVE LeaseHeld'
  <2>1. Frame(w, None) /\ pc'[w] # "running"
    BY <1>10 DEF Quiet, Frame, hybridVars, Looking
  <2> QED  BY <1>w, <1>n, <2>1, LeaseAt
<1>11. ASSUME NEW c \in Clients, Abandon(c)  PROVE LeaseHeld'
  <2>1. Frame(c, None) /\ pc'[c] = "idle"
    BY <1>11, AbandonDoes
  <2> QED  BY <1>n, <2>1, LeaseAt
<1>12. ASSUME NEW j \in Jobs, LeaseExpires(j), UNCHANGED hybridVars  PROVE LeaseHeld'
  <2>1. lease \in [Jobs -> Workers \cup {None}]
    BY DEF HybridTypes, RedisTypeOK, KeysTypeOK
  <2>2. \A k \in Jobs : k # j => lease'[k] = lease[k]
    BY <1>12, <2>1 DEF LeaseExpires, delete_lease
  <2>3. <<j, episode[j]>> \in expired' /\ expired \subseteq expired'
    BY <1>12 DEF LeaseExpires
  <2>4. status' = status /\ episode' = episode /\ pc' = pc /\ cur' = cur /\ claimEp' = claimEp /\ torn' = torn
    BY <1>12 DEF LeaseExpires, clients, hybridVars
  <2> QED  BY <2>2, <2>3, <2>4 DEF LeaseHeld
<1>13. CASE UNCHANGED allVars
  BY <1>13 DEF LeaseHeld, allVars, vars, store, clients, hybridVars
<1>14. ASSUME NEW c \in Clients, NEW j \in Jobs, JobStep(c, j)  PROVE LeaseHeld'
  BY <1>1, <1>2, <1>3, <1>4, <1>5, <1>6, <1>7, <1>8, <1>9, <1>14 DEF JobStep
<1> QED
  BY <1>o, <1>10, <1>11, <1>12, <1>13, <1>14, HybridCases

-----------------------------------------------------------------------------
(* The hybrid backend: the theorems.                                       *)

HybridInv == HybridTypes /\ ClaimInv /\ DurableInv /\ AttemptsInv /\ MoveInv /\ LeaseHeld

\* It holds at the start.
LEMMA HybridStarts == HybridInit => HybridInv
<1> SUFFICES ASSUME HybridInit  PROVE HybridInv
  OBVIOUS
<1>n. None \notin Jobs
  BY RedisConstants DEF RedisConstants
<1>w. Workers \subseteq Clients
  BY DEF Clients
<1>i. /\ \A c \in Clients : pc[c] = "idle" /\ due[c] = Nothing
      /\ \A j \in Jobs : status[j] = "absent" /\ row[j] = "absent" /\ attempts[j] = recorded[j]
  BY DEF HybridInit, Init
<1>d. \A c \in Clients : due[c].call = "none" /\ due[c].job = None
  BY <1>i DEF Nothing
<1>1. RedisTypeOK
  BY DEF HybridInit, Init, RedisTypeOK, KeysTypeOK, ClientsTypeOK, PC
<1>2. due \in [Clients -> Debt]
  BY DEF HybridInit, Nothing, Debt, Calls
<1>3. HybridTypes
  BY <1>1, <1>2 DEF HybridInit, HybridTypes
<1>4. ClaimInv
  BY <1>i, <1>w DEF ClaimInv, ExclusivePerEpisode, ClaimsArePast, Owns
<1>5. DurableInv
  BY <1>i, <1>d DEF DurableInv, DurableBeforeDispatch, Owed, Present, Targets
<1>6. AttemptsInv
  BY <1>i, <1>d, <1>n, <1>w DEF AttemptsInv, SoleHand, FreshMeta, AttemptsKept, InHand, Owns
<1>7. MoveInv
  BY <1>i, <1>d, <1>n DEF MoveInv, SoleMover, InPhase, Agree, Moving, Phase, Changing
<1>8. LeaseHeld
  BY <1>i DEF LeaseHeld
<1> QED  BY <1>3, <1>4, <1>5, <1>6, <1>7, <1>8 DEF HybridInv

\* Every step keeps it.
LEMMA HybridKeeps == HybridInv /\ [HybridNext]_allVars => HybridInv'
<1> SUFFICES ASSUME HybridInv, [HybridNext]_allVars  PROVE HybridInv'
  OBVIOUS
<1>0. HybridTypes /\ ClaimInv /\ DurableInv /\ AttemptsInv /\ MoveInv /\ LeaseHeld
  BY DEF HybridInv
<1>1. \A c \in Clients : Owed(c)
  BY <1>0 DEF DurableInv
<1>2. HybridTypes'
  BY <1>0, <1>1, HybridStepType
<1>3. ClaimInv'
  <2>1. RedisPart
    BY <1>0, <1>1, WorkTypes, HybridIsRedis
  <2> QED  BY <1>0, <2>1, RedisPartKeeps DEF HybridTypes
<1>4. DurableInv'
  BY <1>0, DurableSteps
<1>5. AttemptsInv'
  BY <1>0, AttemptsSteps
<1>6. MoveInv'
  BY <1>0, MoveSteps
<1>7. LeaseHeld'
  BY <1>0, LeaseSteps
<1> QED  BY <1>2, <1>3, <1>4, <1>5, <1>6, <1>7 DEF HybridInv

\* Whatever the order of the two stores' answers and whoever dies between two
\* calls, HybridBackend.enqueue writes the row before the Redis hash: no job
\* that Redis can hand out is unknown to SQL.
THEOREM HybridDurable == HybridSpec => []DurableBeforeDispatch
<1>1. HybridInv => DurableBeforeDispatch
  BY DEF HybridInv, DurableInv
<1> QED  BY <1>1, HybridStarts, HybridKeeps, PTL DEF HybridSpec

\* The two stores differ only over a job whose methods overlapped, died half
\* way or lost a reply: claims, outcomes, cancellations, retries and releases
\* that follow one another leave the SQL row equal to the Redis hash.
THEOREM HybridStoresAgree == HybridSpec => []StoresAgree
<1>1. HybridInv => StoresAgree
  BY DEF HybridInv, MoveInv, Agree, StoresAgree, Moving, InMethod
<1> QED  BY <1>1, HybridStarts, HybridKeeps, PTL DEF HybridSpec

\* record_attempt, update_progress, store_result and set_claimed each read the
\* meta column and write it back: no attempt is lost while no two workers have
\* the job in hand together.
THEOREM HybridAttempts == HybridSpec => []AttemptsKept
<1>1. HybridInv => AttemptsKept
  BY DEF HybridInv, AttemptsInv
<1> QED  BY <1>1, HybridStarts, HybridKeeps, PTL DEF HybridSpec

\* The lease key of the latest claim is deleted by nobody but its own TTL, unless
\* two methods on the job overlapped: the DEL of a release or an outcome that
\* was under way when the job was claimed does take the new lease away.
THEOREM HybridLeases == HybridSpec => []LeaseHeld
<1>1. HybridInv => LeaseHeld
  BY DEF HybridInv
<1> QED  BY <1>1, HybridStarts, HybridKeeps, PTL DEF HybridSpec

\* HybridBackend.claim adds nothing to the script of the Redis backend: one
\* winner per stay in the queue, whatever SQL answers.
THEOREM HybridOneClaimPerEpisode == HybridSpec => []ExclusivePerEpisode
<1>1. HybridInv => ExclusivePerEpisode
  BY DEF HybridInv, ClaimInv
<1> QED  BY <1>1, HybridStarts, HybridKeeps, PTL DEF HybridSpec
-----------------------------------------------------------------------------
(* The sorted set.                                                         *)

\* Two sequences of jobs of m and n members, one behind the other.
OneBehind(t, x, y, m, n) ==
  /\ t \in Seq(Jobs) /\ Len(t) = m + n
  /\ \A i \in 1 .. m : t[i] = x[i]
  /\ \A i \in 1 .. n : t[m + i] = y[i]

LEMMA Joined ==
  ASSUME NEW x \in Seq(Jobs), NEW y \in Seq(Jobs), NEW m \in Nat, NEW n \in Nat, Len(x) = m, Len(y) = n,
         NEW t, t = x \o y
  PROVE  OneBehind(t, x, y, m, n)
<1>1. /\ t \in Seq(Jobs) /\ Len(t) = m + n
      /\ \A i \in 1 .. m + n : t[i] = IF i <= m THEN x[i] ELSE y[i - m]
  BY ConcatProperties
<1>2. ASSUME NEW i \in 1 .. n  PROVE t[m + i] = y[i]
  <2>1. m + i \in 1 .. m + n /\ ~(m + i <= m) /\ m + i - m = i
    OBVIOUS
  <2> QED  BY <1>1, <2>1
<1> QED  BY <1>1, <1>2 DEF OneBehind

\* The first n members of a sequence, and the others.
LEMMA Halves ==
  ASSUME NEW s \in Seq(Jobs), NEW n \in 0 .. Len(s)
  PROVE  /\ SubSeq(s, 1, n) \in Seq(Jobs) /\ Len(SubSeq(s, 1, n)) = n
         /\ \A i \in 1 .. n : SubSeq(s, 1, n)[i] = s[i]
         /\ SubSeq(s, n + 1, Len(s)) \in Seq(Jobs) /\ Len(SubSeq(s, n + 1, Len(s))) = Len(s) - n
         /\ \A i \in 1 .. Len(s) - n : SubSeq(s, n + 1, Len(s))[i] = s[n + i]
<1> DEFINE x == SubSeq(s, 1, n)
           y == SubSeq(s, n + 1, Len(s))
<1>0. Len(s) \in Nat /\ n \in Nat /\ n <= Len(s) /\ \A i \in 1 .. Len(s) : s[i] \in Jobs
  BY LenProperties
<1>1. /\ x \in Seq(Jobs) /\ Len(x) = IF 1 <= n THEN n - 1 + 1 ELSE 0
      /\ \A i \in 1 .. n - 1 + 1 : x[i] = s[1 + i - 1]
  BY <1>0, SubSeqProperties
<1>2. /\ y \in Seq(Jobs) /\ Len(y) = IF n + 1 <= Len(s) THEN Len(s) - (n + 1) + 1 ELSE 0
      /\ \A i \in 1 .. Len(s) - (n + 1) + 1 : y[i] = s[n + 1 + i - 1]
  BY <1>0, SubSeqProperties
<1> HIDE DEF x, y
<1>3. Len(x) = n /\ \A i \in 1 .. n : x[i] = s[i]
  BY <1>0, <1>1
<1>4. Len(y) = Len(s) - n /\ \A i \in 1 .. Len(s) - n : y[i] = s[n + i]
  BY <1>0, <1>2
<1> QED  BY <1>1, <1>2, <1>3, <1>4 DEF x, y

\* A sequence without its member at one place, and with a member put in behind
\* its first n.
CutAt(s, at) == SubSeq(s, 1, at - 1) \o SubSeq(s, at + 1, Len(s))
PutBehind(s, n, j) == SubSeq(s, 1, n) \o <<j>> \o SubSeq(s, n + 1, Len(s))

LEMMA CutAtIs ==
  ASSUME NEW s \in Seq(Jobs), NEW at \in 1 .. Len(s)
  PROVE  /\ CutAt(s, at) \in Seq(Jobs) /\ Len(CutAt(s, at)) = Len(s) - 1
         /\ \A i \in 1 .. Len(s) - 1 : CutAt(s, at)[i] = IF i < at THEN s[i] ELSE s[i + 1]
<1> DEFINE x == SubSeq(s, 1, at - 1)
           y == SubSeq(s, at + 1, Len(s))
           t == CutAt(s, at)
<1>0. Len(s) \in Nat /\ at \in Nat /\ at >= 1 /\ at <= Len(s)
  BY LenProperties
<1>1. at - 1 \in 0 .. Len(s) /\ at \in 0 .. Len(s)
  BY <1>0
<1>2. /\ x \in Seq(Jobs) /\ Len(x) = at - 1
      /\ \A i \in 1 .. at - 1 : x[i] = s[i]
  BY <1>1, Halves
<1>3. /\ y \in Seq(Jobs) /\ Len(y) = Len(s) - at
      /\ \A i \in 1 .. Len(s) - at : y[i] = s[at + i]
  BY <1>1, Halves
<1>4. t = x \o y
  BY DEF CutAt
<1> HIDE DEF x, y, t
<1>5. at - 1 \in Nat /\ Len(s) - at \in Nat
  BY <1>0
<1>6. /\ t \in Seq(Jobs) /\ Len(t) = (at - 1) + (Len(s) - at)
      /\ \A i \in 1 .. at - 1 : t[i] = x[i]
      /\ \A i \in 1 .. Len(s) - at : t[(at - 1) + i] = y[i]
  <2> DEFINE m == at - 1
             n == Len(s) - at
  <2>1. m \in Nat /\ n \in Nat /\ Len(x) = m /\ Len(y) = n /\ x \in Seq(Jobs) /\ y \in Seq(Jobs)
    BY <1>2, <1>3, <1>5
  <2> HIDE DEF m, n
  <2>2. OneBehind(t, x, y, m, n)
    BY <1>4, <2>1, Joined
  <2> QED  BY <2>2 DEF OneBehind, m, n
<1>7. ASSUME NEW i \in 1 .. Len(s) - 1  PROVE t[i] = IF i < at THEN s[i] ELSE s[i + 1]
  <2>1. CASE i < at
    BY <1>0, <1>2, <1>6, <2>1
  <2>2. CASE ~(i < at)
    <3>1. PICK k \in 1 .. Len(s) - at : i = (at - 1) + k
      <4>1. i - (at - 1) \in 1 .. Len(s) - at /\ i = (at - 1) + (i - (at - 1))
        BY <1>0, <2>2
      <4> QED  BY <4>1
    <3>2. t[i] = s[at + k] /\ at + k = i + 1
      BY <1>0, <1>3, <1>6, <3>1
    <3> QED  BY <2>2, <3>2
  <2> QED  BY <2>1, <2>2
<1>8. Len(t) = Len(s) - 1
  BY <1>0, <1>6
<1> QED  BY <1>6, <1>7, <1>8 DEF t

LEMMA PutBehindIs ==
  ASSUME NEW s \in Seq(Jobs), NEW n \in 0 .. Len(s), NEW j \in Jobs
  PROVE  /\ PutBehind(s, n, j) \in Seq(Jobs) /\ Len(PutBehind(s, n, j)) = Len(s) + 1
         /\ \A i \in 1 .. n : PutBehind(s, n, j)[i] = s[i]
         /\ PutBehind(s, n, j)[n + 1] = j
         /\ \A i \in n + 1 .. Len(s) : PutBehind(s, n, j)[i + 1] = s[i]
<1> DEFINE x == SubSeq(s, 1, n)
           y == SubSeq(s, n + 1, Len(s))
           u == x \o <<j>>
           t == PutBehind(s, n, j)
<1>0. Len(s) \in Nat /\ n \in Nat /\ n <= Len(s) /\ Len(s) - n \in Nat
  BY LenProperties
<1>1. /\ x \in Seq(Jobs) /\ Len(x) = n
      /\ \A i \in 1 .. n : x[i] = s[i]
  BY Halves
<1>2. /\ y \in Seq(Jobs) /\ Len(y) = Len(s) - n
      /\ \A i \in 1 .. Len(s) - n : y[i] = s[n + i]
  BY Halves
<1>3. <<j>> \in Seq(Jobs) /\ Len(<<j>>) = 1 /\ <<j>>[1] = j
  OBVIOUS
<1>4. t = u \o y
  BY DEF PutBehind
<1> HIDE DEF x, y, t
<1>5. /\ u \in Seq(Jobs) /\ Len(u) = n + 1
      /\ \A i \in 1 .. n : u[i] = x[i]
      /\ u[n + 1] = j
  <2>1. OneBehind(u, x, <<j>>, n, 1)
    BY <1>0, <1>1, <1>3, Joined
  <2> QED  BY <1>3, <2>1 DEF OneBehind
<1> HIDE DEF u
<1>6. /\ t \in Seq(Jobs) /\ Len(t) = (n + 1) + (Len(s) - n)
      /\ \A i \in 1 .. n + 1 : t[i] = u[i]
      /\ \A i \in 1 .. Len(s) - n : t[(n + 1) + i] = y[i]
  <2> DEFINE m == n + 1
             l == Len(s) - n
  <2>1. m \in Nat /\ l \in Nat /\ Len(u) = m /\ Len(y) = l /\ u \in Seq(Jobs) /\ y \in Seq(Jobs)
    BY <1>0, <1>2, <1>5
  <2> HIDE DEF m, l
  <2>2. OneBehind(t, u, y, m, l)
    BY <1>4, <2>1, Joined
  <2> QED  BY <2>2 DEF OneBehind, m, l
<1>7. Len(t) = Len(s) + 1
  BY <1>0, <1>6
<1>8. (\A i \in 1 .. n : t[i] = s[i]) /\ t[n + 1] = j
  BY <1>0, <1>1, <1>5, <1>6
<1>9. ASSUME NEW i \in n + 1 .. Len(s)  PROVE t[i + 1] = s[i]
  <2>1. PICK k \in 1 .. Len(s) - n : i = n + k
    <3>1. i - n \in 1 .. Len(s) - n /\ i = n + (i - n)
      BY <1>0
    <3> QED  BY <3>1
  <2>2. (n + 1) + k = i + 1
    BY <1>0, <2>1
  <2> QED  BY <1>2, <1>6, <2>1, <2>2
<1> QED  BY <1>6, <1>7, <1>8, <1>9 DEF t

\* zrem takes a member out and leaves the others in order.
LEMMA WithoutOrdered ==
  ASSUME NEW s \in Seq(Jobs), Ordered(s), NEW j
  PROVE  /\ Without(s, j) \in Seq(Jobs) /\ Ordered(Without(s, j))
         /\ \A i \in 1 .. Len(Without(s, j)) : Without(s, j)[i] # j
<1>1. CASE ~ \E i \in 1 .. Len(s) : s[i] = j
  BY <1>1 DEF Without
<1>2. CASE \E i \in 1 .. Len(s) : s[i] = j
  <2> DEFINE at == CHOOSE i \in 1 .. Len(s) : s[i] = j
             t == CutAt(s, at)
  <2>1. at \in 1 .. Len(s) /\ s[at] = j
    BY <1>2
  <2>2. Without(s, j) = t
    BY <1>2 DEF Without, CutAt
  <2> HIDE DEF at
  <2>3. /\ t \in Seq(Jobs) /\ Len(t) = Len(s) - 1
        /\ \A i \in 1 .. Len(s) - 1 : t[i] = IF i < at THEN s[i] ELSE s[i + 1]
    BY <2>1, CutAtIs
  <2> HIDE DEF t
  <2>4. Len(s) \in Nat /\ at \in Nat
    BY <2>1, LenProperties
  <2>5. ASSUME NEW i \in 1 .. Len(t)  PROVE t[i] # j
    <3> DEFINE p == IF i < at THEN i ELSE i + 1
    <3>1. p \in 1 .. Len(s) /\ (p < at \/ at < p) /\ t[i] = s[p]
      BY <2>3, <2>4
    <3> HIDE DEF p
    <3> QED  BY <2>1, <3>1 DEF Ordered
  <2>6. ASSUME NEW i \in 1 .. Len(t), NEW k \in 1 .. Len(t), i < k
        PROVE  t[i] # t[k] /\ Priority[t[i]] >= Priority[t[k]]
    <3> DEFINE p == IF i < at THEN i ELSE i + 1
               q == IF k < at THEN k ELSE k + 1
    <3>1. p \in 1 .. Len(s) /\ q \in 1 .. Len(s) /\ p < q
      BY <2>3, <2>4, <2>6
    <3>2. t[i] = s[p] /\ t[k] = s[q]
      BY <2>3
    <3> HIDE DEF p, q
    <3> QED  BY <3>1, <3>2 DEF Ordered
  <2>7. Ordered(t)
    BY <2>6 DEF Ordered
  <2> QED  BY <2>2, <2>3, <2>5, <2>7
<1> QED  BY <1>1, <1>2

\* A member put in behind those of its priority or a higher one.
LEMMA PutOrdered ==
  ASSUME NEW s \in Seq(Jobs), Ordered(s), NEW j \in Jobs, \A i \in 1 .. Len(s) : s[i] # j,
         NEW n \in 0 .. Len(s),
         \A i \in 1 .. n : Priority[s[i]] >= Priority[j],
         \A i \in n + 1 .. Len(s) : Priority[s[i]] < Priority[j]
  PROVE  PutBehind(s, n, j) \in Seq(Jobs) /\ Ordered(PutBehind(s, n, j))
<1> DEFINE t == PutBehind(s, n, j)
<1>1. /\ t \in Seq(Jobs) /\ Len(t) = Len(s) + 1
      /\ \A i \in 1 .. n : t[i] = s[i]
      /\ t[n + 1] = j
      /\ \A i \in n + 1 .. Len(s) : t[i + 1] = s[i]
  BY PutBehindIs
<1> HIDE DEF t
<1>2. Len(s) \in Nat /\ n \in Nat /\ n <= Len(s)
  BY LenProperties
<1>3. Priority[j] \in Nat /\ \A i \in 1 .. Len(s) : Priority[s[i]] \in Nat
  BY RedisConstants, LenProperties
<1>4. ASSUME NEW i \in 1 .. Len(t)
      PROVE  \/ i \in 1 .. n /\ t[i] = s[i]
             \/ i = n + 1 /\ t[i] = j
             \/ i - 1 \in n + 1 .. Len(s) /\ t[i] = s[i - 1]
  <2>1. CASE i <= n
    BY <1>1, <1>2, <2>1
  <2>2. CASE i > n + 1
    <3>1. i - 1 \in n + 1 .. Len(s) /\ (i - 1) + 1 = i
      BY <1>1, <1>2, <2>2
    <3> QED  BY <1>1, <3>1
  <2>3. CASE i = n + 1
    BY <1>1, <2>3
  <2> QED  BY <1>2, <2>1, <2>2, <2>3
<1>5. ASSUME NEW i \in 1 .. Len(t), NEW k \in 1 .. Len(t), i < k
      PROVE  t[i] # t[k] /\ Priority[t[i]] >= Priority[t[k]]
  <2>0. /\ \A p \in 1 .. n : p \in 1 .. Len(s)
        /\ \A p \in n + 1 .. Len(s) : p \in 1 .. Len(s)
    BY <1>2
  <2>1. CASE i \in 1 .. n /\ t[i] = s[i]
    <3>1. CASE k \in 1 .. n /\ t[k] = s[k]
      BY <1>5, <2>0, <2>1, <3>1 DEF Ordered
    <3>2. CASE k = n + 1 /\ t[k] = j
      BY <2>0, <2>1, <3>2
    <3>3. CASE k - 1 \in n + 1 .. Len(s) /\ t[k] = s[k - 1]
      <4>1. i < k - 1
        BY <1>2, <2>1, <3>3
      <4> QED  BY <2>0, <2>1, <3>3, <4>1 DEF Ordered
    <3> QED  BY <1>4, <3>1, <3>2, <3>3
  <2>2. CASE i = n + 1 /\ t[i] = j
    <3>1. k - 1 \in n + 1 .. Len(s) /\ t[k] = s[k - 1]
      BY <1>2, <1>4, <1>5, <2>2
    <3>2. Priority[s[k - 1]] < Priority[j] /\ Priority[s[k - 1]] \in Nat /\ s[k - 1] # j
      BY <1>3, <2>0, <3>1
    <3> QED  BY <1>3, <2>2, <3>1, <3>2
  <2>3. CASE i - 1 \in n + 1 .. Len(s) /\ t[i] = s[i - 1]
    <3>1. k - 1 \in n + 1 .. Len(s) /\ t[k] = s[k - 1] /\ i - 1 < k - 1
      BY <1>2, <1>4, <1>5, <2>3
    <3> QED  BY <2>0, <2>3, <3>1 DEF Ordered
  <2> QED  BY <1>4, <2>1, <2>2, <2>3
<1>6. Ordered(t)
  BY <1>5 DEF Ordered
<1> QED  BY <1>1, <1>6 DEF t

\* zadd puts a member where its score belongs.
LEMMA ZaddOrdered ==
  ASSUME zset \in Seq(Jobs), Ordered(zset), NEW j \in Jobs, zadd(j)
  PROVE  zset' \in Seq(Jobs) /\ Ordered(zset')
<1> DEFINE s == Without(zset, j)
<1>1. /\ s \in Seq(Jobs) /\ Ordered(s)
      /\ \A i \in 1 .. Len(s) : s[i] # j
  BY WithoutOrdered
<1>2. PICK n \in 0 .. Len(s) :
        /\ \A i \in 1 .. n : Priority[s[i]] >= Priority[j]
        /\ \A i \in n + 1 .. Len(s) : Priority[s[i]] < Priority[j]
        /\ zset' = PutBehind(s, n, j)
  BY DEF zadd, PutBehind
<1> HIDE DEF s
<1>3. PutBehind(s, n, j) \in Seq(Jobs) /\ Ordered(PutBehind(s, n, j))
  BY <1>1, <1>2, PutOrdered
<1> QED  BY <1>2, <1>3

\* What a step does to the sorted set and to what the workers read of it.
ZsetDoes == zset' = zset \/ \E j \in Jobs : zadd(j) \/ zrem(j)
IdsDoes ==
  \/ ids' = ids
  \/ \E w \in Workers :
       \/ ids' = [ids EXCEPT ![w] = <<>>]
       \/ ids[w] # <<>> /\ ids' = [ids EXCEPT ![w] = Tail(ids[w])]
       \/ \E n \in 0 .. Len(zset) : ids' = [ids EXCEPT ![w] = SubSeq(zset, 1, n)]

\* Every step of the Redis backend, and a death in the hybrid one.
LEMMA WindowSteps ==
  ASSUME RedisTypeOK, zset \in Seq(Jobs), RedisPart
  PROVE  ZsetDoes /\ IdsDoes
<1>s. UNCHANGED store => ZsetDoes
  BY DEF store, ZsetDoes
<1>z. UNCHANGED zset => ZsetDoes
  BY DEF ZsetDoes
<1>i. UNCHANGED ids => IdsDoes
  BY DEF IdsDoes
<1>d. ASSUME NEW c, Done(c)  PROVE IdsDoes
  BY <1>d DEF Done, IdsDoes
<1>k. ASSUME NEW c, NEW label, Continue(c, label)  PROVE IdsDoes
  BY <1>i, <1>k DEF Continue
<1>j. \A c \in Clients : pc[c] \notin {"idle", "get"} => cur[c] \in Jobs
  BY DEF RedisTypeOK, ClientsTypeOK
<1>w. Workers \subseteq Clients /\ Callers \subseteq Clients /\ Reapers \subseteq Clients
  BY DEF Clients
<1>r. ASSUME NEW j \in Jobs, zadd(j) \/ zrem(j)  PROVE ZsetDoes
  BY <1>r DEF ZsetDoes
<1>1. ASSUME NEW w \in Workers, WorkerStep(w)  PROVE ZsetDoes /\ IdsDoes
  <2>1. CASE Dequeue(w)
    <3> DEFINE n == IF Len(zset) < Window THEN Len(zset) ELSE Window
    <3>1. n \in 0 .. Len(zset)
      BY LenProperties DEF Window
    <3>2. ids' = [ids EXCEPT ![w] = SubSeq(zset, 1, n)]
      BY <2>1 DEF Dequeue
    <3> HIDE DEF n
    <3>3. IdsDoes
      BY <3>1, <3>2 DEF IdsDoes
    <3> QED  BY <1>s, <2>1, <3>3 DEF Dequeue
  <2>2. ASSUME NEW j \in Jobs, DequeueGet(w, j)  PROVE ZsetDoes /\ IdsDoes
    <3>1. ids' = ids \/ (ids[w] # <<>> /\ ids' = [ids EXCEPT ![w] = Tail(ids[w])])
      BY <2>2 DEF DequeueGet
    <3> QED  BY <1>s, <2>2, <3>1 DEF DequeueGet, IdsDoes
  <2>3. CASE DequeueEmpty(w) \/ ClaimLost(w)
    BY <1>s, <1>d, <2>3 DEF DequeueEmpty, ClaimLost
  <2>4. CASE ClaimWon(w)
    BY <1>i, <1>j, <1>r, <1>w, <2>4 DEF ClaimWon, ClaimLua
  <2>5. CASE ClaimError(w)
    BY <1>s, <1>d, <1>j, <1>r, <1>w, <2>5 DEF ClaimError, ClaimLua
  <2>6. CASE HandlerEnds(w)
    BY <1>s, <1>i, <2>6 DEF HandlerEnds
  <2> QED  BY <1>1, <2>1, <2>2, <2>3, <2>4, <2>5, <2>6 DEF WorkerStep
<1>2. ASSUME NEW c \in Clients, MethodStep(c)  PROVE ZsetDoes /\ IdsDoes
  <2>1. CASE EnqueueZadd(c) \/ UpdateZrem(c) \/ ReleaseZadd(c)
    <3>1. cur[c] \in Jobs /\ (zadd(cur[c]) \/ zrem(cur[c]))
      BY <1>j, <2>1 DEF EnqueueZadd, UpdateZrem, ReleaseZadd
    <3> QED  BY <1>r, <1>d, <1>k, <2>1, <3>1 DEF EnqueueZadd, UpdateZrem, ReleaseZadd
  <2>2. CASE UpdateHset(c) \/ UpdateDelete(c) \/ ReleaseHset(c) \/ ReleaseDelete(c)
    BY <1>z, <1>d, <1>k, <2>2 DEF UpdateHset, UpdateDelete, ReleaseHset, ReleaseDelete
  <2> QED  BY <1>2, <2>1, <2>2 DEF MethodStep
<1>3. ASSUME NEW c \in Callers, CallerStep(c)  PROVE ZsetDoes /\ IdsDoes
  BY <1>3, <1>s, <1>z, <1>i DEF CallerStep, EnqueueHset, CallerCancels, CallerRetries, CallerUpdates
<1>4. ASSUME NEW r \in Reapers, ReaperStep(r)  PROVE ZsetDoes /\ IdsDoes
  BY <1>4, <1>s, <1>i, <1>d, <1>k DEF ReaperStep, ReapExists, ReapStatus
<1>5. ASSUME NEW c \in Clients, Done(c), UNCHANGED store  PROVE ZsetDoes /\ IdsDoes
  BY <1>5, <1>s, <1>d
<1>6. ASSUME NEW j \in Jobs, LeaseExpires(j)  PROVE ZsetDoes /\ IdsDoes
  BY <1>6, <1>z, <1>i DEF LeaseExpires, clients
<1>7. CASE UNCHANGED vars
  BY <1>7, <1>s, <1>i DEF vars, clients
<1> QED
  BY <1>1, <1>2, <1>3, <1>4, <1>5, <1>6, <1>7 DEF RedisPart, Next, Crash

\* The sorted set and the windows read from it are sequences of jobs in order.
WindowInv == /\ zset \in Seq(Jobs)
             /\ ids \in [Workers -> Seq(Jobs)]
             /\ WindowInOrder

\* A window, and what is left of it after its first id, are in order.
LEMMA WindowsOrdered ==
  ASSUME NEW s \in Seq(Jobs), Ordered(s)
  PROVE  /\ \A n \in 0 .. Len(s) : SubSeq(s, 1, n) \in Seq(Jobs) /\ Ordered(SubSeq(s, 1, n))
         /\ s # <<>> => Tail(s) \in Seq(Jobs) /\ Ordered(Tail(s))
         /\ <<>> \in Seq(Jobs) /\ Ordered(<<>>)
<1>0. Len(s) \in Nat
  BY LenProperties
<1>1. ASSUME NEW n \in 0 .. Len(s)  PROVE SubSeq(s, 1, n) \in Seq(Jobs) /\ Ordered(SubSeq(s, 1, n))
  <2> DEFINE t == SubSeq(s, 1, n)
  <2>1. t \in Seq(Jobs) /\ Len(t) = n /\ \A i \in 1 .. n : t[i] = s[i]
    BY Halves
  <2> HIDE DEF t
  <2>2. \A i \in 1 .. n : i \in 1 .. Len(s)
    BY <1>0
  <2>3. Ordered(t)
    BY <2>1, <2>2 DEF Ordered
  <2> QED  BY <2>1, <2>3 DEF t
<1>2. ASSUME s # <<>>  PROVE Tail(s) \in Seq(Jobs) /\ Ordered(Tail(s))
  <2> DEFINE t == Tail(s)
  <2>1. t \in Seq(Jobs) /\ Len(t) = Len(s) - 1 /\ \A i \in 1 .. Len(t) : t[i] = s[i + 1]
    BY <1>2, HeadTailProperties
  <2> HIDE DEF t
  <2>2. ASSUME NEW i \in 1 .. Len(t), NEW k \in 1 .. Len(t), i < k
        PROVE  t[i] # t[k] /\ Priority[t[i]] >= Priority[t[k]]
    <3>1. i + 1 \in 1 .. Len(s) /\ k + 1 \in 1 .. Len(s) /\ i + 1 < k + 1
      BY <1>0, <2>1, <2>2
    <3> QED  BY <2>1, <3>1 DEF Ordered
  <2>3. Ordered(t)
    BY <2>2 DEF Ordered
  <2> QED  BY <2>1, <2>3 DEF t
<1>3. <<>> \in Seq(Jobs) /\ Ordered(<<>>)
  <2>1. <<>> \in Seq(Jobs) /\ Len(<<>>) = 0
    BY EmptySeq
  <2>2. 1 .. 0 = {}
    OBVIOUS
  <2> QED  BY <2>1, <2>2 DEF Ordered
<1> QED  BY <1>1, <1>2, <1>3

\* Every step keeps them so.
LEMMA WindowKept ==
  ASSUME RedisTypeOK, WindowInv, RedisPart
  PROVE  WindowInv'
<1>0. /\ zset \in Seq(Jobs) /\ Ordered(zset)
      /\ ids \in [Workers -> Seq(Jobs)] /\ \A w \in Workers : Ordered(ids[w])
  BY DEF WindowInv, WindowInOrder
<1>1. ZsetDoes /\ IdsDoes
  BY <1>0, WindowSteps
<1>2. zset' \in Seq(Jobs) /\ Ordered(zset')
  BY <1>0, <1>1, ZaddOrdered, WithoutOrdered DEF ZsetDoes, zrem
<1>3. ASSUME NEW w \in Workers, NEW s \in Seq(Jobs), Ordered(s), ids' = [ids EXCEPT ![w] = s]
      PROVE  ids' \in [Workers -> Seq(Jobs)] /\ \A v \in Workers : Ordered(ids'[v])
  BY <1>0, <1>3
<1>4. ids' \in [Workers -> Seq(Jobs)] /\ \A v \in Workers : Ordered(ids'[v])
  <2>1. CASE ids' = ids
    BY <1>0, <2>1
  <2>2. ASSUME NEW w \in Workers, ids' = [ids EXCEPT ![w] = <<>>]
        PROVE  ids' \in [Workers -> Seq(Jobs)] /\ \A v \in Workers : Ordered(ids'[v])
    BY <1>0, <1>3, <2>2, WindowsOrdered
  <2>3. ASSUME NEW w \in Workers, ids[w] # <<>>, ids' = [ids EXCEPT ![w] = Tail(ids[w])]
        PROVE  ids' \in [Workers -> Seq(Jobs)] /\ \A v \in Workers : Ordered(ids'[v])
    <3>1. Tail(ids[w]) \in Seq(Jobs) /\ Ordered(Tail(ids[w]))
      BY <1>0, <2>3, WindowsOrdered
    <3> QED  BY <1>3, <2>3, <3>1
  <2>4. ASSUME NEW w \in Workers, NEW n \in 0 .. Len(zset), ids' = [ids EXCEPT ![w] = SubSeq(zset, 1, n)]
        PROVE  ids' \in [Workers -> Seq(Jobs)] /\ \A v \in Workers : Ordered(ids'[v])
    <3>1. SubSeq(zset, 1, n) \in Seq(Jobs) /\ Ordered(SubSeq(zset, 1, n))
      BY <1>0, WindowsOrdered
    <3> QED  BY <1>3, <2>4, <3>1
  <2> QED  BY <1>1, <2>1, <2>2, <2>3, <2>4 DEF IdsDoes
<1> QED  BY <1>2, <1>4 DEF WindowInv, WindowInOrder

\* They are so at the start.
LEMMA WindowStarts ==
  ASSUME Init
  PROVE  WindowInv
<1>1. <<>> \in Seq(Jobs) /\ Ordered(<<>>)
  <2>1. <<>> \in Seq(Jobs) /\ Len(<<>>) = 0
    BY EmptySeq
  <2>2. 1 .. 0 = {}
    OBVIOUS
  <2> QED  BY <2>1, <2>2 DEF Ordered
<1> QED  BY <1>1 DEF Init, WindowInv, WindowInOrder

\* The keys and the clients' state are well typed throughout, and the sorted
\* set and every window dequeue has read from it name a job once and in the
\* order of priorities: zadd of a member that is there already moves it.
LEMMA RedisWindowInOrder == Spec => [](TypeOK /\ WindowInOrder)
<1>1. Init => RedisTypeOK /\ WindowInv
  <2> SUFFICES ASSUME Init  PROVE RedisTypeOK /\ WindowInv
    OBVIOUS
  <2>1. RedisTypeOK
    BY DEF Init, RedisTypeOK, KeysTypeOK, ClientsTypeOK, PC
  <2> QED  BY <2>1, WindowStarts
<1>2. RedisTypeOK /\ WindowInv /\ [Next]_vars => RedisTypeOK' /\ WindowInv'
  BY RedisNextType, WindowKept DEF RedisPart
<1>3. RedisTypeOK /\ WindowInv => TypeOK /\ WindowInOrder
  BY DEF RedisTypeOK, WindowInv, TypeOK
<1> HIDE DEF RedisTypeOK
<1> QED  BY <1>1, <1>2, <1>3, PTL DEF Spec

\* Both halves of the hybrid backend are well typed, whoever dies between two
\* calls; a client that owes a call owes it for a job.
THEOREM HybridTypeCorrect == HybridSpec => []HybridTypeOK
<1>1. HybridInit => WindowInv
  BY WindowStarts DEF HybridInit
<1>2. HybridInv /\ WindowInv /\ [HybridNext]_allVars => WindowInv'
  <2> SUFFICES ASSUME HybridInv, WindowInv, [HybridNext]_allVars  PROVE WindowInv'
    OBVIOUS
  <2>1. HybridTypes /\ \A c \in Clients : Owed(c)
    BY DEF HybridInv, DurableInv
  <2>2. RedisPart
    BY <2>1, WorkTypes, HybridIsRedis
  <2> QED  BY <2>1, <2>2, WindowKept DEF HybridTypes
<1>3. HybridInv /\ WindowInv => HybridTypeOK
  <2> SUFFICES ASSUME HybridInv, WindowInv  PROVE HybridTypeOK
    OBVIOUS
  <2>1. HybridTypes /\ \A c \in Clients : Owed(c)
    BY DEF HybridInv, DurableInv
  <2>2. \A c \in Clients : due[c].call # "none" => due[c].job \in Jobs
    BY <2>1, WorkTypes
  <2> QED  BY <2>1, <2>2 DEF HybridTypes, RedisTypeOK, WindowInv, HybridTypeOK, TypeOK, Debt
<1> QED  BY <1>1, <1>2, <1>3, HybridStarts, HybridKeeps, PTL DEF HybridSpec
=============================================================================
