---------------------------- MODULE ResourcePool ----------------------------
(***************************************************************************)
(* scheduler/resource_pool.py.  Every method holds the pool's RLock, so    *)
(* acquire and release are one step each.                                  *)
(***************************************************************************)
EXTENDS JobModel

CONSTANT Limit   \* ResourcePoolConfig.limits: pools without an entry are unlimited

ASSUME LimitType == DOMAIN Limit \subseteq Pools /\ \A p \in DOMAIN Limit : Limit[p] \in Nat
ASSUME NoneIsNoEntry == None \notin [Pools -> Nat]

VARIABLES
  used,      \* _used: slots handed out, per pool
  holders,   \* _holders: the slots recorded for a job, None when no entry
  amiss      \* history: what a finally clause cannot make good, see Mishaps

poolVars == <<used, holders, amiss>>

\* The entry of a job was overwritten while its slots were out; a worker left
\* run_once before the try statement; a handler ended in an exception that the
\* except clause does not catch.
Mishaps == {"overwritten", "unhandled", "escaped"}

NoSlots == [p \in Pools |-> 0]

PoolTypeOK == /\ used \in [Pools -> Nat]
              /\ holders \in [Jobs -> [Pools -> Nat] \cup {None}]
              /\ amiss \in SUBSET (Mishaps \X Jobs)

PoolInit == used = NoSlots /\ holders = [j \in Jobs |-> None] /\ amiss = {}

\* can_acquire with an off-by-one: a full pool has one slot left.
CanAcquireAtLimit(res) == \A p \in DOMAIN Limit : res[p] > 0 => used[p] + res[p] <= Limit[p] + 1

\* Every pool the request names has room for it.
can_acquire(res) == \A p \in DOMAIN Limit : res[p] > 0 => used[p] + res[p] <= Limit[p]

\* An empty request is granted without an entry in _holders.
acquire(j, res) ==
  IF res = NoSlots
  THEN UNCHANGED poolVars
  ELSE /\ can_acquire(res)
       /\ used' = [p \in Pools |-> used[p] + res[p]]
       /\ holders' = [holders EXCEPT ![j] = res]
       /\ amiss' = IF holders[j] = None THEN amiss ELSE amiss \cup {<<"overwritten", j>>}

\* release that forgets the holder without giving its slots back.
ReleaseKeepsSlots(j) ==
  /\ holders' = [holders EXCEPT ![j] = None]
  /\ UNCHANGED <<used, amiss>>

\* holders.pop(job_id, {}) and max(0, used - slots) for every pool of the entry.
release(j) ==
  /\ used' = IF holders[j] = None THEN used
             ELSE [p \in Pools |-> IF used[p] > holders[j][p]
                                   THEN used[p] - holders[j][p] ELSE 0]
  /\ holders' = [holders EXCEPT ![j] = None]
  /\ UNCHANGED amiss
=============================================================================
