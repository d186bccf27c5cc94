-------------------------- MODULE ServiceRegistry --------------------------
(***************************************************************************)
(* ServiceRegistry (broker/registry.py) with a Redis client, in several    *)
(* processes.  Each call first changes the process's own dict under its    *)
(* lock and then awaits its Redis commands; other coroutines and processes *)
(* act at each await.  heartbeat reads the record and writes it back whole.*)
(***************************************************************************)
EXTENDS Naturals

CONSTANTS
  Processes, Services,
  Callers,       \* coroutines; caller c runs in process Home[c]
  Home,
  Timeout,       \* heartbeat_timeout
  MaxNow,        \* bound on the clock
  MaxRecords     \* bound on the registrations of a service

ASSUME RegistryAssumption ==
  Home \in [Callers -> Processes] /\ Timeout \in Nat /\ MaxNow \in Nat /\ MaxRecords \in Nat

VARIABLES
  clock,
  hash,       \* the Redis hash: record number (0: none) and last_heartbeat
  local,      \* _local of each process: record number
  records,    \* how many records of each service were registered
  at, on, data,   \* of each caller: its step, its service, what hget returned
  settled,    \* history: the record the last register or deregister left in
              \* the hash, unless calls on the service overlapped (Open)
  clashing,   \* history: callers whose call overlapped another on the service
  heard       \* history: when the service was last registered or beat

registryVars == <<clock, hash, local, records, at, on, data, settled, clashing, heard>>

Gone == [rec |-> 0, beat |-> 0]
Open == MaxRecords + 1   \* settled when calls overlapped

RegistryTypeOK ==
  /\ clock \in 0..MaxNow
  /\ hash \in [Services -> [rec : 0..MaxRecords, beat : 0..MaxNow]]
  /\ local \in [Processes -> [Services -> 0..MaxRecords]]
  /\ at \in [Callers -> {"idle", "hset", "hdel", "hget", "rewrite"}]
  /\ \A c \in Callers : at[c] = "rewrite" => data[c].rec # 0
  /\ settled \in [Services -> 0..MaxRecords \cup {Open}]

RegistryInit ==
  /\ clock = 0
  /\ hash = [s \in Services |-> Gone]
  /\ local = [p \in Processes |-> [s \in Services |-> 0]]
  /\ records = [s \in Services |-> 0]
  /\ at = [c \in Callers |-> "idle"]
  /\ on = [c \in Callers |-> CHOOSE s \in Services : TRUE]
  /\ data = [c \in Callers |-> Gone]
  /\ settled = [s \in Services |-> 0]
  /\ clashing = {}
  /\ heard = [s \in Services |-> 0]

RegistryClock == /\ clock < MaxNow
                 /\ clock' = clock + 1
                 /\ UNCHANGED <<hash, local, records, at, on, data, settled, clashing, heard>>

Calling(s) == {c \in Callers : at[c] # "idle" /\ on[c] = s}

Starts(c, s, step) ==
  /\ at[c] = "idle"
  /\ at' = [at EXCEPT ![c] = step] /\ on' = [on EXCEPT ![c] = s]
  /\ clashing' = IF Calling(s) = {} THEN clashing ELSE clashing \cup Calling(s) \cup {c}
  /\ settled' = IF Calling(s) = {} THEN settled ELSE [settled EXCEPT ![s] = Open]

Returns(c) == at' = [at EXCEPT ![c] = "idle"] /\ data' = [data EXCEPT ![c] = Gone]
              /\ clashing' = clashing \ {c}
Leaves(c, n) == settled' = IF c \in clashing THEN settled ELSE [settled EXCEPT ![on[c]] = n]
-----------------------------------------------------------------------------
\* register: the record is made by the caller, with its own time.
RegisterLocal(c, s) ==
  /\ records[s] < MaxRecords
  /\ records' = [records EXCEPT ![s] = @ + 1]
  /\ local' = [local EXCEPT ![Home[c]][s] = records[s] + 1]
  /\ data' = [data EXCEPT ![c] = [rec |-> records[s] + 1, beat |-> clock]]
  /\ heard' = [heard EXCEPT ![s] = clock]
  /\ Starts(c, s, "hset")
  /\ UNCHANGED <<clock, hash>>

RegisterHset(c) ==
  /\ at[c] = "hset"
  /\ hash' = [hash EXCEPT ![on[c]] = data[c]]
  /\ Leaves(c, data[c].rec) /\ Returns(c)
  /\ UNCHANGED <<clock, local, records, on, heard>>

DeregisterLocal(c, s) ==
  /\ local' = [local EXCEPT ![Home[c]][s] = 0]
  /\ Starts(c, s, "hdel")
  /\ UNCHANGED <<clock, hash, records, data, heard>>

DeregisterHdel(c) ==
  /\ at[c] = "hdel"
  /\ hash' = [hash EXCEPT ![on[c]] = Gone]
  /\ Leaves(c, 0) /\ Returns(c)
  /\ UNCHANGED <<clock, local, records, on, heard>>

\* heartbeat: the local record (whose time nobody reads here), hget, hset.
HeartbeatLocal(c, s) ==
  /\ Starts(c, s, "hget")
  /\ UNCHANGED <<clock, hash, local, records, data, heard>>

\* heartbeat that stamps and writes whatever hget returned.
HeartbeatUnchecked(c) ==
  /\ at[c] = "hget"
  /\ data' = [data EXCEPT ![c] = [hash[on[c]] EXCEPT !.beat = clock]]
  /\ at' = [at EXCEPT ![c] = "rewrite"]
  /\ UNCHANGED <<clock, hash, local, records, on, settled, clashing, heard>>

HeartbeatHget(c) == LET raw == hash[on[c]] IN
  /\ at[c] = "hget"
  /\ IF raw = Gone
     THEN Returns(c)
     ELSE /\ data' = [data EXCEPT ![c] = [raw EXCEPT !.beat = clock]]
          /\ at' = [at EXCEPT ![c] = "rewrite"]
          /\ UNCHANGED clashing
  /\ heard' = IF raw = Gone THEN heard ELSE [heard EXCEPT ![on[c]] = clock]
  /\ UNCHANGED <<clock, hash, local, records, on, settled>>

\* heartbeat that writes the record this process has registered.
HeartbeatOwnRecord(c) ==
  /\ at[c] = "rewrite"
  /\ hash' = [hash EXCEPT ![on[c]] = [rec |-> local[Home[c]][on[c]], beat |-> data[c].beat]]
  /\ Returns(c)
  /\ UNCHANGED <<clock, local, records, on, settled, heard>>

HeartbeatHset(c) ==
  /\ at[c] = "rewrite"
  /\ hash' = [hash EXCEPT ![on[c]] = data[c]]
  /\ Returns(c)
  /\ UNCHANGED <<clock, local, records, on, settled, heard>>

RegistryNext ==
  \/ \E c \in Callers : \/ RegisterHset(c) \/ DeregisterHdel(c)
                        \/ HeartbeatHget(c) \/ HeartbeatHset(c)
                        \/ \E s \in Services : \/ RegisterLocal(c, s) \/ DeregisterLocal(c, s)
                                               \/ HeartbeatLocal(c, s)
  \/ RegistryClock

RegistrySpec == RegistryInit /\ [][RegistryNext]_registryVars

\* is_alive that forgets the timeout.
IsAliveAlways(r) == r # Gone

\* is_alive, and with it what list_services returns.
IsAlive(r) == r # Gone /\ clock - r.beat < Timeout
-----------------------------------------------------------------------------
\* Properties.

\* When no call on a service is under way, the hash holds the record that the
\* last register left, or none after a deregister: no heartbeat brings an
\* older record or a removed one back, unless calls on the service overlapped.
RecordStands ==
  \A s \in Services : Calling(s) = {} /\ settled[s] # Open => hash[s].rec = settled[s]

\* list_services drops a service that nobody registered and whose heartbeats
\* found no record for the timeout, also one that a late write of a heartbeat
\* has put back.
SilentFade ==
  \A s \in Services : IsAlive(hash[s]) => clock - heard[s] < Timeout
=============================================================================
