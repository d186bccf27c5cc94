---------------------------- MODULE BrokerProofs ----------------------------
(***************************************************************************)
(* Proofs about the broker: the service registry, for any number of        *)
(* processes, services and concurrent calls, and the limiters, for any     *)
(* number of threads, tenants and resources.                               *)
(***************************************************************************)
EXTENDS Broker, FiniteSetTheorems, WellFoundedInduction, TLAPS

-----------------------------------------------------------------------------
(* The service registry: the inductive invariants.                         *)

Rec == [rec : 0..MaxRecords, beat : 0..MaxNow]
Steps == {"idle", "hset", "hdel", "hget", "rewrite"}

\* A caller that has not called yet names no particular service.
Named == Services \cup {CHOOSE s \in Services : TRUE}

RegistryTypes ==
  /\ clock \in 0..MaxNow
  /\ hash \in [Services -> Rec]
  /\ local \in [Processes -> [Services -> 0..MaxRecords]]
  /\ records \in [Services -> 0..MaxRecords]
  /\ at \in [Callers -> Steps]
  /\ on \in [Callers -> Named] /\ \A c \in Callers : at[c] # "idle" => on[c] \in Services
  /\ data \in [Callers -> Rec]
  /\ settled \in [Services -> 0..MaxRecords \cup {Open}]
  /\ clashing \subseteq Callers
  /\ heard \in [Services -> 0..MaxNow]

\* What makes SilentFade inductive: what the hash holds, and what a call is
\* about to write, was beaten no later than the service was last heard of.
HeardAt(c) == at[c] \in {"hset", "rewrite"} => data[c].beat <= heard[on[c]]
HeardInv ==
  /\ \A s \in Services : hash[s].beat <= heard[s] /\ heard[s] <= clock
  /\ \A c \in Callers : HeardAt(c)

\* What makes RecordStands inductive: a call that clashes with none is alone
\* on its service and has read what the hash still holds; while calls clash
\* nothing is settled.
SettledAt(c) ==
  /\ at[c] = "idle" => c \notin clashing
  /\ at[c] # "idle" /\ c \notin clashing => \A d \in Callers \ {c} : at[d] # "idle" => on[d] # on[c]
  /\ at[c] # "idle" /\ c \in clashing => settled[on[c]] = Open
  /\ at[c] = "rewrite" /\ c \notin clashing => data[c].rec = hash[on[c]].rec
SettledInv ==
  /\ \A s \in Services : settled[s] # Open => hash[s].rec = settled[s]
  /\ \A c \in Callers : SettledAt(c)

-----------------------------------------------------------------------------
(* The service registry: types.                                            *)

\* The constants, and the record that stands for none.
LEMMA RegistryConstants ==
  /\ MaxNow \in Nat /\ MaxRecords \in Nat /\ Timeout \in Nat /\ Home \in [Callers -> Processes]
  /\ Gone \in Rec /\ Gone.rec = 0 /\ Gone.beat = 0
BY RegistryAssumption DEF Gone, Rec

\* The fields of what the hash and the callers hold.
LEMMA RecFields ==
  ASSUME RegistryTypes
  PROVE  /\ \A s \in Services : hash[s] \in Rec /\ hash[s].rec \in 0..MaxRecords /\ hash[s].beat \in 0..MaxNow
         /\ \A c \in Callers : data[c] \in Rec /\ data[c].rec \in 0..MaxRecords /\ data[c].beat \in 0..MaxNow
BY DEF RegistryTypes, Rec

\* A call begins.
LEMMA StartsTypes ==
  ASSUME RegistryTypes, NEW c \in Callers, NEW s \in Services, NEW p \in Steps, Starts(c, s, p)
  PROVE  /\ at' \in [Callers -> Steps] /\ on' \in [Callers -> Named]
         /\ \A d \in Callers : at'[d] # "idle" => on'[d] \in Services
         /\ settled' \in [Services -> 0..MaxRecords \cup {Open}] /\ clashing' \subseteq Callers
<1> USE DEF RegistryTypes, Starts
<1>1. at' \in [Callers -> Steps] /\ on' \in [Callers -> Named]
  BY DEF Named
<1>2. \A d \in Callers : at'[d] # "idle" => on'[d] \in Services
  OBVIOUS
<1>3. settled' \in [Services -> 0..MaxRecords \cup {Open}]
  OBVIOUS
<1>4. clashing' \subseteq Callers
  BY DEF Calling
<1> QED  BY <1>1, <1>2, <1>3, <1>4

\* A call returns, and a register or deregister leaves its record.
LEMMA ReturnsTypes ==
  ASSUME RegistryTypes, NEW c \in Callers, Returns(c), UNCHANGED on
  PROVE  /\ at' \in [Callers -> Steps] /\ data' \in [Callers -> Rec]
         /\ on' \in [Callers -> Named] /\ (\A d \in Callers : at'[d] # "idle" => on'[d] \in Services)
         /\ clashing' \subseteq Callers
         /\ \A n \in 0..MaxRecords : Leaves(c, n) => settled' \in [Services -> 0..MaxRecords \cup {Open}]
BY RegistryConstants DEF RegistryTypes, Returns, Leaves, Steps

\* Every step of the registry keeps the types.
LEMMA RegistryStepType ==
  ASSUME RegistryTypes, [RegistryNext]_registryVars
  PROVE  RegistryTypes'
<1> USE RegistryConstants
<1>t. /\ clock \in 0..MaxNow /\ hash \in [Services -> Rec] /\ records \in [Services -> 0..MaxRecords]
      /\ local \in [Processes -> [Services -> 0..MaxRecords]] /\ data \in [Callers -> Rec]
      /\ heard \in [Services -> 0..MaxNow] /\ \A c \in Callers : at[c] # "idle" => on[c] \in Services
  BY DEF RegistryTypes
<1>1. ASSUME NEW c \in Callers, NEW s \in Services, RegisterLocal(c, s)  PROVE RegistryTypes'
  <2>1. records[s] + 1 \in 0..MaxRecords
    BY <1>1, <1>t DEF RegisterLocal
  <2>2. records' \in [Services -> 0..MaxRecords]
    BY <1>1, <1>t, <2>1 DEF RegisterLocal
  <2>3. local' \in [Processes -> [Services -> 0..MaxRecords]]
    BY <1>1, <1>t, <2>1 DEF RegisterLocal
  <2>4. [rec |-> records[s] + 1, beat |-> clock] \in Rec
    BY <1>t, <2>1 DEF Rec
  <2>5. data' \in [Callers -> Rec]
    BY <1>1, <1>t, <2>4 DEF RegisterLocal
  <2>6. heard' \in [Services -> 0..MaxNow]
    BY <1>1, <1>t DEF RegisterLocal
  <2>7. Starts(c, s, "hset") /\ clock' = clock /\ hash' = hash
    BY <1>1 DEF RegisterLocal
  <2> QED  BY <1>t, <2>2, <2>3, <2>5, <2>6, <2>7, StartsTypes DEF RegistryTypes, Steps
<1>2. ASSUME NEW c \in Callers, RegisterHset(c)  PROVE RegistryTypes'
  <2>1. hash' \in [Services -> Rec]
    BY <1>2, <1>t DEF RegisterHset
  <2>2. Leaves(c, data[c].rec) /\ Returns(c) /\ data[c].rec \in 0..MaxRecords
    BY <1>2, RecFields DEF RegisterHset
  <2> QED  BY <1>2, <1>t, <2>1, <2>2, ReturnsTypes DEF RegistryTypes, RegisterHset
<1>3. ASSUME NEW c \in Callers, NEW s \in Services, DeregisterLocal(c, s)  PROVE RegistryTypes'
  <2>1. local' \in [Processes -> [Services -> 0..MaxRecords]]
    BY <1>3, <1>t DEF DeregisterLocal
  <2>2. Starts(c, s, "hdel")
    BY <1>3 DEF DeregisterLocal
  <2> QED  BY <1>3, <1>t, <2>1, <2>2, StartsTypes DEF RegistryTypes, DeregisterLocal, Steps
<1>4. ASSUME NEW c \in Callers, DeregisterHdel(c)  PROVE RegistryTypes'
  <2>1. hash' \in [Services -> Rec]
    BY <1>4, <1>t DEF DeregisterHdel
  <2>2. Leaves(c, 0) /\ Returns(c)
    BY <1>4 DEF DeregisterHdel
  <2> QED  BY <1>4, <1>t, <2>1, <2>2, ReturnsTypes DEF RegistryTypes, DeregisterHdel
<1>5. ASSUME NEW c \in Callers, NEW s \in Services, HeartbeatLocal(c, s)  PROVE RegistryTypes'
  <2>1. Starts(c, s, "hget")
    BY <1>5 DEF HeartbeatLocal
  <2> QED  BY <1>5, <1>t, <2>1, StartsTypes DEF RegistryTypes, HeartbeatLocal, Steps
<1>6. ASSUME NEW c \in Callers, HeartbeatHget(c)  PROVE RegistryTypes'
  <2>1. on[c] \in Services /\ heard' \in [Services -> 0..MaxNow]
    BY <1>6, <1>t DEF HeartbeatHget
  <2>2. CASE Returns(c)
    BY <1>6, <1>t, <2>1, <2>2, ReturnsTypes DEF RegistryTypes, HeartbeatHget
  <2>3. CASE ~Returns(c)
    <3>1. [hash[on[c]] EXCEPT !.beat = clock] \in Rec
      BY <1>t, <2>1 DEF Rec
    <3>2. data' \in [Callers -> Rec]
      BY <1>6, <1>t, <2>3, <3>1 DEF HeartbeatHget
    <3>3. at' \in [Callers -> Steps] /\ \A d \in Callers : at'[d] # "idle" => on'[d] \in Services
      BY <1>6, <2>1, <2>3 DEF HeartbeatHget, RegistryTypes, Steps
    <3> QED  BY <1>6, <1>t, <2>1, <2>3, <3>2, <3>3 DEF RegistryTypes, HeartbeatHget
  <2> QED  BY <2>2, <2>3
<1>7. ASSUME NEW c \in Callers, HeartbeatHset(c)  PROVE RegistryTypes'
  <2>1. hash' \in [Services -> Rec]
    BY <1>7, <1>t DEF HeartbeatHset
  <2> QED  BY <1>7, <1>t, <2>1, ReturnsTypes DEF RegistryTypes, HeartbeatHset
<1>8. CASE RegistryClock
  BY <1>8 DEF RegistryClock, RegistryTypes
<1>9. CASE UNCHANGED registryVars
  BY <1>9 DEF registryVars, RegistryTypes
<1> QED
  BY <1>1, <1>2, <1>3, <1>4, <1>5, <1>6, <1>7, <1>8, <1>9 DEF RegistryNext

-----------------------------------------------------------------------------
(* The service registry: what a step does.                                 *)

\* Every other call, and every other service, is as before.
CallFrame(c) == \A d \in Callers \ {c} : at'[d] = at[d] /\ on'[d] = on[d] /\ data'[d] = data[d]
HashFrame(s) == \A k \in Services \ {s} : hash'[k] = hash[k]

\* How a call begins: Local stands for the step of any of the three.
LocalDoes(c, s) ==
  /\ CallFrame(c) /\ at[c] = "idle" /\ on'[c] = s /\ hash' = hash /\ clock' = clock
  /\ clashing' = IF Calling(s) = {} THEN clashing ELSE clashing \cup Calling(s) \cup {c}
  /\ \A k \in Services \ {s} : settled'[k] = settled[k]
  /\ settled'[s] = IF Calling(s) = {} THEN settled[s] ELSE Open
  /\ \/ at'[c] = "hset" /\ data'[c].beat = clock /\ heard' = [heard EXCEPT ![s] = clock]
     \/ at'[c] \in {"hget", "hdel"} /\ heard' = heard

\* It begins so.
LEMMA LocalSteps ==
  ASSUME RegistryTypes, NEW c \in Callers, NEW s \in Services,
         RegisterLocal(c, s) \/ DeregisterLocal(c, s) \/ HeartbeatLocal(c, s)
  PROVE  LocalDoes(c, s)
<1>1. ASSUME NEW p, Starts(c, s, p)
      PROVE  /\ \A d \in Callers \ {c} : at'[d] = at[d] /\ on'[d] = on[d]
             /\ at[c] = "idle" /\ at'[c] = p /\ on'[c] = s
             /\ clashing' = IF Calling(s) = {} THEN clashing ELSE clashing \cup Calling(s) \cup {c}
             /\ \A k \in Services \ {s} : settled'[k] = settled[k]
             /\ settled'[s] = IF Calling(s) = {} THEN settled[s] ELSE Open
  BY <1>1 DEF Starts, RegistryTypes
<1>2. CASE RegisterLocal(c, s)
  <2>1. /\ \A d \in Callers \ {c} : data'[d] = data[d]
        /\ data'[c] = [rec |-> records[s] + 1, beat |-> clock]
        /\ heard' = [heard EXCEPT ![s] = clock] /\ hash' = hash /\ clock' = clock
        /\ Starts(c, s, "hset")
    BY <1>2 DEF RegisterLocal, RegistryTypes
  <2>2. data'[c].beat = clock
    BY <2>1
  <2> QED  BY <1>1, <2>1, <2>2 DEF LocalDoes, CallFrame
<1>3. CASE DeregisterLocal(c, s)
  BY <1>1, <1>3 DEF DeregisterLocal, LocalDoes, CallFrame
<1>4. CASE HeartbeatLocal(c, s)
  BY <1>1, <1>4 DEF HeartbeatLocal, LocalDoes, CallFrame
<1> QED  BY <1>2, <1>3, <1>4

\* How a call ends: with a record of its own, or with one it read.
WriteDoes(c, s, r) ==
  /\ CallFrame(c) /\ at'[c] = "idle" /\ clashing' = clashing \ {c}
  /\ HashFrame(s) /\ hash'[s] = r /\ heard' = heard /\ clock' = clock
  /\ \A k \in Services \ {s} : settled'[k] = settled[k]

\* It ends so.
LEMMA WriteSteps ==
  ASSUME RegistryTypes, NEW c \in Callers, NEW s, s = on[c]
  PROVE  /\ RegisterHset(c) =>
              /\ s \in Services /\ WriteDoes(c, s, data[c]) /\ at[c] = "hset"
              /\ settled'[s] = IF c \in clashing THEN settled[s] ELSE data[c].rec
         /\ DeregisterHdel(c) =>
              /\ s \in Services /\ WriteDoes(c, s, Gone) /\ at[c] = "hdel"
              /\ settled'[s] = IF c \in clashing THEN settled[s] ELSE 0
         /\ HeartbeatHset(c) =>
              /\ s \in Services /\ WriteDoes(c, s, data[c]) /\ at[c] = "rewrite"
              /\ settled'[s] = settled[s]
<1>1. ASSUME Returns(c), UNCHANGED on  PROVE CallFrame(c) /\ at'[c] = "idle" /\ clashing' = clashing \ {c}
  BY <1>1 DEF Returns, CallFrame, RegistryTypes
<1>2. ASSUME NEW r, s \in Services, hash' = [hash EXCEPT ![s] = r]  PROVE HashFrame(s) /\ hash'[s] = r
  BY <1>2 DEF HashFrame, RegistryTypes
<1>3. ASSUME NEW n, s \in Services, Leaves(c, n)
      PROVE  /\ \A k \in Services \ {s} : settled'[k] = settled[k]
             /\ settled'[s] = IF c \in clashing THEN settled[s] ELSE n
  BY <1>3 DEF Leaves, RegistryTypes
<1>4. at[c] # "idle" => s \in Services
  BY DEF RegistryTypes
<1>5. ASSUME RegisterHset(c)
      PROVE  /\ s \in Services /\ WriteDoes(c, s, data[c]) /\ at[c] = "hset"
             /\ settled'[s] = IF c \in clashing THEN settled[s] ELSE data[c].rec
  BY <1>1, <1>2, <1>3, <1>4, <1>5 DEF RegisterHset, WriteDoes
<1>6. ASSUME DeregisterHdel(c)
      PROVE  /\ s \in Services /\ WriteDoes(c, s, Gone) /\ at[c] = "hdel"
             /\ settled'[s] = IF c \in clashing THEN settled[s] ELSE 0
  BY <1>1, <1>2, <1>3, <1>4, <1>6 DEF DeregisterHdel, WriteDoes
<1>7. ASSUME HeartbeatHset(c)
      PROVE  /\ s \in Services /\ WriteDoes(c, s, data[c]) /\ at[c] = "rewrite"
             /\ settled'[s] = settled[s]
  BY <1>1, <1>2, <1>4, <1>7 DEF HeartbeatHset, WriteDoes
<1> QED  BY <1>5, <1>6, <1>7

\* How a heartbeat reads: it ends without a record, or stamps the one it found.
LEMMA HgetDoes ==
  ASSUME RegistryTypes, NEW c \in Callers, NEW s, s = on[c], HeartbeatHget(c)
  PROVE  /\ s \in Services /\ CallFrame(c) /\ at[c] = "hget" /\ hash' = hash /\ settled' = settled /\ clock' = clock
         /\ on'[c] = on[c]
         /\ \/ at'[c] = "idle" /\ clashing' = clashing \ {c} /\ heard' = heard
            \/ /\ at'[c] = "rewrite" /\ clashing' = clashing
               /\ data'[c].rec = hash[s].rec /\ data'[c].beat = clock
               /\ heard' = [heard EXCEPT ![s] = clock]
<1>1. at[c] = "hget" /\ s \in Services
  BY DEF HeartbeatHget, RegistryTypes
<1>2. hash' = hash /\ settled' = settled /\ clock' = clock /\ on'[c] = on[c]
  BY DEF HeartbeatHget
<1>3. CASE hash[s] = Gone
  <2>1. Returns(c) /\ heard' = heard /\ on' = on
    BY <1>3 DEF HeartbeatHget
  <2>2. CallFrame(c) /\ at'[c] = "idle" /\ clashing' = clashing \ {c}
    BY <2>1 DEF Returns, CallFrame, RegistryTypes
  <2> QED  BY <1>1, <1>2, <2>1, <2>2
<1>4. CASE hash[s] # Gone
  <2>1. /\ data' = [data EXCEPT ![c] = [hash[s] EXCEPT !.beat = clock]]
        /\ at' = [at EXCEPT ![c] = "rewrite"] /\ clashing' = clashing /\ on' = on
        /\ heard' = [heard EXCEPT ![s] = clock]
    BY <1>4 DEF HeartbeatHget
  <2>2. CallFrame(c) /\ at'[c] = "rewrite" /\ data'[c] = [hash[s] EXCEPT !.beat = clock]
    BY <2>1 DEF CallFrame, RegistryTypes
  <2>3. data'[c].rec = hash[s].rec /\ data'[c].beat = clock
    BY <1>1, <2>2, RecFields DEF Rec
  <2> QED  BY <1>1, <1>2, <2>1, <2>2, <2>3
<1> QED  BY <1>3, <1>4

-----------------------------------------------------------------------------
(* The service registry: a silent service fades.                           *)

\* Time of hearing only moves forward: a step that hears of one service, or of
\* none, and leaves its own call and its own service in order.
LEMMA HeardAtStep ==
  ASSUME RegistryTypes, HeardInv, NEW c \in Callers, CallFrame(c), clock' = clock,
         heard' = heard \/ \E s \in Services : heard' = [heard EXCEPT ![s] = clock],
         HeardAt(c)', \A s \in Services : hash'[s].beat <= heard'[s]
  PROVE  HeardInv'
<1>1. \A s \in Services : /\ heard[s] \in Nat /\ heard'[s] \in Nat /\ heard[s] <= heard'[s]
                          /\ heard'[s] <= clock'
  <2>1. \A s \in Services : heard[s] \in Nat /\ heard[s] <= clock
    BY RegistryConstants DEF RegistryTypes, HeardInv
  <2>2. clock \in Nat
    BY RegistryConstants DEF RegistryTypes
  <2>3. CASE heard' = heard
    BY <2>1, <2>2, <2>3
  <2>4. ASSUME NEW k \in Services, heard' = [heard EXCEPT ![k] = clock]
        PROVE  \A s \in Services : heard'[s] = IF s = k THEN clock ELSE heard[s]
    BY <2>4 DEF RegistryTypes
  <2> QED  BY <2>1, <2>2, <2>3, <2>4
<1>2. ASSUME NEW d \in Callers, d # c, at'[d] \in {"hset", "rewrite"}
      PROVE  data'[d].beat <= heard'[on'[d]]
  <2>1. at'[d] = at[d] /\ on'[d] = on[d] /\ data'[d] = data[d] /\ on[d] \in Services
    BY <1>2 DEF CallFrame, RegistryTypes
  <2>2. data[d].beat <= heard[on[d]] /\ data[d].beat \in Nat
    BY <1>2, <2>1, RecFields, RegistryConstants DEF HeardInv, HeardAt
  <2> QED  BY <1>1, <2>1, <2>2
<1> QED  BY <1>1, <1>2 DEF HeardInv, HeardAt

\* Every step keeps the times in order.
LEMMA HeardSteps ==
  ASSUME RegistryTypes, HeardInv, [RegistryNext]_registryVars
  PROVE  HeardInv'
<1>t. /\ clock \in Nat /\ heard \in [Services -> 0..MaxNow]
      /\ \A s \in Services : hash[s].beat \in Nat /\ hash[s].beat <= heard[s] /\ heard[s] \in Nat /\ heard[s] <= clock
  BY RegistryConstants, RecFields DEF RegistryTypes, HeardInv
<1>1. ASSUME NEW c \in Callers, NEW s \in Services, LocalDoes(c, s)  PROVE HeardInv'
  <2>1. /\ CallFrame(c) /\ on'[c] = s /\ hash' = hash /\ clock' = clock
        /\ \/ at'[c] = "hset" /\ data'[c].beat = clock /\ heard' = [heard EXCEPT ![s] = clock]
           \/ at'[c] \in {"hget", "hdel"} /\ heard' = heard
    BY <1>1 DEF LocalDoes
  <2>2. HeardAt(c)'
    BY <1>t, <2>1 DEF HeardAt
  <2>3. \A k \in Services : hash'[k].beat <= heard'[k]
    BY <1>t, <2>1
  <2> QED  BY <2>1, <2>2, <2>3, HeardAtStep
<1>2. ASSUME NEW c \in Callers, NEW s \in Services, NEW r, WriteDoes(c, s, r), r.beat <= heard[s]
      PROVE  HeardInv'
  <2>1. HeardAt(c)'
    BY <1>2 DEF WriteDoes, HeardAt
  <2>2. \A k \in Services : hash'[k].beat <= heard'[k]
    BY <1>t, <1>2 DEF WriteDoes, HashFrame
  <2> QED  BY <1>2, <2>1, <2>2, HeardAtStep DEF WriteDoes
<1>3. ASSUME NEW c \in Callers, RegisterHset(c) \/ HeartbeatHset(c)  PROVE HeardInv'
  <2>1. on[c] \in Services /\ WriteDoes(c, on[c], data[c]) /\ at[c] \in {"hset", "rewrite"}
    BY <1>3, WriteSteps
  <2>2. data[c].beat <= heard[on[c]]
    BY <2>1 DEF HeardInv, HeardAt
  <2> QED  BY <1>2, <2>1, <2>2
<1>4. ASSUME NEW c \in Callers, DeregisterHdel(c)  PROVE HeardInv'
  <2>1. on[c] \in Services /\ WriteDoes(c, on[c], Gone)
    BY <1>4, WriteSteps
  <2>2. Gone.beat <= heard[on[c]]
    BY <1>t, <2>1, RegistryConstants
  <2> QED  BY <1>2, <2>1, <2>2
<1>5. ASSUME NEW c \in Callers, HeartbeatHget(c)  PROVE HeardInv'
  <2> DEFINE s == on[c]
  <2>1. /\ s \in Services /\ CallFrame(c) /\ hash' = hash /\ clock' = clock /\ on'[c] = s
        /\ \/ at'[c] = "idle" /\ heard' = heard
           \/ at'[c] = "rewrite" /\ data'[c].beat = clock /\ heard' = [heard EXCEPT ![s] = clock]
    BY <1>5, HgetDoes
  <2> HIDE DEF s
  <2>2. HeardAt(c)'
    BY <1>t, <2>1 DEF HeardAt
  <2>3. \A k \in Services : hash'[k].beat <= heard'[k]
    BY <1>t, <2>1
  <2> QED  BY <2>1, <2>2, <2>3, HeardAtStep
<1>6. CASE RegistryClock
  BY <1>t, <1>6 DEF RegistryClock, HeardInv, HeardAt
<1>7. CASE UNCHANGED registryVars
  BY <1>7 DEF registryVars, HeardInv, HeardAt
<1> QED
  BY <1>1, <1>3, <1>4, <1>5, <1>6, <1>7, LocalSteps DEF RegistryNext

-----------------------------------------------------------------------------
(* The service registry: the last record stands.                           *)

\* A call begins: it is alone on its service, or everybody there clashes.
LEMMA SettledStart ==
  ASSUME RegistryTypes, SettledInv, NEW c \in Callers, NEW s \in Services, LocalDoes(c, s)
  PROVE  SettledInv'
<1>0. /\ CallFrame(c) /\ at[c] = "idle" /\ on'[c] = s /\ hash' = hash
      /\ clashing' = IF Calling(s) = {} THEN clashing ELSE clashing \cup Calling(s) \cup {c}
      /\ \A k \in Services \ {s} : settled'[k] = settled[k]
      /\ settled'[s] = IF Calling(s) = {} THEN settled[s] ELSE Open
      /\ at'[c] \in {"hset", "hget", "hdel"}
  BY DEF LocalDoes
<1>c. \A d \in Callers : SettledAt(d)
  BY DEF SettledInv
<1>1. \A k \in Services : settled'[k] # Open => hash'[k].rec = settled'[k]
  BY <1>0 DEF SettledInv
<1>2. SettledAt(c)'
  <2>1. c \notin clashing
    BY <1>0, <1>c DEF SettledAt
  <2>2. c \notin clashing' => \A d \in Callers \ {c} : at'[d] # "idle" => on'[d] # on'[c]
    BY <1>0 DEF CallFrame, Calling
  <2>3. c \in clashing' => settled'[on'[c]] = Open
    BY <1>0, <2>1
  <2> QED  BY <1>0, <2>2, <2>3 DEF SettledAt
<1>3. ASSUME NEW d \in Callers, d # c  PROVE SettledAt(d)'
  <2>1. at'[d] = at[d] /\ on'[d] = on[d] /\ data'[d] = data[d] /\ (at[d] # "idle" => on[d] \in Services)
    BY <1>0, <1>3 DEF CallFrame, RegistryTypes
  <2>2. SettledAt(d)
    BY <1>c
  <2>3. CASE at[d] = "idle"
    <3>1. d \notin clashing'
      BY <1>0, <1>3, <2>2, <2>3 DEF SettledAt, Calling
    <3> QED  BY <2>1, <2>3, <3>1 DEF SettledAt
  <2>4. CASE at[d] # "idle" /\ on[d] = s
    <3>1. d \in clashing' /\ settled'[s] = Open
      BY <1>0, <2>4 DEF Calling
    <3> QED  BY <2>1, <2>4, <3>1 DEF SettledAt
  <2>5. CASE at[d] # "idle" /\ on[d] # s
    <3>1. d \in clashing' <=> d \in clashing
      BY <1>0, <1>3, <2>5 DEF Calling
    <3>2. settled'[on[d]] = settled[on[d]]
      BY <1>0, <2>1, <2>5
    <3>3. d \notin clashing => \A e \in Callers \ {d} : at'[e] # "idle" => on'[e] # on[d]
      BY <1>0, <2>2, <2>5 DEF SettledAt, CallFrame
    <3> QED  BY <1>0, <2>1, <2>2, <2>5, <3>1, <3>2, <3>3 DEF SettledAt
  <2> QED  BY <2>3, <2>4, <2>5
<1> QED  BY <1>1, <1>2, <1>3 DEF SettledInv

\* A call ends: what it leaves is settled, or nothing is.
LEMMA SettledEnd ==
  ASSUME RegistryTypes, SettledInv, NEW c \in Callers, NEW s \in Services, s = on[c], at[c] # "idle",
         NEW r, WriteDoes(c, s, r),
         IF c \in clashing THEN settled'[s] = settled[s] ELSE settled'[s] # Open => settled'[s] = r.rec
  PROVE  SettledInv'
<1>0. /\ CallFrame(c) /\ at'[c] = "idle" /\ clashing' = clashing \ {c}
      /\ HashFrame(s) /\ hash'[s] = r /\ \A k \in Services \ {s} : settled'[k] = settled[k]
  BY DEF WriteDoes
<1>c. \A d \in Callers : SettledAt(d)
  BY DEF SettledInv
<1>1. c \in clashing => settled[s] = Open
  BY <1>c DEF SettledAt
<1>2. \A k \in Services : settled'[k] # Open => hash'[k].rec = settled'[k]
  BY <1>0, <1>1 DEF SettledInv, HashFrame
<1>3. SettledAt(c)'
  BY <1>0 DEF SettledAt
<1>4. ASSUME NEW d \in Callers, d # c  PROVE SettledAt(d)'
  <2>1. at'[d] = at[d] /\ on'[d] = on[d] /\ data'[d] = data[d] /\ (at[d] # "idle" => on[d] \in Services)
        /\ (d \in clashing' <=> d \in clashing)
    BY <1>0, <1>4 DEF CallFrame, RegistryTypes
  <2>2. SettledAt(d)
    BY <1>c
  <2>3. CASE at[d] = "idle"
    BY <2>1, <2>2, <2>3 DEF SettledAt
  <2>4. CASE at[d] # "idle"
    <3>1. d \notin clashing => \A e \in Callers \ {d} : at'[e] # "idle" => on'[e] # on[d]
      BY <1>0, <2>2, <2>4 DEF SettledAt, CallFrame
    <3>2. d \in clashing => settled'[on[d]] = Open
      <4>1. ASSUME d \in clashing, on[d] = s  PROVE c \in clashing
        BY <1>4, <1>c, <2>4, <4>1 DEF SettledAt
      <4> QED  BY <1>0, <2>1, <2>2, <2>4, <4>1 DEF SettledAt
    <3>3. d \notin clashing => hash'[on[d]] = hash[on[d]]
      BY <1>0, <1>4, <2>1, <2>2, <2>4 DEF SettledAt, HashFrame
    <3> QED  BY <2>1, <2>2, <2>4, <3>1, <3>2, <3>3 DEF SettledAt
  <2> QED  BY <2>3, <2>4
<1> QED  BY <1>2, <1>3, <1>4 DEF SettledInv

\* Every step keeps what is settled.
LEMMA SettledSteps ==
  ASSUME RegistryTypes, SettledInv, [RegistryNext]_registryVars
  PROVE  SettledInv'
<1>c. \A d \in Callers : SettledAt(d)
  BY DEF SettledInv
<1>1. ASSUME NEW c \in Callers, RegisterHset(c)  PROVE SettledInv'
  <2> DEFINE s == on[c]
  <2>1. /\ s \in Services /\ WriteDoes(c, s, data[c]) /\ at[c] = "hset"
        /\ settled'[s] = IF c \in clashing THEN settled[s] ELSE data[c].rec
    BY <1>1, WriteSteps
  <2> QED  BY <2>1, SettledEnd
<1>2. ASSUME NEW c \in Callers, DeregisterHdel(c)  PROVE SettledInv'
  <2> DEFINE s == on[c]
  <2>1. /\ s \in Services /\ WriteDoes(c, s, Gone) /\ at[c] = "hdel" /\ Gone.rec = 0
        /\ settled'[s] = IF c \in clashing THEN settled[s] ELSE 0
    BY <1>2, WriteSteps, RegistryConstants
  <2> QED  BY <2>1, SettledEnd
<1>3. ASSUME NEW c \in Callers, HeartbeatHset(c)  PROVE SettledInv'
  <2> DEFINE s == on[c]
  <2>1. s \in Services /\ WriteDoes(c, s, data[c]) /\ at[c] = "rewrite" /\ settled'[s] = settled[s]
    BY <1>3, WriteSteps
  <2>2. c \notin clashing /\ settled[s] # Open => settled[s] = data[c].rec
    BY <1>c, <2>1 DEF SettledAt, SettledInv
  <2> QED  BY <2>1, <2>2, SettledEnd
<1>4. ASSUME NEW c \in Callers, HeartbeatHget(c)  PROVE SettledInv'
  <2>1. /\ CallFrame(c) /\ at[c] = "hget" /\ hash' = hash /\ settled' = settled /\ on'[c] = on[c]
        /\ \/ at'[c] = "idle" /\ clashing' = clashing \ {c}
           \/ at'[c] = "rewrite" /\ clashing' = clashing /\ data'[c].rec = hash[on[c]].rec
    BY <1>4, HgetDoes
  <2>2. SettledAt(c)'
    BY <1>c, <2>1 DEF SettledAt, CallFrame
  <2>3. ASSUME NEW d \in Callers, d # c  PROVE SettledAt(d)'
    <3>1. /\ at'[d] = at[d] /\ on'[d] = on[d] /\ data'[d] = data[d]
          /\ (d \in clashing' <=> d \in clashing) /\ SettledAt(d)
      BY <1>c, <2>1, <2>3 DEF CallFrame
    <3>2. at[d] # "idle" /\ d \notin clashing => \A e \in Callers \ {d} : at'[e] # "idle" => on'[e] # on[d]
      BY <2>1, <3>1 DEF SettledAt, CallFrame
    <3> QED  BY <2>1, <3>1, <3>2 DEF SettledAt
  <2> QED  BY <2>1, <2>2, <2>3 DEF SettledInv
<1>5. CASE RegistryClock
  BY <1>5 DEF RegistryClock, SettledInv, SettledAt
<1>6. CASE UNCHANGED registryVars
  BY <1>6 DEF registryVars, SettledInv, SettledAt
<1> QED
  BY <1>1, <1>2, <1>3, <1>4, <1>5, <1>6, LocalSteps, SettledStart DEF RegistryNext

-----------------------------------------------------------------------------
(* The service registry: the theorems.                                     *)

RegistryInv == RegistryTypes /\ HeardInv /\ SettledInv

\* It holds at the start.
LEMMA RegistryStarts == RegistryInit => RegistryInv
<1> SUFFICES ASSUME RegistryInit  PROVE RegistryInv
  OBVIOUS
<1> USE RegistryConstants
<1>1. RegistryTypes
  BY DEF RegistryInit, RegistryTypes, Named, Steps
<1>2. HeardInv
  BY DEF RegistryInit, HeardInv, HeardAt
<1>3. SettledInv
  BY DEF RegistryInit, SettledInv, SettledAt
<1> QED  BY <1>1, <1>2, <1>3 DEF RegistryInv

\* Every step keeps it.
LEMMA RegistryKeeps == RegistryInv /\ [RegistryNext]_registryVars => RegistryInv'
BY RegistryStepType, HeardSteps, SettledSteps DEF RegistryInv

\* When no call on a service is under way the hash holds what the last
\* register or deregister left: no heartbeat's read and write brings an older
\* or a removed record back, unless calls on the service overlapped.
THEOREM LastRecordStands == RegistrySpec => []RecordStands
<1>1. RegistryInv => RecordStands
  BY DEF RegistryInv, SettledInv, RecordStands
<1> QED  BY <1>1, RegistryStarts, RegistryKeeps, PTL DEF RegistrySpec

\* list_services drops a service that was neither registered nor beaten for
\* the timeout, whatever late writes of heartbeats do to its record.
THEOREM SilentServicesFade == RegistrySpec => []SilentFade
<1>1. ASSUME RegistryInv, NEW s \in Services, IsAlive(hash[s])  PROVE clock - heard[s] < Timeout
  <2>1. clock \in Nat /\ heard[s] \in Nat /\ hash[s].beat \in Nat /\ Timeout \in Nat
    BY <1>1, RecFields, RegistryConstants DEF RegistryInv, RegistryTypes
  <2>2. hash[s].beat <= heard[s] /\ clock - hash[s].beat < Timeout
    BY <1>1 DEF RegistryInv, HeardInv, IsAlive
  <2> QED  BY <2>1, <2>2
<1>2. RegistryInv => SilentFade
  BY <1>1 DEF SilentFade
<1> QED  BY <1>2, RegistryStarts, RegistryKeeps, PTL DEF RegistrySpec

-----------------------------------------------------------------------------
(* The limiters: the inductive invariants.                                 *)

Quota == [known : BOOLEAN, active : Nat, start : Nat, count : Nat]
Standing ==
  {Out} \cup ({"concurrency"} \X {"add", "less"} \X (1..4))
        \cup ({"concurrency"} \X {"put", "sub"} \X (2..4))
        \cup {<<l, "held", 0>> : l \in {"concurrency", "fair", "capacity"}}
        \cup ({"fair"} \X {"window", "record", "less"} \X {0})

AdmissionTypes ==
  /\ time \in Nat /\ counter \in [Counters -> Nat]
  /\ quota \in [Tenants -> Quota] /\ taken \in [Resources -> Nat]
  /\ step \in [Threads -> Standing] /\ val \in [Threads -> Nat]
  /\ job \in [Threads -> Types \cup Tenants \cup Needs \cup {None}]
  /\ \A t \in Threads : /\ step[t][1] = "concurrency" => job[t] \in Types
                        /\ step[t][1] = "fair" => job[t] \in Tenants
                        /\ step[t][1] = "capacity" => job[t] \in Needs

\* What makes CountersExact inductive: what a thread has read of a counter and
\* not written back yet is still there, and a tenant without a quota runs
\* nothing.
Value(k) == IF k \in Tenants THEN quota[k].active ELSE counter[k]
CountersRead == \A t \in Threads : \A k \in (Counters \cup Tenants) \ lost : HasRead(t, k) => val[t] = Value(k)
NewIsIdle ==
  /\ \A x \in Tenants : ~quota[x].known => quota[x].active = 0
  /\ \A t \in Threads : step[t][1] = "fair" /\ step[t][2] \in {"held", "less"} => quota[job[t]].known
CountInv == CountersExact /\ CountersRead /\ NewIsIdle

\* What makes LimitsKept inductive: one thread asks at a time, and what it has
\* still to add to is below its limit.
Uncrowded == "concurrency" \notin crowded /\ lost \cap Counters = {}
BelowLimits ==
  /\ \A k \in Counters : counter[k] <= CounterMax(k)
  /\ \A t, u \in Threads : Asking(t, "concurrency") /\ Asking(u, "concurrency") => t = u
  /\ \A t \in Threads : Asking(t, "concurrency") =>
       \A i \in 1..4 : i >= step[t][3] => counter[Dims(t)[i]] < CounterMax(Dims(t)[i])
BelowQuota(x) ==
  /\ quota[x].active <= TenantMax[x]
  /\ \A t, u \in Threads : Asking(t, "fair") /\ Asking(u, "fair") /\ job[t] = x /\ job[u] = x => t = u
  /\ \A t \in Threads : Asking(t, "fair") /\ job[t] = x => quota[x].active < TenantMax[x]
LimitInv ==
  /\ Uncrowded => BelowLimits
  /\ \A x \in Tenants \ (lost \cup crowded) : BelowQuota(x)

\* What makes CapacityKept inductive: a resource is taken unit by unit, and the
\* units are those the holders asked for.
CapacityAt(r) == IsFiniteSet(Units(r)) /\ taken[r] = Cardinality(Units(r)) /\ taken[r] <= Total[r]

-----------------------------------------------------------------------------
(* The limiters: types.                                                    *)

\* The constants.
LEMMA AdmissionConstants ==
  /\ IsFiniteSet(Threads) /\ None \notin Types \cup Tenants
  /\ Types \cap {"global", "tenant", "user"} = {} /\ Tenants \cap Counters = {}
  /\ TypeMax \in Nat /\ OtherMax \in Nat /\ MaxCandidates \in Nat
  /\ \A x \in Tenants : /\ TenantMax[x] \in Nat /\ TenantMax[x] > 0 /\ RateMax[x] \in Nat /\ RateMax[x] > 0
                         /\ Share(x) \in Nat /\ Share(x) > 0
  /\ Total \in [Resources -> Nat] /\ Needs \subseteq [Resources -> Nat]
  /\ Types \subseteq Counters /\ {"global", "tenant", "user"} \subseteq Counters
  /\ \A k \in Counters : CounterMax(k) \in Nat
BY AdmissionAssumption DEF Counters, CounterMax, Share

\* Where a thread can stand.
LEMMA StandingFields ==
  ASSUME NEW p \in Standing
  PROVE  /\ p = <<p[1], p[2], p[3]>>
         /\ p[1] \in {"none", "concurrency", "fair", "capacity"}
         /\ p[1] = "none" => p = Out
         /\ p[1] = "capacity" => p[2] = "held" /\ p[3] = 0
         /\ p[1] = "fair" => p[2] \in {"window", "record", "held", "less"} /\ p[3] = 0
         /\ p[1] = "concurrency" =>
              /\ p[2] \in {"add", "put", "held", "sub", "less"}
              /\ p[2] \in {"add", "less"} => p[3] \in 1..4
              /\ p[2] \in {"put", "sub"} => p[3] \in 2..4
              /\ p[2] = "held" => p[3] = 0
BY DEF Standing, Out

\* The places the calls go to.
LEMMA StandingMembers ==
  /\ Out \in Standing /\ Out[1] = "none" /\ Out[2] = "out"
  /\ \A l \in {"concurrency", "fair", "capacity"} : <<l, "held", 0>> \in Standing
  /\ \A i \in 1..4 : <<"concurrency", "add", i>> \in Standing /\ <<"concurrency", "less", i>> \in Standing
  /\ \A i \in 2..4 : <<"concurrency", "put", i>> \in Standing /\ <<"concurrency", "sub", i>> \in Standing
  /\ \A call \in {"window", "record", "less"} : <<"fair", call, 0>> \in Standing
BY DEF Standing, Out

\* A triple and its parts.
LEMMA Triples ==
  \A l, call, i : LET p == <<l, call, i>> IN p[1] = l /\ p[2] = call /\ p[3] = i
OBVIOUS

\* Every other thread is as before.
ThreadFrame(t) == \A u \in Threads \ {t} : step'[u] = step[u] /\ job'[u] = job[u] /\ val'[u] = val[u]

\* How a thread moves, takes a job, reads and leaves.
LEMMA ThreadDoes ==
  ASSUME AdmissionTypes, NEW t \in Threads
  PROVE  /\ \A l, call, i : To(t, l, call, i) =>
              step'[t] = <<l, call, i>> /\ \A u \in Threads \ {t} : step'[u] = step[u]
         /\ \A x : job' = [job EXCEPT ![t] = x] =>
              job'[t] = x /\ \A u \in Threads \ {t} : job'[u] = job[u]
         /\ \A n : Read(t, n) => val'[t] = n /\ \A u \in Threads \ {t} : val'[u] = val[u]
         /\ Leave(t) => /\ step'[t] = Out /\ \A u \in Threads \ {t} : step'[u] = step[u]
                        /\ job'[t] = None /\ \A u \in Threads \ {t} : job'[u] = job[u]
BY DEF AdmissionTypes, To, Read, Leave

\* The counters a job is counted in.
LEMMA DimsAre ==
  ASSUME NEW t, job[t] \in Types
  PROVE  /\ Dims(t)[1] = "global" /\ Dims(t)[2] = job[t] /\ Dims(t)[3] = "tenant" /\ Dims(t)[4] = "user"
         /\ \A i \in 1..4 : Dims(t)[i] \in Counters
         /\ \A i, h \in 1..4 : Dims(t)[i] = Dims(t)[h] => i = h
<1>1. Dims(t)[1] = "global" /\ Dims(t)[2] = job[t] /\ Dims(t)[3] = "tenant" /\ Dims(t)[4] = "user"
  BY DEF Dims
<1>2. \A i \in 1..4 : i = 1 \/ i = 2 \/ i = 3 \/ i = 4
  OBVIOUS
<1>3. job[t] \notin {"global", "tenant", "user"} /\ job[t] \in Counters /\ {"global", "tenant", "user"} \subseteq Counters
  BY AdmissionConstants
<1>4. \A i \in 1..4 : Dims(t)[i] \in Counters
  BY <1>1, <1>2, <1>3
<1>5. \A i, h \in 1..4 : Dims(t)[i] = Dims(t)[h] => i = h
  BY <1>1, <1>2, <1>3
<1> QED  BY <1>1, <1>4, <1>5

\* Quotas: a new one, the one that is there or a new one, one whose window may
\* begin anew.
LEMMA QuotaTypes ==
  ASSUME AdmissionTypes, NEW x \in Tenants
  PROVE  /\ quota[x] \in Quota /\ NewQuota \in Quota /\ Known(x) \in Quota
         /\ NewQuota.known /\ NewQuota.active = 0
         /\ Known(x).known
         /\ Known(x).active = IF quota[x].known THEN quota[x].active ELSE 0
<1>1. quota[x] \in Quota /\ time \in Nat
  BY DEF AdmissionTypes
<1>2. NewQuota \in Quota /\ NewQuota.known /\ NewQuota.active = 0
  BY <1>1 DEF NewQuota, Quota
<1> QED  BY <1>1, <1>2 DEF Known

\* Beginning a new window leaves the rest of a quota alone.
LEMMA RolledIs ==
  ASSUME NEW q \in Quota, time \in Nat
  PROVE  Rolled(q) \in Quota /\ Rolled(q).active = q.active /\ (Rolled(q).known <=> q.known)
BY DEF Rolled, Quota

\* What a thread asks for, and what it then holds, fits its limiter.
Things == Types \cup Tenants \cup Needs \cup {None}
Fitting(t) == /\ step[t][1] = "concurrency" => job[t] \in Types
              /\ step[t][1] = "fair" => job[t] \in Tenants
              /\ step[t][1] = "capacity" => job[t] \in Needs
ThreadTypes == /\ step \in [Threads -> Standing] /\ val \in [Threads -> Nat] /\ job \in [Threads -> Things]
               /\ \A t \in Threads : Fitting(t)

\* A thread's step keeps the threads' types if it leaves that thread in order.
LEMMA ThreadTypesAt ==
  ASSUME AdmissionTypes, NEW t \in Threads,
         step' = step \/ \E p \in Standing : step' = [step EXCEPT ![t] = p],
         job' = job \/ \E x \in Things : job' = [job EXCEPT ![t] = x],
         val' = val \/ \E n \in Nat : val' = [val EXCEPT ![t] = n],
         Fitting(t)'
  PROVE  ThreadTypes'
<1>1. step' \in [Threads -> Standing] /\ val' \in [Threads -> Nat] /\ job' \in [Threads -> Things]
  BY DEF AdmissionTypes, Things
<1>2. \A u \in Threads \ {t} : step'[u] = step[u] /\ job'[u] = job[u]
  BY DEF AdmissionTypes
<1>3. \A u \in Threads : Fitting(u)
  BY DEF AdmissionTypes, Fitting
<1>4. \A u \in Threads : Fitting(u)'
  BY <1>2, <1>3 DEF Fitting
<1> QED  BY <1>1, <1>4 DEF ThreadTypes

\* The rest of the types.
LEMMA AdmissionTypesFrom ==
  ASSUME AdmissionTypes, ThreadTypes', time' \in Nat, counter' \in [Counters -> Nat],
         quota' \in [Tenants -> Quota], taken' \in [Resources -> Nat]
  PROVE  AdmissionTypes'
BY DEF AdmissionTypes, ThreadTypes, Things, Fitting

-----------------------------------------------------------------------------
(* The limiters: what a step does to its thread and to the counters.       *)

\* can_acquire.
CheckDoes(t, ty) ==
  /\ ThreadFrame(t) /\ step[t] = Out /\ step'[t] = <<"concurrency", "add", 1>>
  /\ job'[t] = ty /\ val'[t] = val[t] /\ CanAcquire(ty)
  /\ Asks(t, "concurrency", ty) /\ UNCHANGED <<counter, quota, taken, time, lost>>

\* It passes.
LEMMA CheckSteps ==
  ASSUME AdmissionTypes, NEW t \in Threads, NEW ty \in Types, ConcurrencyCheck(t, ty)
  PROVE  CheckDoes(t, ty) /\ AdmissionTypes'
<1>0. /\ step[t] = Out /\ CanAcquire(ty) /\ job' = [job EXCEPT ![t] = ty]
      /\ To(t, "concurrency", "add", 1) /\ Asks(t, "concurrency", ty)
      /\ UNCHANGED <<counter, val, lost, time, quota, taken>>
  BY DEF ConcurrencyCheck, others
<1>d. /\ step'[t] = <<"concurrency", "add", 1>> /\ job'[t] = ty
      /\ \A u \in Threads \ {t} : step'[u] = step[u] /\ job'[u] = job[u]
  BY <1>0 DEF To, AdmissionTypes
<1>1. CheckDoes(t, ty)
  BY <1>0, <1>d DEF CheckDoes, ThreadFrame
<1>2. Fitting(t)'
  BY <1>d, Triples DEF Fitting
<1>3. ThreadTypes'
  <2>1. <<"concurrency", "add", 1>> \in Standing /\ ty \in Things
    BY StandingMembers DEF Things
  <2> QED  BY <1>0, <1>2, <2>1, ThreadTypesAt DEF To
<1> QED  BY <1>0, <1>1, <1>3, AdmissionTypesFrom DEF AdmissionTypes

\* acquire: the global counter, or the read of another.
AddDoes(t, i) ==
  /\ ThreadFrame(t) /\ step[t] = <<"concurrency", "add", i>> /\ i \in 1..4 /\ job'[t] = job[t] /\ job[t] \in Types
  /\ UNCHANGED <<quota, taken, time, crowded>>
  /\ \/ /\ i = 1 /\ counter' = [counter EXCEPT !["global"] = @ + 1] /\ val'[t] = val[t]
        /\ step'[t] = <<"concurrency", "add", 2>> /\ Writes(t, "global")
     \/ /\ i \in 2..4 /\ counter' = counter /\ val'[t] = counter[Dims(t)[i]] /\ lost' = lost
        /\ step'[t] = <<"concurrency", "put", i>>

\* It does.
LEMMA AddSteps ==
  ASSUME AdmissionTypes, NEW t \in Threads, ConcurrencyAdd(t)
  PROVE  AddDoes(t, step[t][3]) /\ AdmissionTypes'
<1> DEFINE i == step[t][3]
<1>0. /\ step[t] = <<"concurrency", "add", i>> /\ i \in 1..4 /\ job[t] \in Types
  BY StandingFields DEF AdmissionTypes, ConcurrencyAdd
<1>d. Dims(t)[1] = "global" /\ Dims(t)[i] \in Counters
  BY <1>0, DimsAre
<1>1. AddDoes(t, i)
  BY <1>0, <1>d, ThreadDoes DEF ConcurrencyAdd, AddDoes, ThreadFrame, others
<1>2. Fitting(t)'
  BY <1>1, Triples DEF AddDoes, Fitting
<1>3. ThreadTypes'
  <2>1. step' = [step EXCEPT ![t] = <<"concurrency", "add", 2>>]
        \/ (i \in 2..4 /\ step' = [step EXCEPT ![t] = <<"concurrency", "put", i>>])
    BY <1>0 DEF ConcurrencyAdd, To
  <2>2. val' = val \/ val' = [val EXCEPT ![t] = counter[Dims(t)[i]]]
    BY DEF ConcurrencyAdd, Read
  <2>3. counter[Dims(t)[i]] \in Nat
    BY <1>d DEF AdmissionTypes
  <2>4. job' = job
    BY DEF ConcurrencyAdd
  <2> HIDE DEF i
  <2> QED  BY <1>2, <2>1, <2>2, <2>3, <2>4, ThreadTypesAt, StandingMembers
<1>4. counter' \in [Counters -> Nat]
  BY <1>1 DEF AddDoes, AdmissionTypes
<1> QED  BY <1>1, <1>3, <1>4, AdmissionTypesFrom DEF AdmissionTypes, AddDoes

PutDoes(t, i) ==
  /\ ThreadFrame(t) /\ step[t] = <<"concurrency", "put", i>> /\ i \in 2..4 /\ job'[t] = job[t] /\ job[t] \in Types
  /\ UNCHANGED <<quota, taken, time, crowded>>
  /\ counter' = [counter EXCEPT ![Dims(t)[i]] = val[t] + 1] /\ val'[t] = 0 /\ Writes(t, Dims(t)[i])
  /\ step'[t] = IF i < 4 THEN <<"concurrency", "add", i + 1>> ELSE <<"concurrency", "held", 0>>

\* acquire: the write of the value that was read.
LEMMA PutSteps ==
  ASSUME AdmissionTypes, NEW t \in Threads, ConcurrencyPut(t)
  PROVE  PutDoes(t, step[t][3]) /\ AdmissionTypes'
<1> DEFINE i == step[t][3]
<1>0. /\ step[t] = <<"concurrency", "put", i>> /\ i \in 2..4 /\ job[t] \in Types
  BY StandingFields DEF AdmissionTypes, ConcurrencyPut
<1>d. Dims(t)[i] \in Counters
  BY <1>0, DimsAre
<1>1. PutDoes(t, i)
  BY <1>0, <1>d, ThreadDoes DEF ConcurrencyPut, PutDoes, ThreadFrame, others
<1>2. Fitting(t)'
  BY <1>1, Triples DEF PutDoes, Fitting
<1>3. ThreadTypes'
  <2>1. \/ i + 1 \in 1..4 /\ step' = [step EXCEPT ![t] = <<"concurrency", "add", i + 1>>]
        \/ step' = [step EXCEPT ![t] = <<"concurrency", "held", 0>>]
    BY <1>0 DEF ConcurrencyPut, To
  <2>2. val' = [val EXCEPT ![t] = 0] /\ job' = job
    BY DEF ConcurrencyPut, Read
  <2> HIDE DEF i
  <2> QED  BY <1>2, <2>1, <2>2, ThreadTypesAt, StandingMembers
<1>4. counter' \in [Counters -> Nat]
  <2>1. val[t] + 1 \in Nat
    BY DEF AdmissionTypes
  <2> QED  BY <1>1, <1>d, <2>1 DEF PutDoes, AdmissionTypes
<1> QED  BY <1>1, <1>3, <1>4, AdmissionTypesFrom DEF AdmissionTypes, PutDoes

ReadDoes(t, i) ==
  /\ ThreadFrame(t) /\ i \in 1..4 /\ job'[t] = job[t] /\ job[t] \in Types
  /\ step[t] = <<"concurrency", "sub", i>> \/ (i = 1 /\ step[t] = <<"concurrency", "held", 0>>)
  /\ UNCHANGED <<counter, quota, taken, time, lost, crowded>>
  /\ val'[t] = counter[Dims(t)[i]] /\ step'[t] = <<"concurrency", "less", i>>

\* release: the read of a counter.
LEMMA ReadSteps ==
  ASSUME AdmissionTypes, NEW t \in Threads, ConcurrencyRead(t)
  PROVE  (\E i \in 1..4 : ReadDoes(t, i)) /\ AdmissionTypes'
<1> DEFINE i == IF t \in Held("concurrency") THEN 1 ELSE step[t][3]
<1>0. /\ i \in 1..4 /\ job[t] \in Types
      /\ step[t] = <<"concurrency", "sub", i>> \/ (i = 1 /\ step[t] = <<"concurrency", "held", 0>>)
  <2>1. CASE t \in Held("concurrency")
    BY <2>1, Triples DEF Held, AdmissionTypes
  <2>2. CASE t \notin Held("concurrency")
    BY <2>2, StandingFields DEF ConcurrencyRead, AdmissionTypes
  <2> QED  BY <2>1, <2>2
<1>r. /\ Read(t, counter[Dims(t)[i]]) /\ To(t, "concurrency", "less", i)
      /\ UNCHANGED <<counter, job, lost, crowded, others>>
  BY DEF ConcurrencyRead
<1> HIDE DEF i
<1>d. Dims(t)[i] \in Counters
  BY <1>0, DimsAre
<1>1. ReadDoes(t, i)
  BY <1>0, <1>d, <1>r, ThreadDoes DEF ReadDoes, ThreadFrame, others
<1>2. Fitting(t)'
  BY <1>1, Triples DEF ReadDoes, Fitting
<1>3. ThreadTypes'
  <2>1. counter[Dims(t)[i]] \in Nat /\ job' = job
    BY <1>d, <1>r DEF AdmissionTypes
  <2> QED  BY <1>0, <1>2, <1>r, <2>1, ThreadTypesAt, StandingMembers DEF Read, To
<1> QED  BY <1>0, <1>1, <1>3, AdmissionTypesFrom DEF AdmissionTypes, ReadDoes

LessDoes(t, i) ==
  /\ ThreadFrame(t) /\ step[t] = <<"concurrency", "less", i>> /\ i \in 1..4 /\ job[t] \in Types
  /\ UNCHANGED <<quota, taken, time, crowded>>
  /\ counter' = [counter EXCEPT ![Dims(t)[i]] = Less1(val[t])] /\ val'[t] = 0 /\ Writes(t, Dims(t)[i])
  /\ \/ i < 4 /\ step'[t] = <<"concurrency", "sub", i + 1>> /\ job'[t] = job[t]
     \/ i = 4 /\ step'[t] = Out /\ job'[t] = None

\* release: the write of a counter.
LEMMA LessSteps ==
  ASSUME AdmissionTypes, NEW t \in Threads, ConcurrencyLess(t)
  PROVE  LessDoes(t, step[t][3]) /\ AdmissionTypes'
<1> DEFINE i == step[t][3]
<1>0. /\ step[t] = <<"concurrency", "less", i>> /\ i \in 1..4 /\ job[t] \in Types
  BY StandingFields DEF AdmissionTypes, ConcurrencyLess
<1>d. Dims(t)[i] \in Counters
  BY <1>0, DimsAre
<1>1. LessDoes(t, i)
  <2>1. CASE i < 4
    BY <1>0, <1>d, <2>1, ThreadDoes DEF ConcurrencyLess, LessDoes, ThreadFrame, others
  <2>2. CASE ~(i < 4)
    BY <1>0, <1>d, <2>2, ThreadDoes DEF ConcurrencyLess, LessDoes, ThreadFrame, others
  <2> QED  BY <2>1, <2>2
<1>2. Fitting(t)'
  BY <1>1, Triples, StandingMembers DEF LessDoes, Fitting
<1>3. ThreadTypes'
  <2>1. \/ i + 1 \in 2..4 /\ step' = [step EXCEPT ![t] = <<"concurrency", "sub", i + 1>>] /\ job' = job
        \/ step' = [step EXCEPT ![t] = Out] /\ job' = [job EXCEPT ![t] = None]
    BY <1>0 DEF ConcurrencyLess, To, Leave
  <2>2. val' = [val EXCEPT ![t] = 0]
    BY DEF ConcurrencyLess, Read
  <2> HIDE DEF i
  <2> QED  BY <1>2, <2>1, <2>2, ThreadTypesAt, StandingMembers DEF Things
<1>4. counter' \in [Counters -> Nat]
  <2>1. Less1(val[t]) \in Nat
    BY DEF AdmissionTypes, Less1
  <2> QED  BY <1>1, <1>d, <2>1 DEF LessDoes, AdmissionTypes
<1> QED  BY <1>1, <1>3, <1>4, AdmissionTypesFrom DEF AdmissionTypes, LessDoes

-----------------------------------------------------------------------------
(* The limiters: which tenant is picked.                                   *)

\* One turn of the loop of next_eligible_tenant.
PickNext(cand, b, i) ==
  IF b # 0 /\ ~quota[cand[b]].known THEN b
  ELSE IF ~quota[cand[i]].known THEN i
  ELSE IF CanSubmit(cand[i]) /\ (b = 0 \/ LowerRatio(cand[i], cand[b])) THEN i ELSE b

\* A set of numbers has a least one.
LEMMA LeastNumber ==
  ASSUME NEW T \in SUBSET Nat, T # {}
  PROVE  \E n \in T : \A m \in T : n <= m
<1>1. PICK n \in T : \A m \in T : ~(<<m, n>> \in OpToRel(<, Nat))
  BY NatLessThanWellFounded, WFMin, Zenon
<1>2. \A m \in T : ~(m < n)
  BY <1>1 DEF OpToRel
<1> QED  BY <1>2

\* Counting up to n never leaves S: the first number outside would have one
\* before it.
LEMMA Reaches ==
  ASSUME NEW n \in Nat, NEW S, 0 \in S, \A i \in 0..(n - 1) : i \in S => i + 1 \in S
  PROVE  \A i \in 0..n : i \in S
<1> DEFINE B == {i \in 0..n : i \notin S}
<1> SUFFICES ASSUME B # {}
             PROVE  FALSE
  OBVIOUS
<1>1. PICK m \in B : \A k \in B : m <= k
  <2>1. B \in SUBSET Nat
    OBVIOUS
  <2> HIDE DEF B
  <2> QED  BY <2>1, LeastNumber
<1>2. m # 0 /\ m \in 0..n
  OBVIOUS
<1>3. m - 1 \in 0..(n - 1) /\ m - 1 \notin B /\ (m - 1) + 1 = m
  BY <1>1, <1>2
<1>4. m - 1 \in S
  BY <1>3
<1>5. m \in S
  BY <1>3, <1>4
<1> QED  BY <1>5

\* A list of candidates.
LEMMA CandidatesAre ==
  ASSUME NEW cand \in Candidates
  PROVE  Len(cand) \in Nat /\ DOMAIN cand = 1..Len(cand) /\ \A k \in 1..Len(cand) : cand[k] \in Tenants
<1>1. PICK n \in 0..MaxCandidates : cand \in [1..n -> Tenants]
  BY Zenon DEF Candidates
<1>2. n \in Nat
  BY AdmissionConstants
<1>3. Len(cand) = n
  BY <1>1, <1>2
<1> QED  BY <1>1, <1>2, <1>3

\* The loop over the first n candidates.
PickRun(cand, n, f) == f = [i \in 0..n |-> IF i = 0 THEN 0 ELSE PickNext(cand, f[i - 1], i)]

\* It can be run over all of them.
LEMMA PickRuns ==
  ASSUME NEW cand \in Candidates
  PROVE  \E f : PickRun(cand, Len(cand), f)
<1> DEFINE L == Len(cand)
           S == {n \in Nat : \E f : PickRun(cand, n, f)}
<1>1. L \in Nat
  BY CandidatesAre
<1> HIDE DEF L
<1>2. 0 \in S
  <2> DEFINE f == [i \in 0..0 |-> 0]
  <2>1. f = [i \in 0..0 |-> IF i = 0 THEN 0 ELSE PickNext(cand, f[i - 1], i)]
    OBVIOUS
  <2>2. PickRun(cand, 0, f)
    BY <2>1, Zenon DEF PickRun
  <2> QED  BY <2>2
<1>3. ASSUME NEW n \in 0..(L - 1), n \in S
      PROVE  n + 1 \in S
  <2>1. PICK f : PickRun(cand, n, f)
    BY <1>3
  <2>2. n \in Nat /\ \A i \in 0..n : f[i] = IF i = 0 THEN 0 ELSE PickNext(cand, f[i - 1], i)
    BY <1>1, <2>1 DEF PickRun
  <2> DEFINE g == [i \in 0..(n + 1) |-> IF i = n + 1 THEN PickNext(cand, f[n], n + 1) ELSE f[i]]
  <2>3. ASSUME NEW i \in 0..(n + 1)
        PROVE  g[i] = IF i = 0 THEN 0 ELSE PickNext(cand, g[i - 1], i)
    <3>1. CASE i = n + 1
      <4>1. g[i] = PickNext(cand, f[n], n + 1) /\ g[n] = f[n] /\ i - 1 = n /\ i # 0
        BY <2>2, <3>1
      <4> QED  BY <3>1, <4>1
    <3>2. CASE i = 0
      BY <2>2, <3>2
    <3>3. CASE i # n + 1 /\ i # 0
      <4>1. i \in 0..n /\ i - 1 \in 0..(n + 1) /\ i - 1 # n + 1
        BY <2>2, <3>3
      <4>2. g[i] = f[i] /\ g[i - 1] = f[i - 1]
        BY <3>3, <4>1
      <4>3. f[i] = PickNext(cand, f[i - 1], i)
        BY <2>2, <3>3, <4>1
      <4> QED  BY <3>3, <4>2, <4>3
    <3> QED  BY <3>1, <3>2, <3>3
  <2>4. PickRun(cand, n + 1, g)
    <3>1. g = [i \in 0..(n + 1) |-> g[i]]
      OBVIOUS
    <3> HIDE DEF g
    <3> QED  BY <2>3, <3>1, Zenon DEF PickRun
  <2> HIDE DEF g
  <2> QED  BY <2>2, <2>4
<1> HIDE DEF S
<1>4. L \in S
  <2>1. \A i \in 0..L : i \in S
    BY <1>1, <1>2, <1>3, Reaches
  <2> QED  BY <1>1, <2>1
<1> QED  BY <1>4 DEF S, L

\* What the loop has after i candidates, of which b is the best: one that has
\* no quota if there is one, or else one that may submit and whose ratio is the
\* least.
NoMore(x, y) == quota[x].active * Share(y) <= quota[y].active * Share(x)
Picked(cand, i, b) ==
  /\ b \in 0..i
  /\ (\E k \in 1..i : ~quota[cand[k]].known) => b # 0 /\ ~quota[cand[b]].known
  /\ (\A k \in 1..i : quota[cand[k]].known) =>
       /\ b # 0 => CanSubmit(cand[b])
       /\ \A k \in 1..i : CanSubmit(cand[k]) => b # 0 /\ NoMore(cand[b], cand[k])

\* A smaller ratio than a small one.
LEMMA RatiosCompose ==
  ASSUME NEW a \in Nat, NEW b \in Nat, NEW c \in Nat, NEW u \in Nat, NEW v \in Nat, NEW w \in Nat,
         v > 0, a * v <= b * u, b * w <= c * v
  PROVE  a * w <= c * u
<1>1. (a * v) * w <= (b * u) * w
  OBVIOUS
<1>2. (b * w) * u <= (c * v) * u
  OBVIOUS
<1>3. /\ (a * v) * w = (a * w) * v /\ (b * u) * w = (b * w) * u /\ (c * v) * u = (c * u) * v
      /\ a * w \in Nat /\ c * u \in Nat
  OBVIOUS
<1> DEFINE p == a * w
           q == c * u
<1>4. p * v <= q * v /\ p \in Nat /\ q \in Nat
  BY <1>1, <1>2, <1>3
<1> HIDE DEF p, q
<1>5. p <= q
  BY <1>4
<1> QED  BY <1>5 DEF p, q

\* One more candidate.
LEMMA PickTurn ==
  ASSUME AdmissionTypes, NEW cand \in Candidates, NEW i \in 0..(Len(cand) - 1), NEW b, Picked(cand, i, b)
  PROVE  Picked(cand, i + 1, PickNext(cand, b, i + 1))
<1> DEFINE n == i + 1
           new == PickNext(cand, b, n)
<1>0. /\ i \in Nat /\ n \in Nat /\ n \in 1..Len(cand) /\ b \in 0..i /\ i < n
      /\ \A k \in 1..n : k \in 1..i \/ k = n
      /\ \A k \in 1..i : k \in 1..n
      /\ \A k \in 0..i : k \in 0..n /\ (k # 0 => k \in 1..i)
      /\ \A k \in 1..n : cand[k] \in Tenants
  <2>1. Len(cand) \in Nat /\ \A k \in 1..Len(cand) : cand[k] \in Tenants
    BY CandidatesAre
  <2> QED  BY <2>1 DEF Picked
<1>s. \A x \in Tenants : quota[x].active \in Nat /\ Share(x) \in Nat /\ Share(x) > 0
  BY AdmissionConstants DEF AdmissionTypes, Quota
<1>b. /\ (\E k \in 1..i : ~quota[cand[k]].known) => b # 0 /\ ~quota[cand[b]].known
      /\ (\A k \in 1..i : quota[cand[k]].known) =>
           /\ b # 0 => CanSubmit(cand[b])
           /\ \A k \in 1..i : CanSubmit(cand[k]) => b # 0 /\ NoMore(cand[b], cand[k])
  BY DEF Picked
<1>p. new = IF b # 0 /\ ~quota[cand[b]].known THEN b
            ELSE IF ~quota[cand[n]].known THEN n
            ELSE IF CanSubmit(cand[n]) /\ (b = 0 \/ LowerRatio(cand[n], cand[b])) THEN n ELSE b
  BY DEF PickNext
<1>1. new \in 0..n
  BY <1>0, <1>p
<1> HIDE DEF n, new
<1>2. ASSUME NEW k \in 1..n, ~quota[cand[k]].known
      PROVE  new # 0 /\ ~quota[cand[new]].known
  <2>1. CASE k \in 1..i
    BY <1>2, <1>b, <1>p, <2>1
  <2>2. CASE k = n
    BY <1>0, <1>2, <1>p, <2>2
  <2> QED  BY <1>0, <1>2, <2>1, <2>2
<1>3. ASSUME \A k \in 1..n : quota[cand[k]].known
      PROVE  /\ new # 0 => CanSubmit(cand[new])
             /\ \A k \in 1..n : CanSubmit(cand[k]) => new # 0 /\ NoMore(cand[new], cand[k])
  <2>0. /\ \A k \in 1..i : quota[cand[k]].known
        /\ quota[cand[n]].known /\ (b # 0 => quota[cand[b]].known /\ b \in 1..n)
    BY <1>0, <1>3
  <2>1. /\ b # 0 => CanSubmit(cand[b])
        /\ \A k \in 1..i : CanSubmit(cand[k]) => b # 0 /\ NoMore(cand[b], cand[k])
    BY <1>b, <2>0
  <2>2. new = IF CanSubmit(cand[n]) /\ (b = 0 \/ LowerRatio(cand[n], cand[b])) THEN n ELSE b
    BY <1>p, <2>0
  <2>3. new # 0 => CanSubmit(cand[new])
    BY <2>1, <2>2
  <2>4. ASSUME NEW k \in 1..n, CanSubmit(cand[k])
        PROVE  new # 0 /\ NoMore(cand[new], cand[k])
    <3>n. cand[k] \in Tenants /\ cand[n] \in Tenants /\ (b # 0 => cand[b] \in Tenants)
      BY <1>0, <2>0, <2>4
    <3>s. NoMore(cand[k], cand[k])
      BY <1>s, <3>n DEF NoMore
    <3>1. CASE CanSubmit(cand[n]) /\ (b = 0 \/ LowerRatio(cand[n], cand[b]))
      <4>1. new = n /\ n # 0
        BY <1>0, <2>2, <3>1
      <4>2. CASE k = n
        BY <3>s, <4>1, <4>2
      <4>3. CASE k \in 1..i
        <5>1. b # 0 /\ NoMore(cand[b], cand[k]) /\ LowerRatio(cand[n], cand[b])
          BY <2>1, <2>4, <3>1, <4>3
        <5>2. NoMore(cand[n], cand[b])
          <6> DEFINE p == quota[cand[n]].active * Share(cand[b])
                     q == quota[cand[b]].active * Share(cand[n])
          <6>1. p \in Nat /\ q \in Nat
            BY <1>s, <3>n, <5>1
          <6>2. p < q
            BY <5>1 DEF LowerRatio
          <6> HIDE DEF p, q
          <6>3. p <= q
            BY <6>1, <6>2
          <6> QED  BY <6>3 DEF p, q, NoMore
        <5>3. NoMore(cand[n], cand[k])
          <6>1. ASSUME NEW x \in Tenants, NEW y \in Tenants, NEW z \in Tenants, NoMore(x, y), NoMore(y, z)
                PROVE  NoMore(x, z)
            <7> DEFINE a == quota[x].active
                       e == quota[y].active
                       c == quota[z].active
                       u == Share(x)
                       v == Share(y)
                       w == Share(z)
            <7>1. a \in Nat /\ e \in Nat /\ c \in Nat /\ u \in Nat /\ v \in Nat /\ w \in Nat /\ v > 0
              BY <1>s
            <7>2. a * v <= e * u /\ e * w <= c * v
              BY <6>1 DEF NoMore
            <7> HIDE DEF a, e, c, u, v, w
            <7>3. a * w <= c * u
              BY <7>1, <7>2, RatiosCompose
            <7> QED  BY <7>3 DEF a, c, u, w, NoMore
          <6> QED  BY <3>n, <5>1, <5>2, <6>1
        <5> QED  BY <4>1, <5>3
      <4> QED  BY <1>0, <2>4, <4>2, <4>3
    <3>2. CASE ~(CanSubmit(cand[n]) /\ (b = 0 \/ LowerRatio(cand[n], cand[b])))
      <4>1. new = b
        BY <2>2, <3>2
      <4>2. CASE k \in 1..i
        BY <2>1, <2>4, <4>1, <4>2
      <4>3. CASE k = n
        <5>1. b # 0 /\ ~LowerRatio(cand[n], cand[b])
          BY <2>4, <3>2, <4>3
        <5> DEFINE p == quota[cand[n]].active * Share(cand[b])
                   q == quota[cand[b]].active * Share(cand[n])
        <5>2. p \in Nat /\ q \in Nat
          BY <1>s, <3>n, <5>1
        <5>3. ~(p < q)
          BY <5>1 DEF LowerRatio
        <5> HIDE DEF p, q
        <5>4. q <= p
          BY <5>2, <5>3
        <5>5. NoMore(cand[b], cand[n])
          BY <5>4 DEF p, q, NoMore
        <5> QED  BY <4>1, <4>3, <5>1, <5>5
      <4> QED  BY <1>0, <2>4, <4>2, <4>3
    <3> QED  BY <3>1, <3>2
  <2> QED  BY <2>3, <2>4
<1>4. Picked(cand, n, new)
  BY <1>1, <1>2, <1>3 DEF Picked
<1> QED  BY <1>4 DEF n, new

\* So it is for the whole list.
LEMMA PickAll ==
  ASSUME AdmissionTypes, NEW cand \in Candidates
  PROVE  Picked(cand, Len(cand), NextEligible(cand))
<1> DEFINE f == CHOOSE best : PickRun(cand, Len(cand), best)
           L == Len(cand)
<1>1. PickRun(cand, L, f)
  BY PickRuns, Zenon
<1>2. NextEligible(cand) = f[L]
  BY Zenon DEF NextEligible, PickNext, PickRun
<1>3. L \in Nat
  BY CandidatesAre
<1> HIDE DEF f, L
<1>4. \A i \in 0..L : f[i] = IF i = 0 THEN 0 ELSE PickNext(cand, f[i - 1], i)
  BY <1>1 DEF PickRun
<1> DEFINE S == {i \in 0..L : Picked(cand, i, f[i])}
<1>5. 0 \in S
  <2>1. f[0] = 0 /\ 0 \in 0..L
    BY <1>3, <1>4
  <2>2. Picked(cand, 0, 0)
    BY DEF Picked
  <2> QED  BY <2>1, <2>2
<1>6. ASSUME NEW i \in 0..(L - 1), i \in S
      PROVE  i + 1 \in S
  <2>1. i + 1 \in 0..L /\ i + 1 # 0 /\ (i + 1) - 1 = i
    BY <1>3
  <2>2. f[i + 1] = PickNext(cand, f[i], i + 1)
    BY <1>4, <2>1
  <2>3. Picked(cand, i + 1, PickNext(cand, f[i], i + 1))
    BY <1>6, PickTurn DEF L
  <2> QED  BY <2>1, <2>2, <2>3
<1> HIDE DEF S
<1>7. L \in S
  <2>1. \A i \in 0..L : i \in S
    BY <1>3, <1>5, <1>6, Reaches
  <2> QED  BY <1>3, <2>1
<1> QED  BY <1>2, <1>7 DEF S, L

\* Who is picked has no quota yet or may submit.
LEMMA PickMay ==
  ASSUME AdmissionTypes, NEW cand \in Candidates, NEW i, i = NextEligible(cand)
  PROVE  /\ i \in 0..Len(cand)
         /\ i # 0 => /\ i \in 1..Len(cand) /\ cand[i] \in Tenants
                     /\ ~quota[cand[i]].known \/ CanSubmit(cand[i])
<1>1. Picked(cand, Len(cand), i) /\ Len(cand) \in Nat /\ \A k \in 1..Len(cand) : cand[k] \in Tenants
  BY PickAll, CandidatesAre
<1>2. i \in 0..Len(cand) /\ (i # 0 => i \in 1..Len(cand))
  BY <1>1 DEF Picked
<1> QED  BY <1>1, <1>2 DEF Picked

\* The loop picks fairly from any table of quotas.
LEMMA PickFair ==
  ASSUME AdmissionTypes
  PROVE  PickIsFair
<1> SUFFICES ASSUME NEW cand \in Candidates
             PROVE  LET i == NextEligible(cand)
                        may == {k \in DOMAIN cand : CanSubmit(cand[k])}
                        new == {k \in DOMAIN cand : ~quota[cand[k]].known}
                    IN IF new # {} THEN i \in new
                       ELSE IF may = {} THEN i = 0
                       ELSE i \in may /\ \A k \in may : LET x == cand[i]  y == cand[k] IN
                              quota[x].active * Share(y) <= quota[y].active * Share(x)
  BY DEF PickIsFair
<1> DEFINE i == NextEligible(cand)
           L == Len(cand)
           may == {k \in DOMAIN cand : CanSubmit(cand[k])}
           new == {k \in DOMAIN cand : ~quota[cand[k]].known}
<1>1. Picked(cand, L, i) /\ L \in Nat /\ DOMAIN cand = 1..L
  BY PickAll, CandidatesAre
<1> HIDE DEF i, L
<1>2. i \in 0..L /\ (i # 0 => i \in 1..L)
  BY <1>1 DEF Picked
<1>3. CASE new # {}
  <2>1. i # 0 /\ ~quota[cand[i]].known
    BY <1>1, <1>3 DEF Picked
  <2> QED  BY <1>1, <1>2, <1>3, <2>1 DEF i
<1>4. CASE new = {}
  <2>1. \A k \in 1..L : quota[cand[k]].known
    BY <1>1, <1>4
  <2>2. /\ i # 0 => CanSubmit(cand[i])
        /\ \A k \in 1..L : CanSubmit(cand[k]) => i # 0 /\ NoMore(cand[i], cand[k])
    BY <1>1, <2>1 DEF Picked
  <2>3. may = {} => i = 0
    BY <1>1, <1>2, <2>2
  <2>4. ASSUME may # {}
        PROVE  i \in may /\ \A k \in may : NoMore(cand[i], cand[k])
    BY <1>1, <1>2, <2>2, <2>4
  <2> QED  BY <1>4, <2>3, <2>4 DEF i, NoMore
<1> QED  BY <1>3, <1>4

-----------------------------------------------------------------------------
(* The limiters: what the steps of a tenant's job do.                      *)

\* Nobody's count of running jobs changes, and no quota goes away.
SameActive == \A y \in Tenants : /\ quota'[y].active = quota[y].active
                                 /\ quota[y].known => quota'[y].known

\* Asking: can_submit's first half, or being picked.
AskDoes(t, x) ==
  /\ ThreadFrame(t) /\ step[t] = Out /\ job'[t] = x /\ val'[t] = val[t]
  /\ step'[t] = <<"fair", "window", 0>> \/ step'[t] = <<"fair", "record", 0>>
  /\ quota[x].active < TenantMax[x] /\ SameActive
  /\ Asks(t, "fair", x) /\ UNCHANGED <<counter, taken, lost>>

\* can_submit's first half.
LEMMA ActiveSteps ==
  ASSUME AdmissionTypes, NewIsIdle, NEW t \in Threads, NEW x \in Tenants, FairActive(t, x)
  PROVE  AskDoes(t, x) /\ AdmissionTypes'
<1>0. /\ step[t] = Out /\ Known(x).active < TenantMax[x] /\ quota' = [quota EXCEPT ![x] = Known(x)]
      /\ job' = [job EXCEPT ![t] = x] /\ To(t, "fair", "window", 0) /\ Asks(t, "fair", x)
      /\ UNCHANGED <<time, counter, taken, val, lost>>
  BY DEF FairActive
<1>d. /\ step'[t] = <<"fair", "window", 0>> /\ job'[t] = x
      /\ \A u \in Threads \ {t} : step'[u] = step[u] /\ job'[u] = job[u]
  BY <1>0 DEF To, AdmissionTypes
<1>q. /\ quota' \in [Tenants -> Quota] /\ quota'[x] = Known(x)
      /\ \A y \in Tenants \ {x} : quota'[y] = quota[y]
  BY <1>0, QuotaTypes DEF AdmissionTypes
<1>a. Known(x).active = quota[x].active /\ Known(x).known
  BY QuotaTypes DEF NewIsIdle
<1>s. SameActive
  BY <1>q, <1>a DEF SameActive
<1>1. AskDoes(t, x)
  BY <1>0, <1>d, <1>s, <1>a DEF AskDoes, ThreadFrame
<1>2. Fitting(t)'
  BY <1>d, Triples DEF Fitting
<1>3. ThreadTypes'
  <2>1. <<"fair", "window", 0>> \in Standing /\ x \in Things
    BY StandingMembers DEF Things
  <2> QED  BY <1>0, <1>2, <2>1, ThreadTypesAt DEF To
<1> QED  BY <1>0, <1>1, <1>3, <1>q, AdmissionTypesFrom DEF AdmissionTypes

\* next_eligible_tenant, and the submission for the tenant it picks.
LEMMA PickSteps ==
  ASSUME AdmissionTypes, NewIsIdle, NEW t \in Threads, NEW cand \in Candidates, PickTenant(t, cand)
  PROVE  /\ \/ \E x \in Tenants : AskDoes(t, x)
            \/ SameActive /\ UNCHANGED <<counter, taken, step, job, val, lost, crowded>>
         /\ AdmissionTypes'
<1> DEFINE i == NextEligible(cand)
<1>m. i # 0 => cand[i] \in Tenants /\ (~quota[cand[i]].known \/ CanSubmit(cand[i]))
  BY PickMay
<1>0. /\ step[t] = Out /\ UNCHANGED <<time, counter, taken, val, lost>>
      /\ IF i = 0 THEN UNCHANGED <<step, job, crowded>>
         ELSE /\ job' = [job EXCEPT ![t] = cand[i]]
              /\ To(t, "fair", "record", 0) /\ Asks(t, "fair", cand[i])
  BY DEF PickTenant
<1> HIDE DEF i
<1>q. \A y \in Tenants : quota'[y] = quota[y] \/ quota'[y] = Rolled(quota[y])
  BY DEF PickTenant
<1>r. \A y \in Tenants : /\ quota[y] \in Quota /\ Rolled(quota[y]) \in Quota
                         /\ Rolled(quota[y]).active = quota[y].active /\ (Rolled(quota[y]).known <=> quota[y].known)
  BY RolledIs DEF AdmissionTypes
<1>s. SameActive
  BY <1>q, <1>r DEF SameActive
<1>t. quota' \in [Tenants -> Quota]
  <2>1. DOMAIN quota' = Tenants /\ quota' = [y \in Tenants |-> quota'[y]]
    BY DEF PickTenant
  <2> QED  BY <1>q, <1>r, <2>1
<1>1. CASE i = 0
  <2>1. ThreadTypes'
    BY <1>0, <1>1 DEF AdmissionTypes, ThreadTypes, Things, Fitting
  <2> QED  BY <1>0, <1>1, <1>s, <1>t, <2>1, AdmissionTypesFrom DEF AdmissionTypes
<1>2. CASE i # 0
  <2> DEFINE x == cand[i]
  <2>x. /\ x \in Tenants /\ job' = [job EXCEPT ![t] = x] /\ To(t, "fair", "record", 0) /\ Asks(t, "fair", x)
        /\ ~quota[x].known \/ CanSubmit(x)
    BY <1>0, <1>m, <1>2
  <2> HIDE DEF x
  <2>d. /\ step'[t] = <<"fair", "record", 0>> /\ job'[t] = x
        /\ \A u \in Threads \ {t} : step'[u] = step[u] /\ job'[u] = job[u]
    BY <2>x DEF To, AdmissionTypes
  <2>a. quota[x].active < TenantMax[x]
    BY <2>x, AdmissionConstants DEF NewIsIdle, CanSubmit
  <2>1. AskDoes(t, x)
    BY <1>0, <1>s, <2>x, <2>d, <2>a DEF AskDoes, ThreadFrame
  <2>2. Fitting(t)'
    BY <2>x, <2>d, Triples DEF Fitting
  <2>3. ThreadTypes'
    <3>1. <<"fair", "record", 0>> \in Standing /\ x \in Things
      BY <2>x, StandingMembers DEF Things
    <3> QED  BY <1>0, <2>x, <2>2, <3>1, ThreadTypesAt DEF To
  <2> QED  BY <1>0, <1>t, <2>x, <2>1, <2>3, AdmissionTypesFrom DEF AdmissionTypes
<1> QED  BY <1>1, <1>2

\* can_submit's second half: admitted, or sent away.
WindowDoes(t, x) ==
  /\ ThreadFrame(t) /\ step[t] = <<"fair", "window", 0>> /\ job[t] = x /\ val'[t] = val[t]
  /\ \/ step'[t] = <<"fair", "record", 0>> /\ job'[t] = x
     \/ step'[t] = Out /\ job'[t] = None
  /\ SameActive /\ UNCHANGED <<counter, taken, lost, crowded>>

\* It is one or the other.
LEMMA WindowSteps ==
  ASSUME AdmissionTypes, NEW t \in Threads, NEW x, x = job[t], FairWindow(t)
  PROVE  x \in Tenants /\ WindowDoes(t, x) /\ AdmissionTypes'
<1>0. /\ step[t] = <<"fair", "window", 0>> /\ quota' = [quota EXCEPT ![x] = Rolled(quota[x])]
      /\ \/ To(t, "fair", "record", 0) /\ UNCHANGED job
         \/ Leave(t)
      /\ UNCHANGED <<time, counter, taken, val, lost, crowded>>
  BY DEF FairWindow
<1>x. x \in Tenants
  BY <1>0, Triples DEF AdmissionTypes
<1>r. /\ quota[x] \in Quota /\ Rolled(quota[x]) \in Quota
      /\ Rolled(quota[x]).active = quota[x].active /\ (Rolled(quota[x]).known <=> quota[x].known)
  BY <1>x, RolledIs DEF AdmissionTypes
<1>q. /\ quota' \in [Tenants -> Quota] /\ quota'[x] = Rolled(quota[x])
      /\ \A y \in Tenants \ {x} : quota'[y] = quota[y]
  BY <1>0, <1>x, <1>r DEF AdmissionTypes
<1>s. SameActive
  BY <1>q, <1>r DEF SameActive
<1>d. /\ \/ step'[t] = <<"fair", "record", 0>> /\ job'[t] = x
         \/ step'[t] = Out /\ job'[t] = None
      /\ \A u \in Threads \ {t} : step'[u] = step[u] /\ job'[u] = job[u]
  BY <1>0 DEF To, Leave, AdmissionTypes
<1>1. WindowDoes(t, x)
  BY <1>0, <1>d, <1>s DEF WindowDoes, ThreadFrame
<1>2. Fitting(t)'
  BY <1>x, <1>d, Triples, StandingMembers DEF Fitting
<1>3. ThreadTypes'
  <2>1. <<"fair", "record", 0>> \in Standing /\ Out \in Standing /\ None \in Things
    BY StandingMembers DEF Things
  <2> QED  BY <1>0, <1>2, <2>1, ThreadTypesAt DEF To, Leave
<1> QED  BY <1>0, <1>1, <1>3, <1>q, <1>x, AdmissionTypesFrom DEF AdmissionTypes

\* record_submit.
SubmitDoes(t, x) ==
  /\ ThreadFrame(t) /\ step[t] = <<"fair", "record", 0>> /\ job[t] = x /\ job'[t] = x /\ val'[t] = val[t]
  /\ step'[t] = <<"fair", "held", 0>>
  /\ quota'[x].active = quota[x].active + 1 /\ quota'[x].known
  /\ \A y \in Tenants \ {x} : quota'[y] = quota[y]
  /\ Writes(t, x) /\ UNCHANGED <<counter, taken, crowded>>

\* It counts the job.
LEMMA SubmitSteps ==
  ASSUME AdmissionTypes, NewIsIdle, NEW t \in Threads, NEW x, x = job[t], FairRecordSubmit(t)
  PROVE  x \in Tenants /\ SubmitDoes(t, x) /\ AdmissionTypes'
<1> DEFINE q == [Known(x) EXCEPT !.active = @ + 1, !.count = @ + 1]
<1>0. /\ step[t] = <<"fair", "record", 0>> /\ quota' = [quota EXCEPT ![x] = q]
      /\ To(t, "fair", "held", 0) /\ Writes(t, x)
      /\ UNCHANGED <<time, counter, taken, job, val, crowded>>
  BY DEF FairRecordSubmit
<1>x. x \in Tenants
  BY <1>0, Triples DEF AdmissionTypes
<1>k. /\ q \in Quota /\ q.active = quota[x].active + 1 /\ q.known
  <2>1. Known(x) \in Quota /\ Known(x).known /\ Known(x).active = quota[x].active
    BY <1>x, QuotaTypes DEF NewIsIdle
  <2>2. ASSUME NEW r \in Quota
        PROVE  LET a == [r EXCEPT !.active = @ + 1]
               IN a \in Quota /\ a.active = r.active + 1 /\ a.known = r.known
    BY DEF Quota
  <2>3. ASSUME NEW r \in Quota
        PROVE  LET c == [r EXCEPT !.count = @ + 1]
               IN c \in Quota /\ c.active = r.active /\ c.known = r.known
    BY DEF Quota
  <2>4. ASSUME NEW r \in Quota
        PROVE  [r EXCEPT !.active = @ + 1, !.count = @ + 1]
                 = [[r EXCEPT !.active = @ + 1] EXCEPT !.count = @ + 1]
    OBVIOUS
  <2> DEFINE a == [Known(x) EXCEPT !.active = @ + 1]
  <2>5. a \in Quota /\ a.active = Known(x).active + 1 /\ a.known = Known(x).known
    BY <2>1, <2>2, Zenon
  <2>6. q = [a EXCEPT !.count = @ + 1]
    BY <2>1, <2>4, Zenon
  <2> HIDE DEF q, a
  <2>7. q \in Quota /\ q.active = a.active /\ q.known = a.known
    BY <2>5, <2>6, <2>3, Zenon
  <2> QED  BY <2>1, <2>5, <2>7, Zenon
<1> HIDE DEF q
<1>q. /\ quota' \in [Tenants -> Quota] /\ quota'[x] = q
      /\ \A y \in Tenants \ {x} : quota'[y] = quota[y]
  BY <1>0, <1>x, <1>k DEF AdmissionTypes
<1>d. /\ step'[t] = <<"fair", "held", 0>>
      /\ \A u \in Threads \ {t} : step'[u] = step[u]
  BY <1>0 DEF To, AdmissionTypes
<1>1. SubmitDoes(t, x)
  BY <1>0, <1>d, <1>q, <1>k DEF SubmitDoes, ThreadFrame
<1>2. Fitting(t)'
  BY <1>0, <1>x, <1>d, Triples DEF Fitting
<1>3. ThreadTypes'
  <2>1. <<"fair", "held", 0>> \in Standing
    BY StandingMembers
  <2> QED  BY <1>0, <1>2, <2>1, ThreadTypesAt DEF To
<1> QED  BY <1>0, <1>1, <1>3, <1>q, <1>x, AdmissionTypesFrom DEF AdmissionTypes

\* record_complete: the read.
FairReadDoes(t, x) ==
  /\ ThreadFrame(t) /\ step[t] = <<"fair", "held", 0>> /\ job[t] = x /\ job'[t] = x
  /\ val'[t] = quota[x].active /\ step'[t] = <<"fair", "less", 0>>
  /\ UNCHANGED <<counter, quota, taken, lost, crowded>>

\* It reads the count.
LEMMA FairReadSteps ==
  ASSUME AdmissionTypes, NEW t \in Threads, NEW x, x = job[t], FairRead(t)
  PROVE  x \in Tenants /\ FairReadDoes(t, x) /\ AdmissionTypes'
<1>0. /\ step[t] = <<"fair", "held", 0>> /\ val' = [val EXCEPT ![t] = quota[x].active]
      /\ To(t, "fair", "less", 0) /\ UNCHANGED <<time, counter, quota, taken, job, lost, crowded>>
  BY DEF FairRead, Held, Read
<1>x. x \in Tenants /\ quota[x].active \in Nat
  BY <1>0, Triples DEF AdmissionTypes, Quota
<1>d. /\ step'[t] = <<"fair", "less", 0>> /\ val'[t] = quota[x].active
      /\ \A u \in Threads \ {t} : step'[u] = step[u] /\ val'[u] = val[u]
  BY <1>0 DEF To, AdmissionTypes
<1>1. FairReadDoes(t, x)
  BY <1>0, <1>d DEF FairReadDoes, ThreadFrame
<1>2. Fitting(t)'
  BY <1>0, <1>x, <1>d, Triples DEF Fitting
<1>3. ThreadTypes'
  <2>1. <<"fair", "less", 0>> \in Standing
    BY StandingMembers
  <2> QED  BY <1>0, <1>x, <1>2, <2>1, ThreadTypesAt DEF To
<1> QED  BY <1>0, <1>1, <1>3, <1>x, AdmissionTypesFrom DEF AdmissionTypes

\* record_complete: the write.
CompleteDoes(t, x) ==
  /\ ThreadFrame(t) /\ step[t] = <<"fair", "less", 0>> /\ job[t] = x
  /\ step'[t] = Out /\ job'[t] = None /\ val'[t] = 0
  /\ quota'[x].active = Less1(val[t]) /\ (quota'[x].known <=> quota[x].known)
  /\ \A y \in Tenants \ {x} : quota'[y] = quota[y]
  /\ Writes(t, x) /\ UNCHANGED <<counter, taken, crowded>>

\* It writes one less.
LEMMA CompleteSteps ==
  ASSUME AdmissionTypes, NEW t \in Threads, NEW x, x = job[t], FairComplete(t)
  PROVE  x \in Tenants /\ CompleteDoes(t, x) /\ AdmissionTypes'
<1> DEFINE q == [quota[x] EXCEPT !.active = Less1(val[t])]
<1>0. /\ step[t] = <<"fair", "less", 0>> /\ quota' = [quota EXCEPT ![x] = q]
      /\ val' = [val EXCEPT ![t] = 0] /\ Leave(t) /\ Writes(t, x)
      /\ UNCHANGED <<time, counter, taken, crowded>>
  BY DEF FairComplete, Read
<1>x. x \in Tenants
  BY <1>0, Triples DEF AdmissionTypes
<1>k. q \in Quota /\ q.active = Less1(val[t]) /\ (q.known <=> quota[x].known)
  <2>1. quota[x] \in Quota /\ Less1(val[t]) \in Nat
    BY <1>x DEF AdmissionTypes, Less1
  <2> QED  BY <2>1 DEF Quota
<1> HIDE DEF q
<1>q. /\ quota' \in [Tenants -> Quota] /\ quota'[x] = q
      /\ \A y \in Tenants \ {x} : quota'[y] = quota[y]
  BY <1>0, <1>x, <1>k DEF AdmissionTypes
<1>d. /\ step'[t] = Out /\ job'[t] = None /\ val'[t] = 0
      /\ \A u \in Threads \ {t} : step'[u] = step[u] /\ job'[u] = job[u] /\ val'[u] = val[u]
  BY <1>0 DEF Leave, AdmissionTypes
<1>1. CompleteDoes(t, x)
  BY <1>0, <1>d, <1>q, <1>k DEF CompleteDoes, ThreadFrame
<1>2. Fitting(t)'
  BY <1>d, StandingMembers DEF Fitting
<1>3. ThreadTypes'
  BY <1>0, <1>2, ThreadTypesAt, StandingMembers DEF Leave, Things
<1> QED  BY <1>0, <1>1, <1>3, <1>q, <1>x, AdmissionTypesFrom DEF AdmissionTypes

\* try_acquire.
TakeDoes(t, need) ==
  /\ ThreadFrame(t) /\ step[t] = Out /\ step'[t] = <<"capacity", "held", 0>> /\ job'[t] = need /\ val'[t] = val[t]
  /\ Fits(need)
  /\ \A r \in Resources : taken'[r] = IF taken[r] + need[r] > Total[r] THEN taken[r] ELSE taken[r] + need[r]
  /\ UNCHANGED <<counter, quota, lost, crowded>>

\* It takes what is needed.
LEMMA TakeSteps ==
  ASSUME AdmissionTypes, NEW t \in Threads, NEW need \in Needs, CapacityTryAcquire(t, need)
  PROVE  TakeDoes(t, need) /\ AdmissionTypes'
<1>0. /\ step[t] = Out /\ Fits(need) /\ job' = [job EXCEPT ![t] = need] /\ To(t, "capacity", "held", 0)
      /\ taken' = [r \in Resources |-> IF taken[r] + need[r] > Total[r] THEN taken[r] ELSE taken[r] + need[r]]
      /\ UNCHANGED <<time, counter, quota, val, lost, crowded>>
  BY DEF CapacityTryAcquire
<1>d. /\ step'[t] = <<"capacity", "held", 0>> /\ job'[t] = need
      /\ \A u \in Threads \ {t} : step'[u] = step[u] /\ job'[u] = job[u]
  BY <1>0 DEF To, AdmissionTypes
<1>1. TakeDoes(t, need)
  BY <1>0, <1>d DEF TakeDoes, ThreadFrame
<1>2. Fitting(t)'
  BY <1>d, Triples DEF Fitting
<1>3. ThreadTypes'
  <2>1. <<"capacity", "held", 0>> \in Standing /\ need \in Things
    BY StandingMembers DEF Things
  <2> QED  BY <1>0, <1>2, <2>1, ThreadTypesAt DEF To
<1>4. taken' \in [Resources -> Nat]
  <2>1. \A r \in Resources : taken[r] \in Nat /\ need[r] \in Nat
    BY AdmissionConstants DEF AdmissionTypes
  <2> QED  BY <1>0, <2>1
<1> QED  BY <1>0, <1>1, <1>3, <1>4, AdmissionTypesFrom DEF AdmissionTypes

\* release.
GiveDoes(t, need) ==
  /\ ThreadFrame(t) /\ step[t] = <<"capacity", "held", 0>> /\ job[t] = need
  /\ step'[t] = Out /\ job'[t] = None /\ val'[t] = val[t]
  /\ \A r \in Resources : taken'[r] = IF taken[r] > need[r] THEN taken[r] - need[r] ELSE 0
  /\ UNCHANGED <<counter, quota, lost, crowded>>

\* It gives back what was needed.
LEMMA GiveSteps ==
  ASSUME AdmissionTypes, NEW t \in Threads, NEW need, need = job[t], CapacityRelease(t)
  PROVE  need \in Needs /\ GiveDoes(t, need) /\ AdmissionTypes'
<1>0. /\ step[t] = <<"capacity", "held", 0>> /\ Leave(t)
      /\ taken' = [r \in Resources |-> IF taken[r] > need[r] THEN taken[r] - need[r] ELSE 0]
      /\ UNCHANGED <<time, counter, quota, val, lost, crowded>>
  BY DEF CapacityRelease, Held
<1>n. need \in Needs
  BY <1>0, Triples DEF AdmissionTypes
<1>d. /\ step'[t] = Out /\ job'[t] = None
      /\ \A u \in Threads \ {t} : step'[u] = step[u] /\ job'[u] = job[u]
  BY <1>0 DEF Leave, AdmissionTypes
<1>1. GiveDoes(t, need)
  BY <1>0, <1>d DEF GiveDoes, ThreadFrame
<1>2. Fitting(t)'
  BY <1>d, StandingMembers DEF Fitting
<1>3. ThreadTypes'
  BY <1>0, <1>2, ThreadTypesAt, StandingMembers DEF Leave, Things
<1>4. taken' \in [Resources -> Nat]
  <2>1. \A r \in Resources : taken[r] \in Nat /\ need[r] \in Nat
    BY <1>n, AdmissionConstants DEF AdmissionTypes
  <2> QED  BY <1>0, <2>1
<1> QED  BY <1>0, <1>1, <1>3, <1>4, <1>n, AdmissionTypesFrom DEF AdmissionTypes

\* register_tenant and register_resource, and what moves nobody.
RenewDoes(x) ==
  /\ quota'[x].active = 0 /\ quota'[x].known /\ (quota[x].known => x \in lost')
  /\ \A y \in Tenants \ {x} : quota'[y] = quota[y]
  /\ lost \subseteq lost' /\ lost' \subseteq lost \cup {x} /\ UNCHANGED <<counter, taken, step, job, val, crowded>>
SlotDoes(r) ==
  /\ taken'[r] = 0 /\ (taken[r] > 0 => r \in lost') /\ \A o \in Resources \ {r} : taken'[o] = taken[o]
  /\ lost \subseteq lost' /\ lost' \subseteq lost \cup {r} /\ UNCHANGED <<counter, quota, step, job, val, crowded>>
StillDoes == SameActive /\ UNCHANGED <<counter, taken, step, job, val, lost, crowded>>

\* A tenant gets a new quota.
LEMMA RenewSteps ==
  ASSUME AdmissionTypes, NEW x \in Tenants, RegisterTenant(x)
  PROVE  RenewDoes(x) /\ AdmissionTypes'
<1>0. /\ quota' = [quota EXCEPT ![x] = NewQuota] /\ lost' = IF quota[x].known THEN lost \cup {x} ELSE lost
      /\ UNCHANGED <<time, counter, taken, step, job, val, crowded>>
  BY DEF RegisterTenant
<1>1. NewQuota \in Quota /\ NewQuota.known /\ NewQuota.active = 0
  BY QuotaTypes
<1>2. quota' \in [Tenants -> Quota] /\ quota'[x] = NewQuota /\ \A y \in Tenants \ {x} : quota'[y] = quota[y]
  BY <1>0, <1>1 DEF AdmissionTypes
<1>3. ThreadTypes'
  BY <1>0 DEF AdmissionTypes, ThreadTypes, Things, Fitting
<1>4. RenewDoes(x)
  BY <1>0, <1>1, <1>2 DEF RenewDoes
<1> QED  BY <1>0, <1>2, <1>3, <1>4, AdmissionTypesFrom DEF AdmissionTypes

\* A resource gets a new slot.
LEMMA SlotSteps ==
  ASSUME AdmissionTypes, NEW r \in Resources, RegisterResource(r)
  PROVE  SlotDoes(r) /\ AdmissionTypes'
<1>0. /\ taken' = [taken EXCEPT ![r] = 0] /\ lost' = IF taken[r] > 0 THEN lost \cup {r} ELSE lost
      /\ UNCHANGED <<time, counter, quota, step, job, val, crowded>>
  BY DEF RegisterResource
<1>1. taken' \in [Resources -> Nat]
  BY <1>0 DEF AdmissionTypes
<1>2. ThreadTypes'
  BY <1>0 DEF AdmissionTypes, ThreadTypes, Things, Fitting
<1>3. SlotDoes(r)
  BY <1>0 DEF SlotDoes, AdmissionTypes
<1> QED  BY <1>0, <1>1, <1>2, <1>3, AdmissionTypesFrom DEF AdmissionTypes

\* Time passes, or nothing does.
LEMMA StillSteps ==
  ASSUME AdmissionTypes, TimePasses \/ UNCHANGED admissionVars
  PROVE  StillDoes /\ AdmissionTypes'
<1>1. /\ time' = time \/ time' = time + 1
      /\ UNCHANGED <<counter, quota, taken, step, job, val, lost, crowded>>
  BY DEF TimePasses, admissionVars
<1>2. time' \in Nat /\ StillDoes
  BY <1>1 DEF AdmissionTypes, StillDoes, SameActive
<1>3. ThreadTypes'
  BY <1>1 DEF AdmissionTypes, ThreadTypes, Things, Fitting
<1> QED  BY <1>1, <1>2, <1>3, AdmissionTypesFrom DEF AdmissionTypes

\* What a step of the limiters can be.
ConcurrencyDoes(t) ==
  \/ \E ty \in Types : CheckDoes(t, ty)
  \/ \E i \in 1..4 : AddDoes(t, i) \/ PutDoes(t, i) \/ ReadDoes(t, i) \/ LessDoes(t, i)
FairDoes(t) ==
  \E x \in Tenants : \/ AskDoes(t, x) \/ WindowDoes(t, x) \/ SubmitDoes(t, x)
                     \/ FairReadDoes(t, x) \/ CompleteDoes(t, x)
CapacityDoes(t) == \E need \in Needs : TakeDoes(t, need) \/ GiveDoes(t, need)
AdmissionDoes ==
  \/ \E t \in Threads : ConcurrencyDoes(t) \/ FairDoes(t) \/ CapacityDoes(t)
  \/ \E x \in Tenants : RenewDoes(x)
  \/ \E r \in Resources : SlotDoes(r)
  \/ StillDoes

\* It is one of them, and the types are kept.
LEMMA AdmissionCases ==
  ASSUME AdmissionTypes, NewIsIdle, [AdmissionNext]_admissionVars
  PROVE  AdmissionDoes /\ AdmissionTypes'
<1>1. CASE ConcurrencyNext
  <2>1. PICK t \in Threads : \/ ConcurrencyAdd(t) \/ ConcurrencyPut(t) \/ ConcurrencyRead(t) \/ ConcurrencyLess(t)
                             \/ \E ty \in Types : ConcurrencyCheck(t, ty)
    BY <1>1 DEF ConcurrencyNext
  <2>2. ConcurrencyDoes(t) /\ AdmissionTypes'
    <3>1. CASE ConcurrencyAdd(t)
      <4>1. AddDoes(t, step[t][3]) /\ AdmissionTypes'
        BY <3>1, AddSteps
      <4>2. step[t][3] \in 1..4
        BY <4>1 DEF AddDoes
      <4> QED  BY <4>1, <4>2 DEF ConcurrencyDoes
    <3>2. CASE ConcurrencyPut(t)
      <4>1. PutDoes(t, step[t][3]) /\ AdmissionTypes'
        BY <3>2, PutSteps
      <4>2. step[t][3] \in 1..4
        BY <4>1 DEF PutDoes
      <4> QED  BY <4>1, <4>2 DEF ConcurrencyDoes
    <3>3. CASE ConcurrencyRead(t)
      BY <3>3, ReadSteps DEF ConcurrencyDoes
    <3>4. CASE ConcurrencyLess(t)
      <4>1. LessDoes(t, step[t][3]) /\ AdmissionTypes'
        BY <3>4, LessSteps
      <4>2. step[t][3] \in 1..4
        BY <4>1 DEF LessDoes
      <4> QED  BY <4>1, <4>2 DEF ConcurrencyDoes
    <3>5. CASE \E ty \in Types : ConcurrencyCheck(t, ty)
      BY <3>5, CheckSteps DEF ConcurrencyDoes
    <3> QED  BY <2>1, <3>1, <3>2, <3>3, <3>4, <3>5
  <2> QED  BY <2>2 DEF AdmissionDoes
<1>2. CASE FairNext
  <2>1. CASE TimePasses
    BY <2>1, StillSteps DEF AdmissionDoes
  <2>2. CASE \E x \in Tenants : RegisterTenant(x)
    BY <2>2, RenewSteps DEF AdmissionDoes
  <2>3. ASSUME NEW t \in Threads, FairWindow(t) \/ FairRecordSubmit(t) \/ FairRead(t) \/ FairComplete(t)
        PROVE  AdmissionDoes /\ AdmissionTypes'
    <3>1. CASE FairWindow(t)
      BY <3>1, WindowSteps DEF AdmissionDoes, FairDoes
    <3>2. CASE FairRecordSubmit(t)
      BY <3>2, SubmitSteps DEF AdmissionDoes, FairDoes
    <3>3. CASE FairRead(t)
      BY <3>3, FairReadSteps DEF AdmissionDoes, FairDoes
    <3>4. CASE FairComplete(t)
      BY <3>4, CompleteSteps DEF AdmissionDoes, FairDoes
    <3> QED  BY <2>3, <3>1, <3>2, <3>3, <3>4
  <2>4. ASSUME NEW t \in Threads, NEW x \in Tenants, FairActive(t, x)
        PROVE  AdmissionDoes /\ AdmissionTypes'
    BY <2>4, ActiveSteps DEF AdmissionDoes, FairDoes
  <2>5. ASSUME NEW t \in Threads, NEW cand \in Candidates, PickTenant(t, cand)
        PROVE  AdmissionDoes /\ AdmissionTypes'
    BY <2>5, PickSteps DEF AdmissionDoes, FairDoes, StillDoes
  <2> QED  BY <1>2, <2>1, <2>2, <2>3, <2>4, <2>5 DEF FairNext
<1>3. CASE CapacityNext
  <2>1. ASSUME NEW t \in Threads, CapacityRelease(t)
        PROVE  AdmissionDoes /\ AdmissionTypes'
    BY <2>1, GiveSteps DEF AdmissionDoes, CapacityDoes
  <2>2. ASSUME NEW t \in Threads, NEW need \in Needs, CapacityTryAcquire(t, need)
        PROVE  AdmissionDoes /\ AdmissionTypes'
    BY <2>2, TakeSteps DEF AdmissionDoes, CapacityDoes
  <2>3. CASE \E r \in Resources : RegisterResource(r)
    BY <2>3, SlotSteps DEF AdmissionDoes
  <2> QED  BY <1>3, <2>1, <2>2, <2>3 DEF CapacityNext
<1>4. CASE UNCHANGED admissionVars
  BY <1>4, StillSteps DEF AdmissionDoes
<1> QED  BY <1>1, <1>2, <1>3, <1>4 DEF AdmissionNext

-----------------------------------------------------------------------------
(* The limiters: a tenant without a quota runs nothing.                    *)

\* A thread that runs a tenant's job, or is about to count it out.
Running(t) == step[t][1] = "fair" /\ step[t][2] \in {"held", "less"}

\* Quotas stay, one without a quota has no jobs, and who runs a job has a quota.
LEMMA NewSteps ==
  ASSUME AdmissionTypes, NewIsIdle, AdmissionTypes', AdmissionDoes
  PROVE  NewIsIdle'
<1>0. /\ \A x \in Tenants : ~quota[x].known => quota[x].active = 0
      /\ \A t \in Threads : Running(t) => job[t] \in Tenants /\ quota[job[t]].known
  BY DEF NewIsIdle, Running, AdmissionTypes
<1>s. ASSUME \A x \in Tenants : ~quota'[x].known => quota'[x].active = 0,
             \A t \in Threads : Running(t)' => quota'[job'[t]].known
      PROVE  NewIsIdle'
  BY <1>s DEF NewIsIdle, Running
<1>a. ASSUME SameActive
      PROVE  /\ \A x \in Tenants : ~quota'[x].known => quota'[x].active = 0
             /\ \A x \in Tenants : quota[x].known => quota'[x].known
  BY <1>0, <1>a DEF SameActive
<1>f. ASSUME NEW t \in Threads, ThreadFrame(t), Running(t)' => quota'[job'[t]].known,
             \A x \in Tenants : quota[x].known => quota'[x].known
      PROVE  \A u \in Threads : Running(u)' => quota'[job'[u]].known
  <2> SUFFICES ASSUME NEW u \in Threads, Running(u)', u # t
               PROVE  quota'[job'[u]].known
    BY <1>f
  <2>1. step'[u] = step[u] /\ job'[u] = job[u]
    BY <1>f DEF ThreadFrame
  <2>2. Running(u)
    BY <2>1 DEF Running
  <2> QED  BY <1>0, <1>f, <2>1, <2>2
<1>n. ASSUME UNCHANGED <<step, job>>, \A x \in Tenants : quota[x].known => quota'[x].known
      PROVE  \A u \in Threads : Running(u)' => quota'[job'[u]].known
  BY <1>0, <1>n DEF Running
<1>u. ASSUME quota' = quota
      PROVE  SameActive
  BY <1>u DEF SameActive
<1>1. ASSUME NEW t \in Threads, ConcurrencyDoes(t) \/ CapacityDoes(t)
      PROVE  NewIsIdle'
  <2>1. ThreadFrame(t) /\ quota' = quota
    BY <1>1 DEF ConcurrencyDoes, CapacityDoes, CheckDoes, AddDoes, PutDoes, ReadDoes, LessDoes, TakeDoes, GiveDoes
  <2>2. step'[t][1] # "fair"
    BY <1>1, Triples, StandingMembers
    DEF ConcurrencyDoes, CapacityDoes, CheckDoes, AddDoes, PutDoes, ReadDoes, LessDoes, TakeDoes, GiveDoes
  <2>3. ~Running(t)'
    BY <2>2 DEF Running
  <2> QED  BY <1>s, <1>a, <1>f, <1>u, <2>1, <2>3
<1>2. ASSUME NEW t \in Threads, NEW x \in Tenants, AskDoes(t, x) \/ WindowDoes(t, x)
      PROVE  NewIsIdle'
  <2>1. ThreadFrame(t) /\ SameActive
    BY <1>2 DEF AskDoes, WindowDoes
  <2>2. step'[t][2] \notin {"held", "less"}
    BY <1>2, Triples, StandingMembers DEF AskDoes, WindowDoes
  <2>3. ~Running(t)'
    BY <2>2 DEF Running
  <2> QED  BY <1>s, <1>a, <1>f, <2>1, <2>3
<1>3. ASSUME NEW t \in Threads, NEW x \in Tenants, SubmitDoes(t, x)
      PROVE  NewIsIdle'
  <2>1. ThreadFrame(t) /\ quota'[x].known /\ job'[t] = x /\ \A y \in Tenants \ {x} : quota'[y] = quota[y]
    BY <1>3 DEF SubmitDoes
  <2>2. /\ \A y \in Tenants : ~quota'[y].known => quota'[y].active = 0
        /\ \A y \in Tenants : quota[y].known => quota'[y].known
    BY <1>0, <2>1
  <2> QED  BY <1>s, <1>f, <2>1, <2>2
<1>4. ASSUME NEW t \in Threads, NEW x \in Tenants, FairReadDoes(t, x)
      PROVE  NewIsIdle'
  <2>1. ThreadFrame(t) /\ quota' = quota /\ job'[t] = x /\ job[t] = x /\ step[t] = <<"fair", "held", 0>>
    BY <1>4 DEF FairReadDoes
  <2>2. Running(t)
    BY <2>1, Triples DEF Running
  <2> QED  BY <1>0, <1>s, <1>a, <1>f, <1>u, <2>1, <2>2
<1>5. ASSUME NEW t \in Threads, NEW x \in Tenants, CompleteDoes(t, x)
      PROVE  NewIsIdle'
  <2>1. /\ ThreadFrame(t) /\ (quota'[x].known <=> quota[x].known) /\ \A y \in Tenants \ {x} : quota'[y] = quota[y]
        /\ job[t] = x /\ step[t] = <<"fair", "less", 0>> /\ step'[t] = Out
    BY <1>5 DEF CompleteDoes
  <2>2. Running(t) /\ ~Running(t)'
    BY <2>1, Triples, StandingMembers DEF Running
  <2>3. quota'[x].known
    BY <1>0, <2>1, <2>2
  <2>4. /\ \A y \in Tenants : ~quota'[y].known => quota'[y].active = 0
        /\ \A y \in Tenants : quota[y].known => quota'[y].known
    BY <1>0, <2>1, <2>3
  <2> QED  BY <1>s, <1>f, <2>1, <2>2, <2>4
<1>6. ASSUME NEW x \in Tenants, RenewDoes(x)
      PROVE  NewIsIdle'
  <2>1. UNCHANGED <<step, job>> /\ quota'[x].known /\ \A y \in Tenants \ {x} : quota'[y] = quota[y]
    BY <1>6 DEF RenewDoes
  <2>2. /\ \A y \in Tenants : ~quota'[y].known => quota'[y].active = 0
        /\ \A y \in Tenants : quota[y].known => quota'[y].known
    BY <1>0, <2>1
  <2> QED  BY <1>s, <1>n, <2>1, <2>2
<1>7. CASE StillDoes \/ \E r \in Resources : SlotDoes(r)
  <2>1. SameActive /\ UNCHANGED <<step, job>>
    BY <1>7, <1>u DEF StillDoes, SlotDoes
  <2> QED  BY <1>s, <1>a, <1>n, <2>1
<1> QED  BY <1>1, <1>2, <1>3, <1>4, <1>5, <1>6, <1>7 DEF AdmissionDoes, FairDoes

\* Nothing runs at first.
LEMMA AdmissionStarts == AdmissionInit => AdmissionTypes /\ NewIsIdle
<1> SUFFICES ASSUME AdmissionInit
             PROVE  AdmissionTypes /\ NewIsIdle
  OBVIOUS
<1>1. /\ time = 0 /\ counter = [k \in Counters |-> 0] /\ taken = [r \in Resources |-> 0]
      /\ step = [t \in Threads |-> Out] /\ job = [t \in Threads |-> None] /\ val = [t \in Threads |-> 0]
  BY DEF AdmissionInit
<1>2. quota \in [Tenants -> Quota] /\ \A x \in Tenants : quota[x].active = 0
  BY DEF AdmissionInit, Quota
<1>3. \A t \in Threads : step[t] = Out /\ step[t][1] = "none"
  BY <1>1, StandingMembers
<1>4. AdmissionTypes
  BY <1>1, <1>2, <1>3, StandingMembers DEF AdmissionTypes
<1>5. NewIsIdle
  BY <1>2, <1>3 DEF NewIsIdle
<1> QED  BY <1>4, <1>5

\* The types and the idleness of tenants without a quota are kept.
LEMMA AdmissionKeeps ==
  AdmissionTypes /\ NewIsIdle /\ [AdmissionNext]_admissionVars => (AdmissionTypes /\ NewIsIdle)' /\ AdmissionDoes
BY AdmissionCases, NewSteps

\* next_eligible_tenant is fair, for lists of candidates of every length, with
\* repetitions or not, all weights (zero and negative ones count as 0.01) and
\* all limits above zero of each tenant: the one it picks may submit and nobody
\* who may is served less for its weight.
THEOREM PicksAreFair == AdmissionSpec => []PickIsFair
<1>1. AdmissionInit => AdmissionTypes /\ NewIsIdle
  BY AdmissionStarts
<1>2. (AdmissionTypes /\ NewIsIdle) /\ [AdmissionNext]_admissionVars => (AdmissionTypes /\ NewIsIdle)'
  BY AdmissionKeeps
<1>3. AdmissionTypes /\ NewIsIdle => PickIsFair
  BY PickFair
<1> QED  BY <1>1, <1>2, <1>3, PTL DEF AdmissionSpec

-----------------------------------------------------------------------------
(* The limiters: the counters are exact.                                   *)

\* Counted and HasRead of a thread that stands at p with job j.
DimsOf(j) == <<"global", j, "tenant", "user">>
CountedIn(p, j, k) ==
  \/ /\ p[1] = "concurrency"
     /\ \E h \in 1..4 : /\ DimsOf(j)[h] = k
                        /\ CASE p[2] \in {"add", "put"} -> h < p[3]
                             [] p[2] \in {"sub", "less"} -> h >= p[3]
                             [] p[2] = "held" -> TRUE
  \/ p[1] = "fair" /\ p[2] \in {"held", "less"} /\ j = k
ReadIn(p, j, k) == \/ p[1] = "concurrency" /\ p[2] \in {"put", "less"} /\ DimsOf(j)[p[3]] = k
                   \/ p = <<"fair", "less", 0>> /\ j = k

\* They are.
LEMMA CountedIs ==
  ASSUME NEW t, NEW k
  PROVE  /\ Counted(t, k) <=> CountedIn(step[t], job[t], k)
         /\ Counted(t, k)' <=> CountedIn(step'[t], job'[t], k)
         /\ HasRead(t, k) <=> ReadIn(step[t], job[t], k)
         /\ HasRead(t, k)' <=> ReadIn(step'[t], job'[t], k)
<1>1. Counted(t, k) <=> CountedIn(step[t], job[t], k)
  BY Zenon DEF Counted, CountedIn, Dims, DimsOf
<1>2. Counted(t, k)' <=> CountedIn(step'[t], job'[t], k)
  BY Zenon DEF Counted, CountedIn, Dims, DimsOf
<1>3. HasRead(t, k) <=> ReadIn(step[t], job[t], k)
  BY Zenon DEF HasRead, ReadIn, Dims, DimsOf
<1>4. HasRead(t, k)' <=> ReadIn(step'[t], job'[t], k)
  BY Zenon DEF HasRead, ReadIn, Dims, DimsOf
<1> QED  BY <1>1, <1>2, <1>3, <1>4

\* Where a thread of the concurrency manager is counted.
LEMMA ConcurrencyCounted ==
  ASSUME NEW p, NEW j, NEW k, p[1] = "concurrency"
  PROVE  /\ p[2] \in {"add", "put"} => (CountedIn(p, j, k) <=> \E h \in 1..4 : DimsOf(j)[h] = k /\ h < p[3])
         /\ p[2] \in {"sub", "less"} => (CountedIn(p, j, k) <=> \E h \in 1..4 : DimsOf(j)[h] = k /\ h >= p[3])
         /\ p[2] = "held" => (CountedIn(p, j, k) <=> \E h \in 1..4 : DimsOf(j)[h] = k)
         /\ p[2] \in {"add", "sub", "held"} => ~ReadIn(p, j, k)
         /\ p[2] \in {"put", "less"} => (ReadIn(p, j, k) <=> DimsOf(j)[p[3]] = k)
<1>1. p # <<"fair", "less", 0>>
  BY Triples
<1>2. p[2] \in {"add", "put"} => (CountedIn(p, j, k) <=> \E h \in 1..4 : DimsOf(j)[h] = k /\ h < p[3])
  BY DEF CountedIn
<1>3. p[2] \in {"sub", "less"} => (CountedIn(p, j, k) <=> \E h \in 1..4 : DimsOf(j)[h] = k /\ h >= p[3])
  BY DEF CountedIn
<1>4. p[2] = "held" => (CountedIn(p, j, k) <=> \E h \in 1..4 : DimsOf(j)[h] = k)
  BY DEF CountedIn
<1>5. /\ p[2] \in {"add", "sub", "held"} => ~ReadIn(p, j, k)
      /\ p[2] \in {"put", "less"} => (ReadIn(p, j, k) <=> DimsOf(j)[p[3]] = k)
  BY <1>1 DEF ReadIn
<1> QED  BY <1>2, <1>3, <1>4, <1>5

\* Where the others are.
LEMMA FairCounted ==
  ASSUME NEW j, NEW k
  PROVE  /\ ~CountedIn(Out, j, k) /\ ~ReadIn(Out, j, k)
         /\ ~CountedIn(<<"capacity", "held", 0>>, j, k) /\ ~ReadIn(<<"capacity", "held", 0>>, j, k)
         /\ \A c \in {"window", "record"} : ~CountedIn(<<"fair", c, 0>>, j, k) /\ ~ReadIn(<<"fair", c, 0>>, j, k)
         /\ CountedIn(<<"fair", "held", 0>>, j, k) <=> j = k
         /\ ~ReadIn(<<"fair", "held", 0>>, j, k)
         /\ CountedIn(<<"fair", "less", 0>>, j, k) <=> j = k
         /\ ReadIn(<<"fair", "less", 0>>, j, k) <=> j = k
BY Triples DEF CountedIn, ReadIn, Out

\* What a step of thread t does to counter k: nothing, one more, one less.
InOrder(t, k) ==
  /\ Value(k)' = Value(k)
  /\ CountedIn(step'[t], job'[t], k) <=> CountedIn(step[t], job[t], k)
  /\ ReadIn(step'[t], job'[t], k) => val'[t] = Value(k)
OneMore(t, k) ==
  /\ Value(k)' = Value(k) + 1
  /\ ~CountedIn(step[t], job[t], k) /\ CountedIn(step'[t], job'[t], k) /\ ~ReadIn(step'[t], job'[t], k)
  /\ Writes(t, k)
OneLess(t, k) ==
  /\ Value(k)' = Less1(Value(k))
  /\ CountedIn(step[t], job[t], k) /\ ~CountedIn(step'[t], job'[t], k) /\ ~ReadIn(step'[t], job'[t], k)
  /\ Writes(t, k)
ExactAt(k) == Value(k) = Cardinality({t \in Threads : Counted(t, k)})
ReadAt(k) == \A t \in Threads : HasRead(t, k) => val[t] = Value(k)

\* Then k is exact after it if it was before, and so is what was read of it.
LEMMA CountAt ==
  ASSUME AdmissionTypes, NEW t \in Threads, ThreadFrame(t), NEW k, k \notin lost', Value(k) \in Nat,
         ExactAt(k), ReadAt(k), InOrder(t, k) \/ OneMore(t, k) \/ OneLess(t, k)
  PROVE  ExactAt(k)' /\ ReadAt(k)'
<1> DEFINE S == {u \in Threads : Counted(u, k)}
           T == {u \in Threads : CountedIn(step'[u], job'[u], k)}
<1>0. /\ S = {u \in Threads : CountedIn(step[u], job[u], k)} /\ IsFiniteSet(S) /\ Value(k) = Cardinality(S)
  <2>1. IsFiniteSet(Threads) /\ S \subseteq Threads
    BY AdmissionConstants
  <2>2. IsFiniteSet(S)
    BY <2>1, FS_Subset
  <2>3. S = {u \in Threads : CountedIn(step[u], job[u], k)}
    BY CountedIs
  <2> QED  BY <2>2, <2>3 DEF ExactAt
<1>1. T = {u \in Threads : Counted(u, k)'}
  BY CountedIs
<1>2. \A u \in Threads \ {t} : /\ CountedIn(step'[u], job'[u], k) <=> CountedIn(step[u], job[u], k)
                               /\ ReadIn(step'[u], job'[u], k) <=> HasRead(u, k)
                               /\ val'[u] = val[u]
  BY CountedIs DEF ThreadFrame
<1>3. ASSUME Value(k)' = Cardinality(T),
             \A u \in Threads : ReadIn(step'[u], job'[u], k) => val'[u] = Value(k)'
      PROVE  ExactAt(k)' /\ ReadAt(k)'
  <2>1. ExactAt(k)'
    BY <1>1, <1>3 DEF ExactAt
  <2>2. ReadAt(k)'
    BY <1>3, CountedIs DEF ReadAt
  <2> QED  BY <2>1, <2>2
<1>w. ASSUME Writes(t, k)
      PROVE  \A u \in Threads \ {t} : ~HasRead(u, k)
  BY <1>w DEF Writes
<1> HIDE DEF S, T
<1>4. CASE InOrder(t, k)
  <2>1. T = S
    BY <1>0, <1>2, <1>4 DEF S, T, InOrder
  <2>2. \A u \in Threads : ReadIn(step'[u], job'[u], k) => val'[u] = Value(k)
    BY <1>2, <1>4 DEF InOrder, ReadAt
  <2>3. Value(k)' = Value(k)
    BY <1>4 DEF InOrder
  <2> QED  BY <1>0, <1>3, <2>1, <2>2, <2>3
<1>5. CASE OneMore(t, k)
  <2>1. T = S \cup {t} /\ t \notin S
    BY <1>0, <1>2, <1>5 DEF S, T, OneMore
  <2>2. Cardinality(T) = Cardinality(S) + 1
    BY <1>0, <2>1, FS_AddElement
  <2>3. \A u \in Threads : ~ReadIn(step'[u], job'[u], k)
    BY <1>2, <1>5, <1>w DEF OneMore
  <2>4. Value(k)' = Value(k) + 1
    BY <1>5 DEF OneMore
  <2> QED  BY <1>0, <1>3, <2>2, <2>3, <2>4
<1>6. CASE OneLess(t, k)
  <2>1. T = S \ {t} /\ t \in S
    BY <1>0, <1>2, <1>6 DEF S, T, OneLess
  <2>2. Cardinality(T) = Cardinality(S) - 1 /\ IsFiniteSet(T)
    BY <1>0, <2>1, FS_RemoveElement
  <2>5. Cardinality(T) \in Nat /\ Cardinality(S) \in Nat
    BY <1>0, <2>2, FS_CardinalityType
  <2>3. \A u \in Threads : ~ReadIn(step'[u], job'[u], k)
    BY <1>2, <1>6, <1>w DEF OneLess
  <2>4. Value(k)' = Less1(Value(k))
    BY <1>6 DEF OneLess
  <2>6. Value(k)' = Cardinality(T)
    BY <1>0, <2>2, <2>4, <2>5 DEF Less1
  <2> QED  BY <1>3, <2>3, <2>6
<1> QED  BY <1>4, <1>5, <1>6

\* The counters by name.
LEMMA ValueIs ==
  ASSUME AdmissionTypes
  PROVE  /\ \A k \in Counters : k \notin Tenants /\ Value(k) = counter[k] /\ Value(k)' = counter'[k] /\ Value(k) \in Nat
         /\ \A k \in Tenants : /\ k \notin Counters /\ Value(k) \in Nat
                               /\ Value(k) = quota[k].active /\ Value(k)' = quota'[k].active
<1>1. \A k \in Counters : k \notin Tenants
  BY AdmissionConstants
<1>2. \A k \in Tenants : quota[k] \in Quota
  BY DEF AdmissionTypes
<1>3. \A k \in Tenants : quota[k].active \in Nat
  BY <1>2 DEF Quota
<1>4. \A k \in Counters : counter[k] \in Nat
  BY DEF AdmissionTypes
<1> QED  BY <1>1, <1>3, <1>4 DEF Value

\* The four counters of a job of type j.
LEMMA DimsOfAre ==
  ASSUME NEW j \in Types
  PROVE  /\ DimsOf(j)[1] = "global"
         /\ \A i \in 1..4 : DimsOf(j)[i] \in Counters
         /\ \A i, h \in 1..4 : DimsOf(j)[i] = DimsOf(j)[h] => i = h
<1>1. DimsOf(j)[1] = "global" /\ DimsOf(j)[2] = j /\ DimsOf(j)[3] = "tenant" /\ DimsOf(j)[4] = "user"
  BY DEF DimsOf
<1>2. \A i \in 1..4 : i = 1 \/ i = 2 \/ i = 3 \/ i = 4
  OBVIOUS
<1>3. j \notin {"global", "tenant", "user"} /\ j \in Counters /\ {"global", "tenant", "user"} \subseteq Counters
  BY AdmissionConstants
<1>4. \A i \in 1..4 : DimsOf(j)[i] \in Counters
  BY <1>1, <1>2, <1>3
<1>5. \A i, h \in 1..4 : DimsOf(j)[i] = DimsOf(j)[h] => i = h
  BY <1>1, <1>2, <1>3
<1> QED  BY <1>1, <1>4, <1>5

\* Moved(t, k): k counts t as it should.
Moved(t, k) == InOrder(t, k) \/ OneMore(t, k) \/ OneLess(t, k)
Names == Counters \cup Tenants

\* A step that writes no counter.
LEMMA SameValues ==
  ASSUME AdmissionTypes, counter' = counter, quota' = quota \/ SameActive
  PROVE  \A k \in Names : Value(k)' = Value(k)
BY ValueIs DEF SameActive, Names

\* acquire, after the check: the global counter, or the read of another.
LEMMA AddCounts ==
  ASSUME AdmissionTypes, NEW t \in Threads, NEW i \in 1..4, AddDoes(t, i), NEW k \in Names
  PROVE  Moved(t, k)
<1> DEFINE j == job[t]
<1>0. j \in Types /\ step[t] = <<"concurrency", "add", i>> /\ job'[t] = j /\ Dims(t) = DimsOf(j) /\ quota' = quota
  BY DEF AddDoes, Dims, DimsOf
<1>d. /\ DimsOf(j)[1] = "global" /\ \A h \in 1..4 : DimsOf(j)[h] \in Counters
      /\ \A h, g \in 1..4 : DimsOf(j)[h] = DimsOf(j)[g] => h = g
  BY <1>0, DimsOfAre
<1> HIDE DEF j
<1>p. step[t][1] = "concurrency" /\ step[t][2] = "add" /\ step[t][3] = i
  BY <1>0, Triples
<1>b. CountedIn(step[t], j, k) <=> \E h \in 1..4 : DimsOf(j)[h] = k /\ h < i
  BY <1>p, ConcurrencyCounted
<1>1. CASE i = 1 /\ step'[t] = <<"concurrency", "add", 2>>
  <2>0. counter' = [counter EXCEPT !["global"] = @ + 1] /\ Writes(t, "global")
    BY <1>1, Triples DEF AddDoes
  <2>p. step'[t][1] = "concurrency" /\ step'[t][2] = "add" /\ step'[t][3] = 2
    BY <1>1, Triples
  <2>1. CountedIn(step'[t], j, k) <=> \E h \in 1..4 : DimsOf(j)[h] = k /\ h < 2
    BY <2>p, ConcurrencyCounted
  <2>2. ~ReadIn(step'[t], j, k)
    BY <2>p, ConcurrencyCounted
  <2>3. CASE k = "global"
    <3>1. k \in Counters /\ 1 \in 1..4 /\ DimsOf(j)[1] = k
      BY <1>d, <2>3
    <3>2. Value(k)' = Value(k) + 1
      BY <2>0, <2>3, <3>1, ValueIs DEF AdmissionTypes
    <3>3. ~CountedIn(step[t], j, k) /\ CountedIn(step'[t], j, k)
      BY <1>1, <1>b, <2>1, <3>1
    <3> QED  BY <1>0, <2>0, <2>2, <2>3, <3>2, <3>3 DEF Moved, OneMore, j
  <2>4. CASE k # "global"
    <3>1. Value(k)' = Value(k)
      BY <1>0, <2>0, <2>4, ValueIs DEF AdmissionTypes, Names
    <3>2. ~CountedIn(step[t], j, k) /\ ~CountedIn(step'[t], j, k)
      BY <1>1, <1>b, <1>d, <2>1, <2>4
    <3> QED  BY <1>0, <2>2, <3>1, <3>2 DEF Moved, InOrder, j
  <2> QED  BY <2>3, <2>4
<1>2. CASE ~(i = 1 /\ step'[t] = <<"concurrency", "add", 2>>)
  <2>0. counter' = counter /\ val'[t] = counter[DimsOf(j)[i]] /\ step'[t] = <<"concurrency", "put", i>>
    BY <1>0, <1>2 DEF AddDoes
  <2>p. step'[t][1] = "concurrency" /\ step'[t][2] = "put" /\ step'[t][3] = i
    BY <2>0, Triples
  <2>1. CountedIn(step'[t], j, k) <=> \E h \in 1..4 : DimsOf(j)[h] = k /\ h < i
    BY <2>p, ConcurrencyCounted
  <2>2. ReadIn(step'[t], j, k) => val'[t] = Value(k)
    <3>1. ReadIn(step'[t], j, k) <=> DimsOf(j)[i] = k
      BY <2>p, ConcurrencyCounted
    <3> QED  BY <1>d, <2>0, <3>1, ValueIs
  <2>3. Value(k)' = Value(k)
    BY <1>0, <2>0, SameValues
  <2> QED  BY <1>0, <1>b, <2>1, <2>2, <2>3 DEF Moved, InOrder, j
<1> QED  BY <1>1, <1>2

\* acquire: the write.
LEMMA PutCounts ==
  ASSUME AdmissionTypes, NEW t \in Threads, NEW i \in 1..4, PutDoes(t, i), NEW k \in Names,
         ReadAt(k)
  PROVE  Moved(t, k)
<1> DEFINE j == job[t]
           d == DimsOf(j)[i]
<1>0. /\ j \in Types /\ step[t] = <<"concurrency", "put", i>> /\ job'[t] = j /\ Dims(t) = DimsOf(j) /\ quota' = quota
      /\ i \in 2..4 /\ counter' = [counter EXCEPT ![d] = val[t] + 1] /\ Writes(t, d)
      /\ step'[t] = IF i < 4 THEN <<"concurrency", "add", i + 1>> ELSE <<"concurrency", "held", 0>>
  BY DEF PutDoes, Dims, DimsOf
<1>d. /\ d \in Counters /\ \A h, g \in 1..4 : DimsOf(j)[h] = DimsOf(j)[g] => h = g
  BY <1>0, DimsOfAre
<1>e. DimsOf(j)[i] = d
  OBVIOUS
<1> HIDE DEF j, d
<1>p. /\ step[t][1] = "concurrency" /\ step[t][2] = "put" /\ step[t][3] = i /\ step'[t][1] = "concurrency"
      /\ i < 4 => step'[t][2] = "add" /\ step'[t][3] = i + 1
      /\ ~(i < 4) => step'[t][2] = "held"
  BY <1>0, Triples
<1>b. CountedIn(step[t], j, k) <=> \E h \in 1..4 : DimsOf(j)[h] = k /\ h < i
  BY <1>p, ConcurrencyCounted
<1>a. CountedIn(step'[t], j, k) <=> \E h \in 1..4 : DimsOf(j)[h] = k /\ h <= i
  <2>1. CASE i < 4
    <3>1. CountedIn(step'[t], j, k) <=> \E h \in 1..4 : DimsOf(j)[h] = k /\ h < i + 1
      BY <1>p, <2>1, ConcurrencyCounted
    <3>2. \A h \in 1..4 : h < i + 1 <=> h <= i
      OBVIOUS
    <3> QED  BY <3>1, <3>2
  <2>2. CASE ~(i < 4)
    <3>1. CountedIn(step'[t], j, k) <=> \E h \in 1..4 : DimsOf(j)[h] = k
      BY <1>p, <2>2, ConcurrencyCounted
    <3>2. \A h \in 1..4 : h <= i
      BY <2>2
    <3> QED  BY <3>1, <3>2
  <2> QED  BY <2>1, <2>2
<1>r. ~ReadIn(step'[t], j, k)
  BY <1>p, ConcurrencyCounted
<1>1. CASE k = d
  <2>1. val[t] = counter[d]
    <3>0. ReadIn(step[t], j, k)
      BY <1>p, <1>1, <1>e, ConcurrencyCounted
    <3>1. HasRead(t, k)
      BY <3>0, CountedIs DEF j
    <3> QED  BY <1>1, <1>d, <3>1, ValueIs DEF ReadAt
  <2>2. Value(k)' = Value(k) + 1
    BY <1>0, <1>1, <1>d, <2>1, ValueIs DEF AdmissionTypes
  <2>3. ~CountedIn(step[t], j, k) /\ CountedIn(step'[t], j, k)
    BY <1>1, <1>a, <1>b, <1>d, <1>e
  <2> QED  BY <1>0, <1>1, <1>r, <2>2, <2>3 DEF Moved, OneMore, j
<1>2. CASE k # d
  <2>1. Value(k)' = Value(k)
    BY <1>0, <1>2, ValueIs DEF AdmissionTypes, Names
  <2>2. CountedIn(step'[t], j, k) <=> CountedIn(step[t], j, k)
    <3>1. \A h \in 1..4 : h <= i /\ h # i => h < i
      OBVIOUS
    <3>2. \A h \in 1..4 : h < i => h <= i
      OBVIOUS
    <3> QED  BY <1>2, <1>a, <1>b, <1>e, <3>1, <3>2
  <2> QED  BY <1>0, <1>r, <2>1, <2>2 DEF Moved, InOrder, j
<1> QED  BY <1>1, <1>2

\* release: the read.
LEMMA ReadCounts ==
  ASSUME AdmissionTypes, NEW t \in Threads, NEW i \in 1..4, ReadDoes(t, i), NEW k \in Names
  PROVE  Moved(t, k)
<1> DEFINE j == job[t]
<1>0. /\ j \in Types /\ job'[t] = j /\ Dims(t) = DimsOf(j) /\ quota' = quota /\ counter' = counter
      /\ step[t] = <<"concurrency", "sub", i>> \/ (i = 1 /\ step[t] = <<"concurrency", "held", 0>>)
      /\ val'[t] = counter[DimsOf(j)[i]] /\ step'[t] = <<"concurrency", "less", i>>
  BY DEF ReadDoes, Dims, DimsOf
<1>d. \A h \in 1..4 : DimsOf(j)[h] \in Counters
  BY <1>0, DimsOfAre
<1> HIDE DEF j
<1>p. /\ step[t][1] = "concurrency" /\ step'[t][1] = "concurrency" /\ step'[t][2] = "less" /\ step'[t][3] = i
      /\ (step[t][2] = "sub" /\ step[t][3] = i) \/ (step[t][2] = "held" /\ i = 1)
  BY <1>0, Triples
<1>b. CountedIn(step[t], j, k) <=> \E h \in 1..4 : DimsOf(j)[h] = k /\ h >= i
  BY <1>p, ConcurrencyCounted
<1>a. CountedIn(step'[t], j, k) <=> \E h \in 1..4 : DimsOf(j)[h] = k /\ h >= i
  BY <1>p, ConcurrencyCounted
<1>r. ReadIn(step'[t], j, k) => val'[t] = Value(k)
  <2>1. ReadIn(step'[t], j, k) <=> DimsOf(j)[i] = k
    BY <1>p, ConcurrencyCounted
  <2> QED  BY <1>0, <1>d, <2>1, ValueIs
<1>v. Value(k)' = Value(k)
  BY <1>0, SameValues
<1> QED  BY <1>0, <1>a, <1>b, <1>r, <1>v DEF Moved, InOrder, j

\* release: the write.
LEMMA LessCounts ==
  ASSUME AdmissionTypes, NEW t \in Threads, NEW i \in 1..4, LessDoes(t, i), NEW k \in Names,
         ReadAt(k)
  PROVE  Moved(t, k)
<1> DEFINE j == job[t]
           d == DimsOf(j)[i]
<1>0. /\ j \in Types /\ step[t] = <<"concurrency", "less", i>> /\ Dims(t) = DimsOf(j) /\ quota' = quota
      /\ counter' = [counter EXCEPT ![d] = Less1(val[t])] /\ Writes(t, d)
      /\ \/ i < 4 /\ step'[t] = <<"concurrency", "sub", i + 1>> /\ job'[t] = j
         \/ i = 4 /\ step'[t] = Out
  BY DEF LessDoes, Dims, DimsOf
<1>d. /\ d \in Counters /\ \A h, g \in 1..4 : DimsOf(j)[h] = DimsOf(j)[g] => h = g
  BY <1>0, DimsOfAre
<1>e. DimsOf(j)[i] = d
  OBVIOUS
<1> HIDE DEF j, d
<1>p. /\ step[t][1] = "concurrency" /\ step[t][2] = "less" /\ step[t][3] = i
      /\ i < 4 => step'[t][1] = "concurrency" /\ step'[t][2] = "sub" /\ step'[t][3] = i + 1
  BY <1>0, Triples
<1>b. CountedIn(step[t], j, k) <=> \E h \in 1..4 : DimsOf(j)[h] = k /\ h >= i
  BY <1>p, ConcurrencyCounted
<1>a. CountedIn(step'[t], job'[t], k) <=> \E h \in 1..4 : DimsOf(j)[h] = k /\ h > i
  <2>1. CASE i < 4
    <3>1. CountedIn(step'[t], j, k) <=> \E h \in 1..4 : DimsOf(j)[h] = k /\ h >= i + 1
      BY <1>p, <2>1, ConcurrencyCounted
    <3>2. \A h \in 1..4 : h >= i + 1 <=> h > i
      OBVIOUS
    <3> QED  BY <1>0, <2>1, <3>1, <3>2
  <2>2. CASE ~(i < 4)
    <3>1. ~CountedIn(step'[t], job'[t], k)
      BY <1>0, <2>2, FairCounted
    <3>2. \A h \in 1..4 : ~(h > i)
      BY <2>2
    <3> QED  BY <3>1, <3>2
  <2> QED  BY <2>1, <2>2
<1>r. ~ReadIn(step'[t], job'[t], k)
  <2>1. CASE i < 4
    BY <1>p, <2>1, ConcurrencyCounted
  <2>2. CASE ~(i < 4)
    BY <1>0, <2>2, FairCounted
  <2> QED  BY <2>1, <2>2
<1>1. CASE k = d
  <2>1. val[t] = counter[d]
    <3>0. ReadIn(step[t], j, k)
      BY <1>p, <1>1, <1>e, ConcurrencyCounted
    <3>1. HasRead(t, k)
      BY <3>0, CountedIs DEF j
    <3> QED  BY <1>1, <1>d, <3>1, ValueIs DEF ReadAt
  <2>2. Value(k)' = Less1(Value(k))
    BY <1>0, <1>1, <1>d, <2>1, ValueIs DEF AdmissionTypes
  <2>3. CountedIn(step[t], j, k) /\ ~CountedIn(step'[t], job'[t], k)
    BY <1>1, <1>a, <1>b, <1>d, <1>e
  <2> QED  BY <1>0, <1>1, <1>r, <2>2, <2>3 DEF Moved, OneLess, j
<1>2. CASE k # d
  <2>1. Value(k)' = Value(k)
    BY <1>0, <1>2, ValueIs DEF AdmissionTypes, Names
  <2>2. CountedIn(step'[t], job'[t], k) <=> CountedIn(step[t], j, k)
    <3>1. \A h \in 1..4 : h >= i /\ h # i => h > i
      OBVIOUS
    <3>2. \A h \in 1..4 : h > i => h >= i
      OBVIOUS
    <3> QED  BY <1>2, <1>a, <1>b, <1>e, <3>1, <3>2
  <2> QED  BY <1>0, <1>r, <2>1, <2>2 DEF Moved, InOrder, j
<1> QED  BY <1>1, <1>2

\* The steps that count nothing in or out.
LEMMA QuietCounts ==
  ASSUME AdmissionTypes, NEW t \in Threads, NEW k \in Names,
         \/ \E ty \in Types : CheckDoes(t, ty)
         \/ \E x \in Tenants : AskDoes(t, x) \/ WindowDoes(t, x)
         \/ CapacityDoes(t)
  PROVE  InOrder(t, k)
<1>1. counter' = counter /\ (quota' = quota \/ SameActive)
  BY DEF CheckDoes, AskDoes, WindowDoes, CapacityDoes, TakeDoes, GiveDoes
<1>2. Value(k)' = Value(k)
  BY <1>1, SameValues
<1>b. ~CountedIn(step[t], job[t], k)
  <2>1. step[t] \in {Out, <<"fair", "window", 0>>, <<"capacity", "held", 0>>}
    BY DEF CheckDoes, AskDoes, WindowDoes, CapacityDoes, TakeDoes, GiveDoes
  <2> QED  BY <2>1, FairCounted
<1>a. ~CountedIn(step'[t], job'[t], k) /\ ~ReadIn(step'[t], job'[t], k)
  <2>1. CASE step'[t] = <<"concurrency", "add", 1>>
    <3>1. step'[t][1] = "concurrency" /\ step'[t][2] = "add" /\ step'[t][3] = 1
      BY <2>1, Triples
    <3>2. CountedIn(step'[t], job'[t], k) <=> \E h \in 1..4 : DimsOf(job'[t])[h] = k /\ h < 1
      BY <3>1, ConcurrencyCounted
    <3>3. ~ReadIn(step'[t], job'[t], k)
      BY <3>1, ConcurrencyCounted
    <3> QED  BY <3>2, <3>3
  <2>2. CASE step'[t] \in {Out, <<"fair", "window", 0>>, <<"fair", "record", 0>>, <<"capacity", "held", 0>>}
    BY <2>2, FairCounted
  <2> QED  BY <2>1, <2>2 DEF CheckDoes, AskDoes, WindowDoes, CapacityDoes, TakeDoes, GiveDoes
<1> QED  BY <1>2, <1>a, <1>b DEF InOrder

\* record_submit and record_complete.
LEMMA FairCounts ==
  ASSUME AdmissionTypes, NEW t \in Threads, NEW x \in Tenants, NEW k \in Names, ReadAt(k),
         SubmitDoes(t, x) \/ FairReadDoes(t, x) \/ CompleteDoes(t, x)
  PROVE  Moved(t, k)
<1>v. /\ k \in Counters => Value(k)' = counter'[k] /\ Value(k) = counter[k] /\ k # x
      /\ k \in Tenants => Value(k)' = quota'[k].active /\ Value(k) = quota[k].active
      /\ counter' = counter /\ job[t] = x
  BY ValueIs DEF SubmitDoes, FairReadDoes, CompleteDoes
<1>1. CASE SubmitDoes(t, x)
  <2>0. /\ step[t] = <<"fair", "record", 0>> /\ step'[t] = <<"fair", "held", 0>> /\ job'[t] = x
        /\ quota'[x].active = quota[x].active + 1 /\ Writes(t, x) /\ \A y \in Tenants \ {x} : quota'[y] = quota[y]
    BY <1>1 DEF SubmitDoes
  <2>1. /\ ~CountedIn(step[t], job[t], k) /\ (CountedIn(step'[t], job'[t], k) <=> k = x)
        /\ ~ReadIn(step'[t], job'[t], k)
    BY <2>0, FairCounted
  <2>2. CASE k = x
    BY <1>v, <2>0, <2>1, <2>2 DEF Moved, OneMore
  <2>3. CASE k # x
    BY <1>v, <2>0, <2>1, <2>3 DEF Moved, InOrder, Names
  <2> QED  BY <2>2, <2>3
<1>2. CASE FairReadDoes(t, x)
  <2>0. /\ step[t] = <<"fair", "held", 0>> /\ step'[t] = <<"fair", "less", 0>> /\ job'[t] = x
        /\ quota' = quota /\ val'[t] = quota[x].active
    BY <1>2 DEF FairReadDoes
  <2>1. /\ CountedIn(step[t], job[t], k) <=> k = x
        /\ CountedIn(step'[t], job'[t], k) <=> k = x
        /\ ReadIn(step'[t], job'[t], k) <=> k = x
    BY <1>v, <2>0, FairCounted
  <2>2. Value(k)' = Value(k)
    BY <1>v, <2>0, SameValues
  <2>3. k = x => val'[t] = Value(k)
    BY <1>v, <2>0
  <2> QED  BY <2>1, <2>2, <2>3 DEF Moved, InOrder
<1>3. CASE CompleteDoes(t, x)
  <2>0. /\ step[t] = <<"fair", "less", 0>> /\ step'[t] = Out
        /\ quota'[x].active = Less1(val[t]) /\ Writes(t, x) /\ \A y \in Tenants \ {x} : quota'[y] = quota[y]
    BY <1>3 DEF CompleteDoes
  <2>1. /\ CountedIn(step[t], job[t], k) <=> k = x
        /\ ReadIn(step[t], job[t], k) <=> k = x
        /\ ~CountedIn(step'[t], job'[t], k) /\ ~ReadIn(step'[t], job'[t], k)
    BY <1>v, <2>0, FairCounted
  <2>2. CASE k = x
    <3>1. val[t] = Value(k)
      BY <2>1, <2>2, CountedIs DEF ReadAt
    <3>2. Value(k)' = Less1(Value(k))
      BY <1>v, <2>0, <2>2, <3>1
    <3> QED  BY <2>0, <2>1, <2>2, <3>2 DEF Moved, OneLess
  <2>3. CASE k # x
    BY <1>v, <2>0, <2>1, <2>3 DEF Moved, InOrder, Names
  <2> QED  BY <2>2, <2>3
<1> QED  BY <1>1, <1>2, <1>3

\* History is not forgotten.
LEMMA HistoryGrows ==
  ASSUME AdmissionDoes
  PROVE  lost \subseteq lost' /\ crowded \subseteq crowded'
<1>1. ASSUME NEW t \in Threads, ConcurrencyDoes(t)
      PROVE  lost \subseteq lost' /\ crowded \subseteq crowded'
  BY <1>1 DEF ConcurrencyDoes, CheckDoes, AddDoes, PutDoes, ReadDoes, LessDoes, Asks, Writes
<1>2. ASSUME NEW t \in Threads, FairDoes(t)
      PROVE  lost \subseteq lost' /\ crowded \subseteq crowded'
  BY <1>2 DEF FairDoes, AskDoes, WindowDoes, SubmitDoes, FairReadDoes, CompleteDoes, Asks, Writes
<1>3. ASSUME NEW t \in Threads, CapacityDoes(t)
      PROVE  lost \subseteq lost' /\ crowded \subseteq crowded'
  BY <1>3 DEF CapacityDoes, TakeDoes, GiveDoes
<1> QED  BY <1>1, <1>2, <1>3 DEF AdmissionDoes, RenewDoes, SlotDoes, StillDoes

\* Every step leaves each counter exact, and what was read of it still there.
LEMMA CountSteps ==
  ASSUME AdmissionTypes, NewIsIdle, AdmissionDoes, NEW k \in Names \ lost', ExactAt(k), ReadAt(k)
  PROVE  ExactAt(k)' /\ ReadAt(k)'
<1>v. Value(k) \in Nat /\ k \in Names
  BY ValueIs DEF Names
<1>1. ASSUME NEW t \in Threads, ThreadFrame(t), Moved(t, k)
      PROVE  ExactAt(k)' /\ ReadAt(k)'
  BY <1>1, <1>v, CountAt DEF Moved
<1>2. ASSUME UNCHANGED <<step, job, val>>, Value(k)' = Value(k)
      PROVE  ExactAt(k)' /\ ReadAt(k)'
  <2>1. \A u \in Threads : (Counted(u, k)' <=> Counted(u, k)) /\ (HasRead(u, k)' <=> HasRead(u, k))
    BY <1>2, CountedIs
  <2>2. {u \in Threads : Counted(u, k)'} = {u \in Threads : Counted(u, k)}
    BY <2>1
  <2>3. ExactAt(k)'
    BY <1>2, <2>2 DEF ExactAt
  <2>4. ReadAt(k)'
    BY <1>2, <2>1 DEF ReadAt
  <2> QED  BY <2>3, <2>4
<1>3. ASSUME NEW t \in Threads, ConcurrencyDoes(t)
      PROVE  ExactAt(k)' /\ ReadAt(k)'
  <2>1. ThreadFrame(t)
    BY <1>3 DEF ConcurrencyDoes, CheckDoes, AddDoes, PutDoes, ReadDoes, LessDoes
  <2>2. Moved(t, k)
    <3>1. CASE \E ty \in Types : CheckDoes(t, ty)
      BY <1>v, <3>1, QuietCounts DEF Moved
    <3>2. ASSUME NEW i \in 1..4, AddDoes(t, i) \/ PutDoes(t, i) \/ ReadDoes(t, i) \/ LessDoes(t, i)
          PROVE  Moved(t, k)
      BY <1>v, <3>2, AddCounts, PutCounts, ReadCounts, LessCounts
    <3> QED  BY <1>3, <3>1, <3>2 DEF ConcurrencyDoes
  <2> QED  BY <1>1, <2>1, <2>2
<1>4. ASSUME NEW t \in Threads, FairDoes(t)
      PROVE  ExactAt(k)' /\ ReadAt(k)'
  <2>1. ThreadFrame(t)
    BY <1>4 DEF FairDoes, AskDoes, WindowDoes, SubmitDoes, FairReadDoes, CompleteDoes
  <2>2. Moved(t, k)
    <3>1. CASE \E x \in Tenants : AskDoes(t, x) \/ WindowDoes(t, x)
      BY <1>v, <3>1, QuietCounts DEF Moved
    <3>2. ASSUME NEW x \in Tenants, SubmitDoes(t, x) \/ FairReadDoes(t, x) \/ CompleteDoes(t, x)
          PROVE  Moved(t, k)
      BY <1>v, <3>2, FairCounts
    <3> QED  BY <1>4, <3>1, <3>2 DEF FairDoes
  <2> QED  BY <1>1, <2>1, <2>2
<1>5. ASSUME NEW t \in Threads, CapacityDoes(t)
      PROVE  ExactAt(k)' /\ ReadAt(k)'
  <2>1. ThreadFrame(t)
    BY <1>5 DEF CapacityDoes, TakeDoes, GiveDoes
  <2> QED  BY <1>1, <1>5, <1>v, <2>1, QuietCounts DEF Moved
<1>6. ASSUME NEW x \in Tenants, RenewDoes(x)
      PROVE  ExactAt(k)' /\ ReadAt(k)'
  <2>1. UNCHANGED <<step, job, val, counter>> /\ \A y \in Tenants \ {x} : quota'[y] = quota[y]
    BY <1>6 DEF RenewDoes
  <2>2. k = x => quota'[x].active = quota[x].active
    BY <1>6 DEF RenewDoes, NewIsIdle
  <2>3. Value(k)' = Value(k)
    BY <1>v, <2>1, <2>2, ValueIs DEF Names
  <2> QED  BY <1>2, <2>1, <2>3
<1>7. CASE StillDoes \/ \E r \in Resources : SlotDoes(r)
  <2>1. UNCHANGED <<step, job, val, counter>> /\ (quota' = quota \/ SameActive)
    BY <1>7 DEF StillDoes, SlotDoes
  <2>2. Value(k)' = Value(k)
    BY <1>v, <2>1, SameValues
  <2> QED  BY <1>2, <2>1, <2>2
<1> QED  BY <1>3, <1>4, <1>5, <1>6, <1>7 DEF AdmissionDoes

\* The invariant of the counters, counter by counter.
LEMMA CountInvIs == CountInv <=> NewIsIdle /\ \A k \in Names \ lost : ExactAt(k) /\ ReadAt(k)
<1>1. CountersExact <=> \A k \in Names \ lost : ExactAt(k)
  BY Zenon DEF CountersExact, ExactAt, Value, Names
<1>2. CountersRead <=> \A k \in Names \ lost : ReadAt(k)
  BY DEF CountersRead, ReadAt, Names
<1> QED  BY <1>1, <1>2 DEF CountInv

\* The counters nobody has touched are exact.
LEMMA CountStarts == AdmissionInit => CountInv
<1> SUFFICES ASSUME AdmissionInit, NEW k \in Names
             PROVE  ExactAt(k) /\ ReadAt(k)
  BY AdmissionStarts, CountInvIs
<1>1. \A t \in Threads : step[t] = Out
  BY DEF AdmissionInit
<1>2. \A t \in Threads : ~Counted(t, k) /\ ~HasRead(t, k)
  BY <1>1, FairCounted, CountedIs
<1>3. Value(k) = 0
  BY DEF AdmissionInit, Value, Names
<1>4. {t \in Threads : Counted(t, k)} = {}
  BY <1>2
<1> QED  BY <1>2, <1>3, <1>4, FS_EmptySet DEF ExactAt, ReadAt

\* Every step keeps them so.
LEMMA CountKeeps ==
  AdmissionTypes /\ CountInv /\ [AdmissionNext]_admissionVars => AdmissionTypes' /\ CountInv' /\ AdmissionDoes
<1> SUFFICES ASSUME AdmissionTypes, CountInv, [AdmissionNext]_admissionVars
             PROVE  AdmissionTypes' /\ CountInv' /\ AdmissionDoes
  OBVIOUS
<1>1. NewIsIdle /\ \A k \in Names \ lost : ExactAt(k) /\ ReadAt(k)
  BY CountInvIs
<1>2. AdmissionTypes' /\ NewIsIdle' /\ AdmissionDoes
  BY <1>1, AdmissionKeeps
<1>3. lost \subseteq lost'
  BY <1>2, HistoryGrows
<1>4. \A k \in Names \ lost' : ExactAt(k)' /\ ReadAt(k)'
  BY <1>1, <1>2, <1>3, CountSteps
<1>5. CountersExact' /\ CountersRead'
  <2>1. CountersExact'
    BY <1>4, Zenon DEF CountersExact, ExactAt, Value, Names
  <2>2. CountersRead'
    BY <1>4 DEF CountersRead, ReadAt, Names
  <2> QED  BY <2>1, <2>2
<1> QED  BY <1>2, <1>5 DEF CountInv

\* Every counter of the concurrency manager and of the tenants is exact at every
\* moment unless it was written between another thread's read and write, for
\* every number of threads, types and tenants.
THEOREM CountersAreExact == AdmissionSpec => []CountersExact
<1>1. AdmissionInit => AdmissionTypes /\ CountInv
  BY AdmissionStarts, CountStarts
<1>2. (AdmissionTypes /\ CountInv) /\ [AdmissionNext]_admissionVars => (AdmissionTypes /\ CountInv)'
  BY CountKeeps
<1>3. AdmissionTypes /\ CountInv => CountersExact
  BY DEF CountInv
<1> QED  BY <1>1, <1>2, <1>3, PTL DEF AdmissionSpec

-----------------------------------------------------------------------------
(* The limiters: the limits are kept.                                      *)

\* Thread t asks for admission to x, a tenant.
AsksFor(t, x) == Asking(t, "fair") /\ job[t] = x

\* A step of thread t keeps the counters at their limits if it does so itself,
\* and leaves those alone whom another has asked for.
LEMMA BelowLimitsAt ==
  ASSUME BelowLimits, NEW t \in Threads, ThreadFrame(t), AdmissionTypes, AdmissionTypes',
         \A k \in Counters : counter'[k] <= CounterMax(k),
         Asking(t, "concurrency")' =>
           /\ \A u \in Threads \ {t} : ~Asking(u, "concurrency")
           /\ \A i \in 1..4 : i >= step'[t][3] => counter'[DimsOf(job'[t])[i]] < CounterMax(DimsOf(job'[t])[i]),
         \/ \A k \in Counters : counter'[k] <= counter[k]
         \/ \A u \in Threads \ {t} : ~Asking(u, "concurrency")
  PROVE  BelowLimits'
<1>1. \A u \in Threads \ {t} : step'[u] = step[u] /\ job'[u] = job[u]
  BY DEF ThreadFrame
<1>2. \A u \in Threads \ {t} : Asking(u, "concurrency")' <=> Asking(u, "concurrency")
  BY <1>1 DEF Asking
<1>3. \A u, v \in Threads : Asking(u, "concurrency")' /\ Asking(v, "concurrency")' => u = v
  <2> SUFFICES ASSUME NEW u \in Threads, NEW v \in Threads, Asking(u, "concurrency")', Asking(v, "concurrency")'
               PROVE  u = v
    OBVIOUS
  <2>1. CASE u = t \/ v = t
    BY <1>2, <2>1
  <2>2. CASE u # t /\ v # t
    BY <1>2, <2>2 DEF BelowLimits
  <2> QED  BY <2>1, <2>2
<1>4. ASSUME NEW u \in Threads, Asking(u, "concurrency")', NEW i \in 1..4, i >= step'[u][3]
      PROVE  counter'[Dims(u)'[i]] < CounterMax(Dims(u)'[i])
  <2>d. Dims(u)' = DimsOf(job'[u])
    BY DEF Dims, DimsOf
  <2>1. CASE u = t
    BY <1>4, <2>1, <2>d
  <2>2. CASE u # t
    <3>1. Asking(u, "concurrency") /\ step'[u] = step[u] /\ Dims(u) = DimsOf(job'[u])
      BY <1>1, <1>2, <1>4, <2>2 DEF Dims, DimsOf
    <3>2. job'[u] \in Types
      BY <1>1, <2>2, <3>1 DEF Asking, AdmissionTypes
    <3>3. DimsOf(job'[u])[i] \in Counters
      BY <3>2, DimsOfAre
    <3>4. counter[DimsOf(job'[u])[i]] < CounterMax(DimsOf(job'[u])[i])
      BY <1>4, <3>1 DEF BelowLimits
    <3>5. counter'[DimsOf(job'[u])[i]] <= counter[DimsOf(job'[u])[i]]
      BY <2>2, <3>1, <3>3
    <3>6. /\ counter[DimsOf(job'[u])[i]] \in Nat /\ counter'[DimsOf(job'[u])[i]] \in Nat
          /\ CounterMax(DimsOf(job'[u])[i]) \in Nat
      BY <3>3, AdmissionConstants DEF AdmissionTypes
    <3> QED  BY <2>d, <3>4, <3>5, <3>6
  <2> QED  BY <2>1, <2>2
<1> QED  BY <1>3, <1>4 DEF BelowLimits

\* The steps of the concurrency manager.
LEMMA ConcurrencyLimits ==
  ASSUME AdmissionTypes, AdmissionTypes', BelowLimits, Uncrowded', \A k \in Counters : ReadAt(k),
         NEW t \in Threads, ConcurrencyDoes(t)
  PROVE  BelowLimits'
<1>f. ThreadFrame(t)
  BY DEF ConcurrencyDoes, CheckDoes, AddDoes, PutDoes, ReadDoes, LessDoes
<1>n. \A k \in Counters : counter[k] \in Nat /\ CounterMax(k) \in Nat /\ counter[k] <= CounterMax(k)
  BY AdmissionConstants DEF AdmissionTypes, BelowLimits
<1>u. ASSUME Asking(t, "concurrency")
      PROVE  \A u \in Threads \ {t} : ~Asking(u, "concurrency")
  BY <1>u DEF BelowLimits
<1>1. ASSUME NEW ty \in Types, CheckDoes(t, ty)
      PROVE  BelowLimits'
  <2>0. /\ counter' = counter /\ CanAcquire(ty) /\ Asks(t, "concurrency", ty)
        /\ step'[t] = <<"concurrency", "add", 1>> /\ job'[t] = ty
    BY <1>1 DEF CheckDoes
  <2>1. \A u \in Threads \ {t} : ~Asking(u, "concurrency")
    BY <2>0 DEF Asks, Uncrowded
  <2>2. \A i \in 1..4 : DimsOf(ty)[i] \in {"global", ty, "tenant", "user"}
    <3>1. DimsOf(ty)[1] = "global" /\ DimsOf(ty)[2] = ty /\ DimsOf(ty)[3] = "tenant" /\ DimsOf(ty)[4] = "user"
      BY DEF DimsOf
    <3>2. \A i \in 1..4 : i = 1 \/ i = 2 \/ i = 3 \/ i = 4
      OBVIOUS
    <3> QED  BY <3>1, <3>2
  <2>3. \A i \in 1..4 : counter'[DimsOf(ty)[i]] < CounterMax(DimsOf(ty)[i])
    BY <2>0, <2>2 DEF CanAcquire
  <2> QED  BY <1>f, <1>n, <2>0, <2>1, <2>3, BelowLimitsAt
<1>2. ASSUME NEW i \in 1..4, AddDoes(t, i) \/ PutDoes(t, i)
      PROVE  BelowLimits'
  <2> DEFINE j == job[t]
             d == DimsOf(j)[i]
  <2>0. /\ j \in Types /\ job'[t] = j /\ Dims(t) = DimsOf(j)
        /\ step[t] = <<"concurrency", "add", i>> \/ step[t] = <<"concurrency", "put", i>>
    BY <1>2 DEF AddDoes, PutDoes, Dims, DimsOf
  <2>p. Asking(t, "concurrency") /\ step[t][3] = i
    BY <2>0, Triples DEF Asking
  <2>d. /\ DimsOf(j)[1] = "global" /\ d = DimsOf(j)[i] /\ d \in Counters
        /\ \A h \in 1..4 : DimsOf(j)[h] \in Counters
        /\ \A h, g \in 1..4 : DimsOf(j)[h] = DimsOf(j)[g] => h = g
    BY <2>0, DimsOfAre
  <2>b. \A h \in 1..4 : h >= i => counter[DimsOf(j)[h]] < CounterMax(DimsOf(j)[h])
    BY <2>0, <2>p DEF BelowLimits
  <2>o. \A u \in Threads \ {t} : ~Asking(u, "concurrency")
    BY <1>u, <2>p
  <2> HIDE DEF j, d
  <2>1. CASE AddDoes(t, i) /\ counter' = counter
    <3>1. step'[t][3] >= i
      BY <2>1, Triples DEF AddDoes
    <3>2. \A h \in 1..4 : h >= step'[t][3] => h >= i
      <4>1. step'[t][3] \in 1..4
        BY <2>1, Triples DEF AddDoes
      <4> QED  BY <3>1, <4>1
    <3> QED  BY <1>f, <1>n, <2>0, <2>1, <2>b, <2>o, <3>2, BelowLimitsAt
  <2>2. CASE counter' = [counter EXCEPT ![d] = @ + 1] /\ (i < 4 => step'[t][3] = i + 1)
             /\ (i = 4 => ~Asking(t, "concurrency")')
    <3>1. counter'[d] = counter[d] + 1 /\ \A k \in Counters \ {d} : counter'[k] = counter[k]
      BY <2>2, <2>d DEF AdmissionTypes
    <3>2. counter[d] < CounterMax(d)
      BY <2>b, <2>d
    <3>3. \A k \in Counters : counter'[k] <= CounterMax(k)
      BY <1>n, <2>d, <3>1, <3>2
    <3>4. i < 4 => \A h \in 1..4 : h >= step'[t][3] => counter'[DimsOf(j)[h]] < CounterMax(DimsOf(j)[h])
      <4> SUFFICES ASSUME i < 4, NEW h \in 1..4, h >= i + 1
                   PROVE  counter'[DimsOf(j)[h]] < CounterMax(DimsOf(j)[h])
        BY <2>2
      <4>1. h >= i /\ h # i
        OBVIOUS
      <4>2. DimsOf(j)[h] \in Counters \ {d}
        BY <2>d, <4>1
      <4> QED  BY <2>b, <3>1, <4>1, <4>2
    <3>5. i < 4 \/ i = 4
      OBVIOUS
    <3> QED  BY <1>f, <2>0, <2>2, <2>o, <3>3, <3>4, <3>5, BelowLimitsAt
  <2>3. \/ AddDoes(t, i) /\ counter' = counter
        \/ counter' = [counter EXCEPT ![d] = @ + 1] /\ (i < 4 => step'[t][3] = i + 1)
           /\ (i = 4 => ~Asking(t, "concurrency")')
    <3>1. CASE AddDoes(t, i)
      <4>1. CASE i = 1 /\ counter' = [counter EXCEPT !["global"] = @ + 1] /\ step'[t] = <<"concurrency", "add", 2>>
        <5>1. step'[t][3] = i + 1 /\ d = "global"
          BY <2>d, <4>1, Triples
        <5> QED  BY <4>1, <5>1
      <4>2. CASE counter' = counter
        BY <3>1, <4>2
      <4> QED  BY <3>1, <4>1, <4>2 DEF AddDoes
    <3>2. CASE PutDoes(t, i)
      <4>1. HasRead(t, d)
        <5>1. step[t][1] = "concurrency" /\ step[t][2] = "put" /\ step[t][3] = i
          BY <3>2, Triples DEF PutDoes
        <5>2. ReadIn(step[t], j, d)
          BY <2>d, <5>1, ConcurrencyCounted
        <5> QED  BY <5>2, CountedIs DEF j
      <4>2. val[t] = counter[d]
        BY <2>d, <4>1, ValueIs DEF ReadAt
      <4>3. counter' = [counter EXCEPT ![d] = @ + 1]
        BY <2>0, <2>d, <3>2, <4>2 DEF PutDoes
      <4>4. i < 4 => step'[t][3] = i + 1
        BY <3>2, Triples DEF PutDoes
      <4>5. i = 4 => step'[t][2] = "held"
        BY <3>2, Triples DEF PutDoes
      <4> QED  BY <4>3, <4>4, <4>5 DEF Asking
    <3> QED  BY <1>2, <3>1, <3>2
  <2> QED  BY <2>1, <2>2, <2>3
<1>3. ASSUME NEW i \in 1..4, ReadDoes(t, i) \/ LessDoes(t, i)
      PROVE  BelowLimits'
  <2>1. ~Asking(t, "concurrency")'
    <3>1. step'[t][2] \in {"less", "sub", "out"}
      BY <1>3, Triples, StandingMembers DEF ReadDoes, LessDoes
    <3> QED  BY <3>1 DEF Asking
  <2>2. \A k \in Counters : counter'[k] <= counter[k]
    <3>1. CASE ReadDoes(t, i)
      BY <1>n, <3>1 DEF ReadDoes
    <3>2. CASE LessDoes(t, i)
      <4> DEFINE j == job[t]
                 d == DimsOf(j)[i]
      <4>0. /\ j \in Types /\ step[t] = <<"concurrency", "less", i>> /\ Dims(t) = DimsOf(j)
            /\ counter' = [counter EXCEPT ![d] = Less1(val[t])]
        BY <3>2 DEF LessDoes, Dims, DimsOf
      <4>d. d \in Counters /\ d = DimsOf(j)[i]
        BY <4>0, DimsOfAre
      <4> HIDE DEF j, d
      <4>1. HasRead(t, d)
        <5>1. step[t][1] = "concurrency" /\ step[t][2] = "less" /\ step[t][3] = i
          BY <4>0, Triples
        <5>2. ReadIn(step[t], j, d)
          BY <4>d, <5>1, ConcurrencyCounted
        <5> QED  BY <5>2, CountedIs DEF j
      <4>2. val[t] = counter[d]
        BY <4>d, <4>1, ValueIs DEF ReadAt
      <4>3. counter'[d] = Less1(counter[d]) /\ \A k \in Counters \ {d} : counter'[k] = counter[k]
        BY <4>0, <4>d, <4>2 DEF AdmissionTypes
      <4> QED  BY <1>n, <4>d, <4>3 DEF Less1
    <3> QED  BY <1>3, <3>1, <3>2
  <2>3. \A k \in Counters : counter'[k] <= CounterMax(k)
    <3>1. \A k \in Counters : counter'[k] \in Nat
      BY DEF AdmissionTypes
    <3> QED  BY <1>n, <2>2, <3>1
  <2> QED  BY <1>f, <2>1, <2>2, <2>3, BelowLimitsAt
<1> QED  BY <1>1, <1>2, <1>3 DEF ConcurrencyDoes

\* Every other step leaves the concurrency manager alone.
LEMMA OtherLimits ==
  ASSUME AdmissionTypes, AdmissionTypes', BelowLimits,
         \/ \E t \in Threads : FairDoes(t) \/ CapacityDoes(t)
         \/ \E x \in Tenants : RenewDoes(x)
         \/ \E r \in Resources : SlotDoes(r)
         \/ StillDoes
  PROVE  BelowLimits'
<1>n. \A k \in Counters : counter[k] \in Nat /\ counter[k] <= CounterMax(k)
  BY DEF AdmissionTypes, BelowLimits
<1>1. ASSUME NEW t \in Threads, FairDoes(t) \/ CapacityDoes(t)
      PROVE  BelowLimits'
  <2>1. ThreadFrame(t) /\ counter' = counter
    BY <1>1 DEF FairDoes, AskDoes, WindowDoes, SubmitDoes, FairReadDoes, CompleteDoes, CapacityDoes, TakeDoes, GiveDoes
  <2>2. step'[t][1] # "concurrency"
    BY <1>1, Triples, StandingMembers, SMTT(40)
    DEF FairDoes, AskDoes, WindowDoes, SubmitDoes, FairReadDoes, CompleteDoes, CapacityDoes, TakeDoes, GiveDoes
  <2>3. ~Asking(t, "concurrency")'
    BY <2>2 DEF Asking
  <2> QED  BY <1>n, <2>1, <2>3, BelowLimitsAt
<1>2. CASE (\E x \in Tenants : RenewDoes(x)) \/ (\E r \in Resources : SlotDoes(r)) \/ StillDoes
  <2>1. UNCHANGED <<counter, step, job>>
    BY <1>2 DEF RenewDoes, SlotDoes, StillDoes
  <2>2. \A t \in Threads : (Asking(t, "concurrency")' <=> Asking(t, "concurrency")) /\ Dims(t)' = Dims(t)
    BY <2>1 DEF Asking, Dims
  <2> QED  BY <2>1, <2>2 DEF BelowLimits
<1> QED  BY <1>1, <1>2

\* A step of thread t keeps the quota of x if it does so itself, and adds to it
\* when nobody else has asked for it.
LEMMA BelowQuotaAt ==
  ASSUME AdmissionTypes, AdmissionTypes', NEW x \in Tenants, BelowQuota(x), NEW t \in Threads, ThreadFrame(t),
         quota'[x].active <= TenantMax[x],
         AsksFor(t, x)' => /\ \A u \in Threads \ {t} : ~AsksFor(u, x)
                           /\ quota'[x].active < TenantMax[x],
         quota'[x].active <= quota[x].active \/ \A u \in Threads \ {t} : ~AsksFor(u, x)
  PROVE  BelowQuota(x)'
<1>1. \A u \in Threads \ {t} : AsksFor(u, x)' <=> AsksFor(u, x)
  BY DEF ThreadFrame, AsksFor, Asking
<1>2. \A u \in Threads : AsksFor(u, x) => quota[x].active < TenantMax[x]
  BY DEF BelowQuota, AsksFor
<1>3. quota[x].active \in Nat /\ quota'[x].active \in Nat /\ TenantMax[x] \in Nat
  <2>1. quota[x] \in Quota /\ quota'[x] \in Quota
    BY DEF AdmissionTypes
  <2> QED  BY <2>1, AdmissionConstants DEF Quota
<1>4. \A u \in Threads : AsksFor(u, x)' => quota'[x].active < TenantMax[x]
  BY <1>1, <1>2, <1>3
<1>5. \A u, v \in Threads : AsksFor(u, x)' /\ AsksFor(v, x)' => u = v
  <2> SUFFICES ASSUME NEW u \in Threads, NEW v \in Threads, AsksFor(u, x)', AsksFor(v, x)'
               PROVE  u = v
    OBVIOUS
  <2>1. CASE u = t \/ v = t
    BY <1>1, <2>1
  <2>2. CASE u # t /\ v # t
    BY <1>1, <2>2 DEF BelowQuota, AsksFor
  <2> QED  BY <2>1, <2>2
<1> QED  BY <1>4, <1>5 DEF BelowQuota, AsksFor

\* Every step keeps the quota of a tenant that is neither lost nor crowded.
LEMMA QuotaSteps ==
  ASSUME AdmissionTypes, AdmissionTypes', NewIsIdle, AdmissionDoes,
         NEW x \in Tenants, x \notin lost' \cup crowded', BelowQuota(x), ReadAt(x)
  PROVE  BelowQuota(x)'
<1>n. /\ quota[x].active \in Nat /\ quota'[x].active \in Nat /\ TenantMax[x] \in Nat /\ quota[x].active <= TenantMax[x]
  <2>1. quota[x] \in Quota /\ quota'[x] \in Quota
    BY DEF AdmissionTypes
  <2> QED  BY <2>1, AdmissionConstants DEF Quota, BelowQuota
<1>u. ASSUME NEW t \in Threads, AsksFor(t, x)
      PROVE  quota[x].active < TenantMax[x] /\ \A u \in Threads \ {t} : ~AsksFor(u, x)
  BY <1>u DEF BelowQuota, AsksFor
<1>q. ASSUME NEW t \in Threads, ThreadFrame(t), ~AsksFor(t, x)' \/ AsksFor(t, x), quota'[x].active = quota[x].active
      PROVE  BelowQuota(x)'
  <2>1. AsksFor(t, x)' => quota'[x].active < TenantMax[x] /\ \A u \in Threads \ {t} : ~AsksFor(u, x)
    BY <1>q, <1>u
  <2>2. quota'[x].active <= TenantMax[x] /\ quota'[x].active <= quota[x].active
    BY <1>q, <1>n
  <2> QED  BY <1>q, <2>1, <2>2, BelowQuotaAt
<1>1. ASSUME NEW t \in Threads, ConcurrencyDoes(t) \/ CapacityDoes(t)
      PROVE  BelowQuota(x)'
  <2>1. ThreadFrame(t) /\ quota' = quota
    BY <1>1 DEF ConcurrencyDoes, CapacityDoes, CheckDoes, AddDoes, PutDoes, ReadDoes, LessDoes, TakeDoes, GiveDoes
  <2>2. step'[t][1] # "fair"
    BY <1>1, Triples, StandingMembers
    DEF ConcurrencyDoes, CapacityDoes, CheckDoes, AddDoes, PutDoes, ReadDoes, LessDoes, TakeDoes, GiveDoes
  <2>3. ~AsksFor(t, x)'
    BY <2>2 DEF AsksFor, Asking
  <2> QED  BY <1>q, <2>1, <2>3
<1>2. ASSUME NEW t \in Threads, NEW y \in Tenants, AskDoes(t, y)
      PROVE  BelowQuota(x)'
  <2>0. /\ ThreadFrame(t) /\ job'[t] = y /\ quota[y].active < TenantMax[y] /\ Asks(t, "fair", y)
        /\ quota'[x].active = quota[x].active
    BY <1>2 DEF AskDoes, SameActive
  <2>1. CASE y = x
    <3>1. \A u \in Threads \ {t} : ~AsksFor(u, x)
      BY <2>0, <2>1 DEF Asks, AsksFor
    <3>2. quota'[x].active <= TenantMax[x] /\ quota'[x].active < TenantMax[x]
      BY <1>n, <2>0, <2>1
    <3> QED  BY <2>0, <3>1, <3>2, BelowQuotaAt
  <2>2. CASE y # x
    <3>1. ~AsksFor(t, x)'
      BY <2>0, <2>2 DEF AsksFor
    <3> QED  BY <1>q, <2>0, <3>1
  <2> QED  BY <2>1, <2>2
<1>3. ASSUME NEW t \in Threads, NEW y \in Tenants, WindowDoes(t, y)
      PROVE  BelowQuota(x)'
  <2>0. /\ ThreadFrame(t) /\ job[t] = y /\ step[t] = <<"fair", "window", 0>> /\ quota'[x].active = quota[x].active
        /\ job'[t] = y \/ step'[t] = Out
    BY <1>3 DEF WindowDoes, SameActive
  <2>1. Asking(t, "fair")
    BY <2>0, Triples DEF Asking
  <2>2. ~AsksFor(t, x)' \/ AsksFor(t, x)
    BY <2>0, <2>1, StandingMembers DEF AsksFor, Asking
  <2> QED  BY <1>q, <2>0, <2>2
<1>4. ASSUME NEW t \in Threads, NEW y \in Tenants, SubmitDoes(t, y)
      PROVE  BelowQuota(x)'
  <2>0. /\ ThreadFrame(t) /\ job[t] = y /\ step[t] = <<"fair", "record", 0>> /\ step'[t] = <<"fair", "held", 0>>
        /\ quota'[y].active = quota[y].active + 1 /\ \A z \in Tenants \ {y} : quota'[z] = quota[z]
    BY <1>4 DEF SubmitDoes
  <2>1. Asking(t, "fair")
    BY <2>0, Triples DEF Asking
  <2>2. step'[t][2] = "held"
    BY <2>0, Triples
  <2>3. ~AsksFor(t, x)'
    BY <2>2 DEF AsksFor, Asking
  <2>4. CASE y = x
    <3>1. AsksFor(t, x)
      BY <2>0, <2>1, <2>4 DEF AsksFor
    <3>2. quota[x].active < TenantMax[x] /\ \A u \in Threads \ {t} : ~AsksFor(u, x)
      BY <1>u, <3>1
    <3>3. quota'[x].active <= TenantMax[x]
      BY <1>n, <2>0, <2>4, <3>2
    <3> QED  BY <2>0, <2>3, <3>2, <3>3, BelowQuotaAt
  <2>5. CASE y # x
    BY <1>q, <2>0, <2>3, <2>5
  <2> QED  BY <2>4, <2>5
<1>5. ASSUME NEW t \in Threads, NEW y \in Tenants, FairReadDoes(t, y)
      PROVE  BelowQuota(x)'
  <2>0. ThreadFrame(t) /\ quota' = quota /\ step'[t] = <<"fair", "less", 0>>
    BY <1>5 DEF FairReadDoes
  <2>1. step'[t][2] = "less"
    BY <2>0, Triples
  <2>2. ~AsksFor(t, x)'
    BY <2>1 DEF AsksFor, Asking
  <2> QED  BY <1>q, <2>0, <2>2
<1>6. ASSUME NEW t \in Threads, NEW y \in Tenants, CompleteDoes(t, y)
      PROVE  BelowQuota(x)'
  <2>0. /\ ThreadFrame(t) /\ job[t] = y /\ step[t] = <<"fair", "less", 0>> /\ step'[t] = Out
        /\ quota'[y].active = Less1(val[t]) /\ \A z \in Tenants \ {y} : quota'[z] = quota[z]
    BY <1>6 DEF CompleteDoes
  <2>1. ~AsksFor(t, x)'
    BY <2>0, StandingMembers DEF AsksFor, Asking
  <2>2. CASE y = x
    <3>1. HasRead(t, x)
      BY <2>0, <2>2 DEF HasRead
    <3>2. val[t] = quota[x].active
      BY <3>1, ValueIs DEF ReadAt
    <3>3. quota'[x].active <= quota[x].active /\ quota'[x].active <= TenantMax[x]
      BY <1>n, <2>0, <2>2, <3>2 DEF Less1
    <3> QED  BY <2>0, <2>1, <3>3, BelowQuotaAt
  <2>3. CASE y # x
    BY <1>q, <2>0, <2>1, <2>3
  <2> QED  BY <2>2, <2>3
<1>7. CASE (\E y \in Tenants : RenewDoes(y)) \/ (\E r \in Resources : SlotDoes(r)) \/ StillDoes
  <2>1. UNCHANGED <<step, job>>
    BY <1>7 DEF RenewDoes, SlotDoes, StillDoes
  <2>2. quota'[x].active = quota[x].active
    <3>1. ASSUME NEW y \in Tenants, RenewDoes(y)
          PROVE  quota'[x].active = quota[x].active
      BY <3>1 DEF RenewDoes, NewIsIdle
    <3> QED  BY <1>7, <3>1 DEF SlotDoes, StillDoes, SameActive
  <2>3. \A u \in Threads : AsksFor(u, x)' <=> AsksFor(u, x)
    BY <2>1 DEF AsksFor, Asking
  <2> QED  BY <2>2, <2>3 DEF BelowQuota, AsksFor
<1> QED  BY <1>1, <1>2, <1>3, <1>4, <1>5, <1>6, <1>7 DEF AdmissionDoes, FairDoes

\* Every step keeps the limits.
LEMMA LimitSteps ==
  ASSUME AdmissionTypes, AdmissionTypes', CountInv, LimitInv, AdmissionDoes
  PROVE  LimitInv'
<1>0. NewIsIdle /\ \A k \in Names \ lost : ReadAt(k)
  BY CountInvIs
<1>1. lost \subseteq lost' /\ crowded \subseteq crowded'
  BY HistoryGrows
<1>2. ASSUME Uncrowded'
      PROVE  BelowLimits'
  <2>1. Uncrowded /\ lost \cap Counters = {}
    BY <1>1, <1>2 DEF Uncrowded
  <2>2. BelowLimits
    BY <2>1 DEF LimitInv
  <2>3. \A k \in Counters : ReadAt(k)
    BY <1>0, <2>1 DEF Names
  <2> QED  BY <1>2, <2>2, <2>3, ConcurrencyLimits, OtherLimits DEF AdmissionDoes
<1>3. ASSUME NEW x \in Tenants, x \notin lost' \cup crowded'
      PROVE  BelowQuota(x)'
  <2>1. BelowQuota(x) /\ ReadAt(x)
    BY <1>0, <1>1, <1>3 DEF LimitInv, Names
  <2> QED  BY <1>0, <1>3, <2>1, QuotaSteps
<1> QED  BY <1>2, <1>3 DEF LimitInv

\* The limits hold at first.
LEMMA LimitStarts == AdmissionInit => LimitInv
<1> SUFFICES ASSUME AdmissionInit
             PROVE  LimitInv
  OBVIOUS
<1>1. \A t \in Threads : step[t] = Out /\ ~Asking(t, "concurrency") /\ ~Asking(t, "fair")
  BY StandingMembers DEF AdmissionInit, Asking
<1>2. (\A k \in Counters : counter[k] = 0) /\ (\A x \in Tenants : quota[x].active = 0)
  BY DEF AdmissionInit
<1>3. BelowLimits
  BY <1>1, <1>2, AdmissionConstants DEF BelowLimits
<1>4. \A x \in Tenants : BelowQuota(x)
  BY <1>1, <1>2, AdmissionConstants DEF BelowQuota
<1> QED  BY <1>3, <1>4 DEF LimitInv

\* A tenant's running jobs are among those its quota counts.
LEMMA LimitsFollow == AdmissionTypes /\ CountInv /\ LimitInv => LimitsKept
<1> SUFFICES ASSUME AdmissionTypes, CountInv, LimitInv
             PROVE  LimitsKept
  OBVIOUS
<1>1. ASSUME NEW x \in Tenants \ (lost \cup crowded)
      PROVE  Cardinality({t \in Held("fair") : job[t] = x}) <= TenantMax[x]
  <2> DEFINE H == {t \in Held("fair") : job[t] = x}
             S == {t \in Threads : Counted(t, x)}
  <2>1. H \subseteq S
    BY FairCounted, CountedIs DEF Held
  <2>2. IsFiniteSet(S)
    <3>1. S \subseteq Threads
      OBVIOUS
    <3> QED  BY <3>1, AdmissionConstants, FS_Subset
  <2>3. IsFiniteSet(H) /\ Cardinality(H) <= Cardinality(S)
    BY <2>1, <2>2, FS_Subset
  <2>4. quota[x].active = Cardinality(S)
    <3>1. ExactAt(x)
      BY CountInvIs DEF Names
    <3> QED  BY <3>1, ValueIs DEF ExactAt
  <2>5. quota[x].active <= TenantMax[x]
    BY DEF LimitInv, BelowQuota
  <2>6. Cardinality(H) \in Nat /\ Cardinality(S) \in Nat /\ TenantMax[x] \in Nat
    BY <2>2, <2>3, FS_CardinalityType, AdmissionConstants
  <2> HIDE DEF H, S
  <2>7. Cardinality(H) <= TenantMax[x]
    BY <2>3, <2>4, <2>5, <2>6
  <2> QED  BY <2>7 DEF H
<1>2. Uncrowded => \A k \in Counters : counter[k] <= CounterMax(k)
  BY DEF LimitInv, BelowLimits
<1> QED  BY <1>1, <1>2 DEF LimitsKept, Uncrowded

\* No limit of the concurrency manager and no tenant's quota is exceeded, in
\* every order of acquiring and releasing, unless two threads asked at the same
\* time or a count was lost.
THEOREM LimitsAreKept == AdmissionSpec => []LimitsKept
<1> DEFINE Inv == AdmissionTypes /\ CountInv /\ LimitInv
<1>1. AdmissionInit => Inv
  BY AdmissionStarts, CountStarts, LimitStarts
<1>2. Inv /\ [AdmissionNext]_admissionVars => Inv'
  BY CountKeeps, LimitSteps
<1>3. Inv => LimitsKept
  BY LimitsFollow
<1> HIDE DEF Inv
<1> QED  BY <1>1, <1>2, <1>3, PTL DEF AdmissionSpec

-----------------------------------------------------------------------------
(* The limiters: capacity.                                                 *)

\* The units a thread holds are as many as it asked for.
LEMMA UnitsOfOne ==
  ASSUME NEW t, NEW n \in Nat
  PROVE  IsFiniteSet({t} \X (1..n)) /\ Cardinality({t} \X (1..n)) = n
<1>1. IsFiniteSet({t}) /\ Cardinality({t}) = 1
  BY FS_Singleton
<1>2. IsFiniteSet(1..n) /\ Cardinality(1..n) = n
  <2>1. IsFiniteSet(1..n) /\ Cardinality(1..n) = IF 1 > n THEN 0 ELSE n - 1 + 1
    BY FS_Interval, 1 \in Int, n \in Int
  <2> QED  BY <2>1
<1>3. IsFiniteSet({t} \X (1..n)) /\ Cardinality({t} \X (1..n)) = Cardinality({t}) * Cardinality(1..n)
  BY <1>1, <1>2, FS_Product, Zenon
<1>4. Cardinality({t}) * Cardinality(1..n) = n
  BY <1>1, <1>2
<1> QED  BY <1>3, <1>4, Zenon

\* The units of r, thread by thread.
LEMMA UnitsAre ==
  ASSUME NEW r
  PROVE  /\ \A p : p \in Units(r) <=> \E t \in Held("capacity") : p \in {t} \X (1..job[t][r])
         /\ \A p : p \in Units(r)' <=> \E t \in Held("capacity")' : p \in {t} \X (1..job'[t][r])
<1>1. \A p : p \in Units(r) <=> \E t \in Held("capacity") : p \in {t} \X (1..job[t][r])
  BY Zenon DEF Units
<1>2. \A p : p \in Units(r)' <=> \E t \in Held("capacity")' : p \in {t} \X (1..job'[t][r])
  BY Zenon DEF Units
<1> QED  BY <1>1, <1>2

\* A step that moves nobody in or out of the capacity enforcer.
LEMMA SameUnits ==
  ASSUME NEW r, Held("capacity")' = Held("capacity"), \A t \in Held("capacity") : job'[t] = job[t]
  PROVE  Units(r)' = Units(r)
<1>1. ASSUME NEW p, p \in Units(r)'
      PROVE  p \in Units(r)
  <2>1. PICK t \in Held("capacity")' : p \in {t} \X (1..job'[t][r])
    BY <1>1, UnitsAre, Zenon
  <2>2. t \in Held("capacity") /\ job'[t] = job[t]
    BY <2>1
  <2> QED  BY <2>1, <2>2, UnitsAre, Zenon
<1>2. ASSUME NEW p, p \in Units(r)
      PROVE  p \in Units(r)'
  <2>1. PICK t \in Held("capacity") : p \in {t} \X (1..job[t][r])
    BY <1>2, UnitsAre, Zenon
  <2>2. t \in Held("capacity")' /\ job'[t] = job[t]
    BY <2>1
  <2> QED  BY <2>1, <2>2, UnitsAre, Zenon
<1> QED  BY <1>1, <1>2

\* try_acquire adds the units of its thread.
LEMMA MoreUnits ==
  ASSUME AdmissionTypes, NEW t \in Threads, NEW need \in Needs, TakeDoes(t, need), NEW r \in Resources
  PROVE  Units(r)' = Units(r) \cup ({t} \X (1..need[r])) /\ Units(r) \cap ({t} \X (1..need[r])) = {}
<1>0. /\ ThreadFrame(t) /\ step[t] = Out /\ step'[t] = <<"capacity", "held", 0>> /\ job'[t] = need
  BY DEF TakeDoes
<1>1. t \notin Held("capacity")
  BY <1>0, Triples, StandingMembers DEF Held
<1>2. Held("capacity")' = Held("capacity") \cup {t}
  BY <1>0 DEF Held, ThreadFrame
<1>3. \A u \in Held("capacity") : job'[u] = job[u] /\ u # t
  BY <1>0, <1>1 DEF Held, ThreadFrame
<1>4. Units(r)' = Units(r) \cup ({t} \X (1..need[r]))
  <2>1. ASSUME NEW p
        PROVE  p \in Units(r)' <=> p \in Units(r) \/ p \in {t} \X (1..need[r])
    BY <1>0, <1>2, <1>3, UnitsAre, Zenon
  <2> QED  BY <2>1
<1>5. ASSUME NEW p, p \in Units(r), p \in {t} \X (1..need[r])
      PROVE  FALSE
  <2>1. PICK u \in Held("capacity") : p \in {u} \X (1..job[u][r])
    BY <1>5, UnitsAre
  <2>2. p[1] = u /\ p[1] = t
    BY <1>5, <2>1
  <2> QED  BY <1>3, <2>2
<1> QED  BY <1>4, <1>5

\* release takes them away.
LEMMA FewerUnits ==
  ASSUME AdmissionTypes, NEW t \in Threads, NEW need \in Needs, GiveDoes(t, need), NEW r \in Resources
  PROVE  Units(r) = Units(r)' \cup ({t} \X (1..need[r])) /\ Units(r)' \cap ({t} \X (1..need[r])) = {}
<1>0. /\ ThreadFrame(t) /\ step[t] = <<"capacity", "held", 0>> /\ step'[t] = Out /\ job[t] = need
  BY DEF GiveDoes
<1>1. t \notin Held("capacity")'
  BY <1>0, Triples, StandingMembers DEF Held
<1>2. Held("capacity") = Held("capacity")' \cup {t}
  BY <1>0 DEF Held, ThreadFrame
<1>3. \A u \in Held("capacity")' : job'[u] = job[u] /\ u # t
  BY <1>0, <1>1 DEF Held, ThreadFrame
<1>4. Units(r) = Units(r)' \cup ({t} \X (1..need[r]))
  <2>1. ASSUME NEW p
        PROVE  p \in Units(r) <=> p \in Units(r)' \/ p \in {t} \X (1..need[r])
    BY <1>0, <1>2, <1>3, UnitsAre, Zenon
  <2> QED  BY <2>1
<1>5. ASSUME NEW p, p \in Units(r)', p \in {t} \X (1..need[r])
      PROVE  FALSE
  <2>1. PICK u \in Held("capacity")' : p \in {u} \X (1..job'[u][r])
    BY <1>5, UnitsAre
  <2>2. p[1] = u /\ p[1] = t
    BY <1>5, <2>1
  <2> QED  BY <1>3, <2>2
<1> QED  BY <1>4, <1>5

\* Two parts of a set of units.
LEMMA PartsAdd ==
  ASSUME NEW S, NEW T, NEW n \in Nat, NEW t, T = S \cup ({t} \X (1..n)), S \cap ({t} \X (1..n)) = {}
  PROVE  /\ IsFiniteSet(S) <=> IsFiniteSet(T)
         /\ IsFiniteSet(S) => /\ Cardinality(T) = Cardinality(S) + n
                              /\ Cardinality(S) \in Nat /\ Cardinality(T) \in Nat
<1> DEFINE P == {t} \X (1..n)
<1>1. IsFiniteSet(P) /\ Cardinality(P) = n
  BY UnitsOfOne
<1>2. T = S \cup P /\ S \cap P = {} /\ S \subseteq T
  OBVIOUS
<1> HIDE DEF P
<1>3. IsFiniteSet(T) => IsFiniteSet(S)
  BY <1>2, FS_Subset
<1>4. ASSUME IsFiniteSet(S)
      PROVE  IsFiniteSet(T) /\ Cardinality(T) = Cardinality(S) + n /\ Cardinality(S) \in Nat /\ Cardinality(T) \in Nat
  <2>1. IsFiniteSet(T) /\ Cardinality(T) = Cardinality(S) + Cardinality(P) - Cardinality(S \cap P)
    BY <1>1, <1>2, <1>4, FS_Union
  <2>2. Cardinality(S \cap P) = 0
    BY <1>2, FS_EmptySet
  <2>3. Cardinality(S) \in Nat /\ Cardinality(T) \in Nat
    BY <1>4, <2>1, FS_CardinalityType
  <2> QED  BY <1>1, <2>1, <2>2, <2>3
<1> QED  BY <1>3, <1>4

\* Every step keeps it so, for a resource that is not registered again while in use.
LEMMA CapacitySteps ==
  ASSUME AdmissionTypes, AdmissionTypes', AdmissionDoes, NEW r \in Resources, r \notin lost', CapacityAt(r)
  PROVE  CapacityAt(r)'
<1>n. taken[r] \in Nat /\ Total[r] \in Nat /\ taken[r] <= Total[r]
  BY AdmissionConstants DEF AdmissionTypes, CapacityAt
<1>q. ASSUME taken'[r] = taken[r], Held("capacity")' = Held("capacity"), \A t \in Held("capacity") : job'[t] = job[t]
      PROVE  CapacityAt(r)'
  <2>1. Units(r)' = Units(r)
    BY <1>q, SameUnits
  <2> QED  BY <1>q, <2>1 DEF CapacityAt
<1>1. ASSUME NEW t \in Threads, ConcurrencyDoes(t) \/ FairDoes(t)
      PROVE  CapacityAt(r)'
  <2>1. ThreadFrame(t) /\ taken' = taken
    BY <1>1
    DEF ConcurrencyDoes, FairDoes, CheckDoes, AddDoes, PutDoes, ReadDoes, LessDoes,
        AskDoes, WindowDoes, SubmitDoes, FairReadDoes, CompleteDoes
  <2>2. step[t][1] # "capacity" /\ step'[t][1] # "capacity"
    <3>1. CASE ConcurrencyDoes(t)
      BY <3>1, Triples, StandingMembers DEF ConcurrencyDoes, CheckDoes, AddDoes, PutDoes, ReadDoes, LessDoes
    <3>2. CASE FairDoes(t)
      BY <3>2, Triples, StandingMembers DEF FairDoes, AskDoes, WindowDoes, SubmitDoes, FairReadDoes, CompleteDoes
    <3> QED  BY <1>1, <3>1, <3>2
  <2>3. t \notin Held("capacity") /\ t \notin Held("capacity")'
    BY <2>2, Triples DEF Held
  <2>4. Held("capacity")' = Held("capacity") /\ \A u \in Held("capacity") : job'[u] = job[u]
    BY <2>1, <2>3 DEF Held, ThreadFrame
  <2> QED  BY <1>q, <2>1, <2>4
<1>2. ASSUME NEW t \in Threads, NEW need \in Needs, TakeDoes(t, need)
      PROVE  CapacityAt(r)'
  <2>0. need[r] \in Nat
    BY AdmissionConstants
  <2>1. Units(r)' = Units(r) \cup ({t} \X (1..need[r])) /\ Units(r) \cap ({t} \X (1..need[r])) = {}
    BY <1>2, MoreUnits
  <2>2. IsFiniteSet(Units(r)') /\ Cardinality(Units(r)') = Cardinality(Units(r)) + need[r]
    <3>1. IsFiniteSet(Units(r))
      BY DEF CapacityAt
    <3> QED  BY <2>0, <2>1, <3>1, PartsAdd, Zenon
  <2>3. taken[r] + need[r] <= Total[r]
    BY <1>2, <1>n, <2>0 DEF TakeDoes, Fits, Available
  <2>4. taken'[r] = taken[r] + need[r]
    <3>1. taken'[r] = IF taken[r] + need[r] > Total[r] THEN taken[r] ELSE taken[r] + need[r]
      BY <1>2 DEF TakeDoes
    <3> QED  BY <1>n, <2>0, <2>3, <3>1
  <2> QED  BY <2>2, <2>3, <2>4 DEF CapacityAt
<1>3. ASSUME NEW t \in Threads, NEW need \in Needs, GiveDoes(t, need)
      PROVE  CapacityAt(r)'
  <2>0. need[r] \in Nat
    BY AdmissionConstants
  <2>1. Units(r) = Units(r)' \cup ({t} \X (1..need[r])) /\ Units(r)' \cap ({t} \X (1..need[r])) = {}
    BY <1>3, FewerUnits
  <2>2. /\ IsFiniteSet(Units(r)') /\ Cardinality(Units(r)) = Cardinality(Units(r)') + need[r]
        /\ Cardinality(Units(r)') \in Nat
    <3>1. IsFiniteSet(Units(r))
      BY DEF CapacityAt
    <3> QED  BY <2>0, <2>1, <3>1, PartsAdd, Zenon
  <2>3. taken[r] = Cardinality(Units(r)') + need[r]
    BY <2>2 DEF CapacityAt
  <2>4. taken'[r] = IF taken[r] > need[r] THEN taken[r] - need[r] ELSE 0
    BY <1>3 DEF GiveDoes
  <2>5. taken'[r] = Cardinality(Units(r)') /\ taken'[r] <= Total[r]
    BY <1>n, <2>0, <2>2, <2>3, <2>4
  <2> QED  BY <2>2, <2>5 DEF CapacityAt
<1>4. CASE (\E x \in Tenants : RenewDoes(x)) \/ (\E o \in Resources : SlotDoes(o)) \/ StillDoes
  <2>1. UNCHANGED <<step, job>>
    BY <1>4 DEF RenewDoes, SlotDoes, StillDoes
  <2>2. taken'[r] = taken[r]
    <3>1. ASSUME NEW o \in Resources, SlotDoes(o)
          PROVE  taken'[r] = taken[r]
      BY <1>n, <3>1 DEF SlotDoes
    <3> QED  BY <1>4, <3>1 DEF RenewDoes, StillDoes
  <2> QED  BY <1>q, <2>1, <2>2 DEF Held
<1> QED  BY <1>1, <1>2, <1>3, <1>4 DEF AdmissionDoes, CapacityDoes

\* The capacity enforcer prevents oversubscription: what is used of a resource
\* is exactly what its holders asked for and no more than there is, for every
\* number of threads and every requirement, unless the resource is registered
\* again while some of it is held.
THEOREM CapacityIsKept == AdmissionSpec => []CapacityKept
<1> DEFINE Inv == AdmissionTypes /\ NewIsIdle /\ \A r \in Resources \ lost : CapacityAt(r)
<1>1. AdmissionInit => Inv
  <2> SUFFICES ASSUME AdmissionInit, NEW r \in Resources
               PROVE  CapacityAt(r)
    BY AdmissionStarts
  <2>1. Held("capacity") = {} /\ taken[r] = 0
    BY Triples, StandingMembers DEF AdmissionInit, Held
  <2>2. Units(r) = {}
    BY <2>1, UnitsAre
  <2> QED  BY <2>1, <2>2, FS_EmptySet, AdmissionConstants DEF CapacityAt
<1>2. Inv /\ [AdmissionNext]_admissionVars => Inv'
  <2> SUFFICES ASSUME Inv, [AdmissionNext]_admissionVars
               PROVE  Inv'
    OBVIOUS
  <2>1. AdmissionTypes' /\ NewIsIdle' /\ AdmissionDoes
    BY AdmissionKeeps
  <2>2. lost \subseteq lost'
    BY <2>1, HistoryGrows
  <2>3. \A r \in Resources \ lost' : CapacityAt(r)'
    BY <2>1, <2>2, CapacitySteps
  <2> QED  BY <2>1, <2>3
<1>3. Inv => CapacityKept
  BY DEF CapacityKept, CapacityAt
<1> HIDE DEF Inv
<1> QED  BY <1>1, <1>2, <1>3, PTL DEF AdmissionSpec

-----------------------------------------------------------------------------
(* The limiters: the rate of a tenant's submissions.                       *)

\* What makes RateBound inductive, for a tenant with submissions f, a window
\* that began at s with c submissions in it, at time now: those after s are in
\* the window, and those of less than a minute before s were in the one before.
EventsOf(f, a, b) == UNION {{n} \X (1..f[n]) : n \in {m \in 0..MaxTime : a <= m /\ m < b}}
End == MaxTime + 1
RateOf(m, f, s, c, now) ==
  /\ IsFiniteSet(EventsOf(f, 0, End))
  /\ \A n \in 0..MaxTime : n > now => f[n] = 0
  /\ Cardinality(EventsOf(f, s + 1, End)) <= c
  /\ \A n \in 0..s : n + Minute > s => Cardinality(EventsOf(f, n, End)) <= m + c
  /\ \A n \in 0..MaxTime : Cardinality(EventsOf(f, n, n + Minute)) <= 2 * m

AtRecord(t, x) == step[t] = <<"fair", "record", 0>> /\ job[t] = x
RateAt(x) ==
  /\ RateOf(RateMax[x], submits[x], quota[x].start, quota[x].count, time)
  /\ quota[x].count <= RateMax[x]
  /\ ~quota[x].known => quota[x].count = 0 /\ \A n \in 0..MaxTime : submits[x][n] = 0
  /\ \A t \in Threads : AtRecord(t, x) => quota[x].count < RateMax[x]
RateTypes ==
  /\ time \in 0..MaxTime /\ submits \in [Tenants -> [0..MaxTime -> Nat]]
  /\ \A x \in Tenants : quota[x].start <= time
RateInv == RateTypes /\ \A x \in Tenants \ (lost \cup crowded) : RateAt(x)

\* The submissions of a period, one by one.
LEMMA EventsAre ==
  ASSUME NEW f, NEW a, NEW b, NEW e
  PROVE  e \in EventsOf(f, a, b) <=> \E n \in 0..MaxTime : a <= n /\ n < b /\ e \in {n} \X (1..f[n])
BY Zenon DEF EventsOf

\* A longer period has at least as many.
LEMMA MoreEvents ==
  ASSUME NEW f, NEW a \in Nat, NEW b \in Nat, NEW c \in Nat, NEW d \in Nat, c <= a, b <= d \/ d = End,
         IsFiniteSet(EventsOf(f, 0, End))
  PROVE  /\ IsFiniteSet(EventsOf(f, a, b)) /\ IsFiniteSet(EventsOf(f, c, d))
         /\ Cardinality(EventsOf(f, a, b)) \in Nat /\ Cardinality(EventsOf(f, c, d)) \in Nat
         /\ Cardinality(EventsOf(f, a, b)) <= Cardinality(EventsOf(f, c, d))
<1>m. MaxTime \in Nat /\ End \in Nat /\ \A n \in 0..MaxTime : n \in Nat /\ 0 <= n /\ n < End
  BY AdmissionAssumption DEF End
<1>1. \A n \in 0..MaxTime : a <= n /\ n < b => c <= n /\ n < d
  BY <1>m
<1>2. \A e : e \in EventsOf(f, a, b) => e \in EventsOf(f, c, d)
  BY <1>1, EventsAre, Zenon
<1>3. \A e : e \in EventsOf(f, c, d) => e \in EventsOf(f, 0, End)
  BY <1>m, EventsAre, Zenon
<1> DEFINE A == EventsOf(f, a, b)
           C == EventsOf(f, c, d)
           W == EventsOf(f, 0, End)
<1> HIDE DEF A, C, W
<1>4. IsFiniteSet(W) /\ A \subseteq C /\ C \subseteq W
  BY <1>2, <1>3 DEF A, C, W
<1>5. IsFiniteSet(C)
  BY <1>4, FS_Subset
<1>6. IsFiniteSet(A) /\ Cardinality(A) <= Cardinality(C)
  BY <1>4, <1>5, FS_Subset
<1>7. Cardinality(A) \in Nat /\ Cardinality(C) \in Nat
  BY <1>5, <1>6, FS_CardinalityType
<1> QED  BY <1>5, <1>6, <1>7 DEF A, C

\* A period without submissions.
LEMMA NoEvents ==
  ASSUME NEW f, NEW a, NEW b, \A n \in 0..MaxTime : a <= n /\ n < b => f[n] = 0
  PROVE  EventsOf(f, a, b) = {} /\ IsFiniteSet(EventsOf(f, a, b)) /\ Cardinality(EventsOf(f, a, b)) = 0
<1>1. \A e : e \notin EventsOf(f, a, b)
  <2> SUFFICES ASSUME NEW e, e \in EventsOf(f, a, b)
               PROVE  FALSE
    OBVIOUS
  <2>1. PICK n \in 0..MaxTime : a <= n /\ n < b /\ e \in {n} \X (1..f[n])
    BY EventsAre, Zenon
  <2>2. e[2] \in 1..f[n] /\ f[n] = 0
    BY <2>1
  <2> QED  BY <2>2
<1>2. EventsOf(f, a, b) = {}
  BY <1>1
<1> QED  BY <1>2, FS_EmptySet

\* One submission more.
OneAt(f, g, now) == g[now] = f[now] + 1 /\ \A n \in 0..MaxTime : n # now => g[n] = f[n]
EventsGrow(f, g, now, a, b) ==
  /\ IsFiniteSet(EventsOf(g, a, b))
  /\ Cardinality(EventsOf(f, a, b)) \in Nat /\ Cardinality(EventsOf(g, a, b)) \in Nat
  /\ Cardinality(EventsOf(g, a, b)) <= Cardinality(EventsOf(f, a, b)) + 1
  /\ ~(a <= now /\ now < b) => Cardinality(EventsOf(g, a, b)) = Cardinality(EventsOf(f, a, b))

\* It is one event more, at most, of any period.
LEMMA OneEvent ==
  ASSUME NEW f \in [0..MaxTime -> Nat], NEW now \in 0..MaxTime, NEW a \in Nat, NEW b \in Nat,
         NEW g, OneAt(f, g, now),
         IsFiniteSet(EventsOf(f, a, b))
  PROVE  EventsGrow(f, g, now, a, b)
<1> DEFINE F == EventsOf(f, a, b)
           G == EventsOf(g, a, b)
           new == <<now, f[now] + 1>>
<1>1. f[now] \in Nat /\ g[now] = f[now] + 1 /\ \A n \in 0..MaxTime : n # now => g[n] = f[n]
  BY DEF OneAt
<1>2. \A e : e \in {now} \X (1..(f[now] + 1)) <=> e \in {now} \X (1..f[now]) \/ e = new
  <2>1. 1..(f[now] + 1) = (1..f[now]) \cup {f[now] + 1}
    BY <1>1
  <2> HIDE DEF new
  <2>2. ASSUME NEW k
        PROVE  \A e : e \in {now} \X ((1..k) \cup {k + 1}) <=> e \in {now} \X (1..k) \/ e = <<now, k + 1>>
    OBVIOUS
  <2> QED  BY <2>1, <2>2, Zenon DEF new
<1>3. CASE a <= now /\ now < b
  <2>1. \A e : e \in G <=> e \in F \/ e = new
    <3> SUFFICES ASSUME NEW e
                 PROVE  e \in G <=> e \in F \/ e = new
      OBVIOUS
    <3> HIDE DEF new
    <3>1. ASSUME e \in G
          PROVE  e \in F \/ e = new
      <4>1. PICK n \in 0..MaxTime : a <= n /\ n < b /\ e \in {n} \X (1..g[n])
        BY <3>1, EventsAre, Zenon
      <4>2. CASE n = now
        BY <1>1, <1>2, <4>1, <4>2, EventsAre, Zenon
      <4>3. CASE n # now
        BY <1>1, <4>1, <4>3, EventsAre, Zenon
      <4> QED  BY <4>2, <4>3
    <3>2. ASSUME e \in F
          PROVE  e \in G
      <4>1. PICK n \in 0..MaxTime : a <= n /\ n < b /\ e \in {n} \X (1..f[n])
        BY <3>2, EventsAre, Zenon
      <4>2. CASE n = now
        BY <1>1, <1>2, <4>1, <4>2, EventsAre, Zenon
      <4>3. CASE n # now
        BY <1>1, <4>1, <4>3, EventsAre, Zenon
      <4> QED  BY <4>2, <4>3
    <3>3. new \in G
      <4>1. new \in {now} \X (1..g[now])
        BY <1>1, <1>2, Zenon
      <4> QED  BY <1>3, <4>1, EventsAre, Zenon
    <3> QED  BY <3>1, <3>2, <3>3
  <2> HIDE DEF F, G, new
  <2>2. G = F \cup {new} /\ IsFiniteSet(F)
    BY <2>1 DEF F
  <2>3. IsFiniteSet(G) /\ Cardinality(G) = IF new \in F THEN Cardinality(F) ELSE Cardinality(F) + 1
    BY <2>2, FS_AddElement
  <2>4. Cardinality(F) \in Nat
    BY <2>2, FS_CardinalityType
  <2> QED  BY <1>3, <2>3, <2>4 DEF F, G, EventsGrow
<1>4. CASE ~(a <= now /\ now < b)
  <2>1. \A e : e \in G <=> e \in F
    <3>1. \A n \in 0..MaxTime : a <= n /\ n < b => g[n] = f[n]
      BY <1>1, <1>4
    <3>2. ASSUME NEW e
          PROVE  e \in G <=> e \in F
      <4>1. e \in F <=> \E n \in 0..MaxTime : a <= n /\ n < b /\ e \in {n} \X (1..f[n])
        BY EventsAre, Zenon
      <4>2. e \in G <=> \E n \in 0..MaxTime : a <= n /\ n < b /\ e \in {n} \X (1..g[n])
        BY EventsAre, Zenon
      <4> QED  BY <3>1, <4>1, <4>2, Zenon
    <3> QED  BY <3>2
  <2> HIDE DEF F, G, EventsGrow
  <2>2. G = F /\ IsFiniteSet(F)
    BY <2>1 DEF F
  <2>3. Cardinality(F) \in Nat
    BY <2>2, FS_CardinalityType
  <2> QED  BY <2>2, <2>3 DEF F, G, EventsGrow
<1> QED  BY <1>3, <1>4

\* A tenant without submissions, with a window that begins now.
LEMMA RateNew ==
  ASSUME NEW top \in Nat, NEW f, \A n \in 0..MaxTime : f[n] = 0, NEW s, NEW c \in Nat, NEW now
  PROVE  RateOf(top, f, s, c, now)
<1>1. \A a, b : IsFiniteSet(EventsOf(f, a, b)) /\ Cardinality(EventsOf(f, a, b)) = 0
  BY NoEvents
<1> QED  BY <1>1 DEF RateOf

\* A new window, when the old one has lasted a minute.
LEMMA RateRolls ==
  ASSUME NEW top \in Nat, NEW f, NEW s \in Nat, NEW c \in Nat, NEW now \in Nat, s <= now, RateOf(top, f, s, c, now),
         c <= top, now - s >= Minute
  PROVE  RateOf(top, f, now, 0, now)
<1>0. Minute \in Nat /\ End \in Nat /\ MaxTime \in Nat
  BY AdmissionAssumption DEF End
<1>1. /\ IsFiniteSet(EventsOf(f, 0, End)) /\ Cardinality(EventsOf(f, s + 1, End)) <= c
      /\ \A n \in 0..MaxTime : n > now => f[n] = 0
  BY DEF RateOf
<1>2. Cardinality(EventsOf(f, now + 1, End)) = 0
  <2>1. \A n \in 0..MaxTime : now + 1 <= n /\ n < End => f[n] = 0
    BY <1>0, <1>1
  <2> QED  BY <2>1, NoEvents
<1>3. ASSUME NEW n \in 0..now, n + Minute > now
      PROVE  Cardinality(EventsOf(f, n, End)) <= top + 0
  <2>1. n \in Nat /\ s + 1 \in Nat /\ s + 1 <= n
    BY <1>0, <1>3
  <2>2. /\ Cardinality(EventsOf(f, n, End)) <= Cardinality(EventsOf(f, s + 1, End))
        /\ Cardinality(EventsOf(f, n, End)) \in Nat /\ Cardinality(EventsOf(f, s + 1, End)) \in Nat
    BY <1>0, <1>1, <2>1, MoreEvents
  <2> QED  BY <1>0, <1>1, <2>2
<1> QED  BY <1>1, <1>2, <1>3 DEF RateOf

\* A submission that the window still had room for.
LEMMA RateSubmits ==
  ASSUME NEW top \in Nat, NEW f \in [0..MaxTime -> Nat], NEW s \in Nat, NEW c \in Nat, NEW now \in 0..MaxTime, s <= now,
         RateOf(top, f, s, c, now), c < top,
         NEW g, OneAt(f, g, now)
  PROVE  RateOf(top, g, s, c + 1, now)
<1>0. Minute \in Nat /\ End \in Nat /\ MaxTime \in Nat /\ now \in Nat
  BY AdmissionAssumption DEF End
<1>1. /\ IsFiniteSet(EventsOf(f, 0, End)) /\ Cardinality(EventsOf(f, s + 1, End)) <= c
      /\ \A n \in 0..MaxTime : n > now => f[n] = 0
      /\ \A n \in 0..s : n + Minute > s => Cardinality(EventsOf(f, n, End)) <= top + c
      /\ \A n \in 0..MaxTime : Cardinality(EventsOf(f, n, n + Minute)) <= 2 * top
  BY DEF RateOf
<1>2. ASSUME NEW a \in Nat, NEW b \in Nat
      PROVE  /\ IsFiniteSet(EventsOf(g, a, b)) /\ IsFiniteSet(EventsOf(f, a, b))
             /\ Cardinality(EventsOf(f, a, b)) \in Nat /\ Cardinality(EventsOf(g, a, b)) \in Nat
             /\ Cardinality(EventsOf(g, a, b)) <= Cardinality(EventsOf(f, a, b)) + 1
             /\ ~(a <= now /\ now < b) => Cardinality(EventsOf(g, a, b)) = Cardinality(EventsOf(f, a, b))
  <2>1. IsFiniteSet(EventsOf(f, a, b))
    <3>1. 0 \in Nat /\ 0 <= a
      OBVIOUS
    <3> QED  BY <1>0, <1>1, <3>1, MoreEvents
  <2>2. EventsGrow(f, g, now, a, b)
    BY <2>1, OneEvent, Zenon
  <2> QED  BY <2>1, <2>2 DEF EventsGrow
<1>3. IsFiniteSet(EventsOf(g, 0, End))
  BY <1>0, <1>2
<1>4. \A n \in 0..MaxTime : n > now => g[n] = 0
  <2>1. \A n \in 0..MaxTime : n # now => g[n] = f[n]
    BY DEF OneAt
  <2>2. \A n \in 0..MaxTime : n > now => n # now
    BY <1>0
  <2> QED  BY <1>1, <2>1, <2>2, Zenon
<1>5. Cardinality(EventsOf(g, s + 1, End)) <= c + 1
  <2>1. s + 1 \in Nat
    OBVIOUS
  <2>2. /\ Cardinality(EventsOf(f, s + 1, End)) \in Nat /\ Cardinality(EventsOf(g, s + 1, End)) \in Nat
        /\ Cardinality(EventsOf(g, s + 1, End)) <= Cardinality(EventsOf(f, s + 1, End)) + 1
    BY <1>0, <1>2, <2>1, Zenon
  <2>3. ASSUME NEW p \in Nat, NEW q \in Nat, q <= p + 1, p <= c
        PROVE  q <= c + 1
    BY <2>3
  <2> QED  BY <1>1, <2>2, <2>3, Zenon
<1>6. ASSUME NEW n \in 0..s, n + Minute > s
      PROVE  Cardinality(EventsOf(g, n, End)) <= top + (c + 1)
  <2>1. n \in Nat /\ Cardinality(EventsOf(f, n, End)) <= top + c
    BY <1>1, <1>6
  <2>2. /\ Cardinality(EventsOf(f, n, End)) \in Nat /\ Cardinality(EventsOf(g, n, End)) \in Nat
        /\ Cardinality(EventsOf(g, n, End)) <= Cardinality(EventsOf(f, n, End)) + 1
    BY <1>0, <1>2, <2>1
  <2> QED  BY <1>0, <2>1, <2>2
<1>7. ASSUME NEW n \in 0..MaxTime
      PROVE  Cardinality(EventsOf(g, n, n + Minute)) <= 2 * top
  <2> DEFINE w == n + Minute
  <2>0. n \in Nat /\ w \in Nat /\ s + 1 \in Nat
    BY <1>0
  <2>1. /\ Cardinality(EventsOf(f, n, w)) \in Nat /\ Cardinality(EventsOf(g, n, w)) \in Nat
        /\ Cardinality(EventsOf(g, n, w)) <= Cardinality(EventsOf(f, n, w)) + 1
        /\ ~(n <= now /\ now < w) => Cardinality(EventsOf(g, n, w)) = Cardinality(EventsOf(f, n, w))
        /\ Cardinality(EventsOf(f, n, w)) <= 2 * top
    <3>1. Cardinality(EventsOf(f, n, w)) <= 2 * top
      BY <1>1
    <3> HIDE DEF w
    <3> QED  BY <1>2, <2>0, <3>1
  <2>2. CASE ~(n <= now /\ now < w)
    <3> HIDE DEF w
    <3>1. Cardinality(EventsOf(g, n, w)) <= 2 * top
      BY <2>1, <2>2
    <3> QED  BY <3>1 DEF w
  <2>3. CASE n <= now /\ now < w
    <3>1. ASSUME NEW m \in Nat, m <= n, Cardinality(EventsOf(f, m, End)) <= top + c
          PROVE  Cardinality(EventsOf(g, n, w)) <= 2 * top
      <4> HIDE DEF w
      <4>1. /\ Cardinality(EventsOf(f, n, w)) <= Cardinality(EventsOf(f, m, End))
            /\ Cardinality(EventsOf(f, m, End)) \in Nat
        BY <1>0, <1>1, <2>0, <3>1, MoreEvents
      <4> QED  BY <1>0, <2>1, <3>1, <4>1, SMTT(40)
    <3>2. CASE n <= s
      <4>1. n \in 0..s /\ n + Minute > s
        BY <1>0, <2>0, <2>3, <3>2
      <4>2. n <= n /\ Cardinality(EventsOf(f, n, End)) <= top + c
        BY <1>1, <4>1
      <4> QED  BY <2>0, <3>1, <4>2
    <3>3. CASE s < n
      <4>1. s + 1 <= n
        BY <2>0, <3>3
      <4>2. Cardinality(EventsOf(f, s + 1, End)) \in Nat
        BY <1>0, <1>2, <2>0
      <4>3. Cardinality(EventsOf(f, s + 1, End)) <= top + c
        BY <1>0, <1>1, <4>2
      <4> QED  BY <2>0, <3>1, <4>1, <4>3
    <3> QED  BY <2>0, <3>2, <3>3
  <2> QED  BY <2>2, <2>3
<1> QED  BY <1>3, <1>4, <1>5, <1>6, <1>7 DEF RateOf

\* As time passes.
LEMMA RateWaits ==
  ASSUME NEW top \in Nat, NEW f, NEW s, NEW c, NEW now \in Nat, NEW later \in Nat, now <= later, RateOf(top, f, s, c, now)
  PROVE  RateOf(top, f, s, c, later)
<1>0. MaxTime \in Nat
  BY AdmissionAssumption
<1>1. /\ IsFiniteSet(EventsOf(f, 0, End)) /\ Cardinality(EventsOf(f, s + 1, End)) <= c
      /\ \A n \in 0..MaxTime : n > now => f[n] = 0
      /\ \A n \in 0..s : n + Minute > s => Cardinality(EventsOf(f, n, End)) <= top + c
      /\ \A n \in 0..MaxTime : Cardinality(EventsOf(f, n, n + Minute)) <= 2 * top
  BY DEF RateOf
<1>2. \A n \in 0..MaxTime : n > later => f[n] = 0
  BY <1>0, <1>1
<1> QED  BY <1>1, <1>2 DEF RateOf

\* What a step does to the rate of x: nothing, a new window, or a submission.
RateSteady(x) ==
  /\ quota'[x].start = quota[x].start /\ quota'[x].count = quota[x].count
  /\ quota'[x].known <=> quota[x].known
  /\ submits'[x] = submits[x] /\ time <= time'
RateAnew(x) ==
  /\ quota'[x].start = time /\ quota'[x].count = 0
  /\ quota[x].known => quota'[x].known
  /\ ~quota[x].known \/ time - quota[x].start >= Minute
  /\ submits'[x] = submits[x] /\ time' = time
RateMore(t, x) ==
  /\ ThreadFrame(t) /\ AtRecord(t, x) /\ ~AtRecord(t, x)'
  /\ quota'[x].start = Known(x).start /\ quota'[x].count = Known(x).count + 1 /\ quota'[x].known
  /\ OneAt(submits[x], submits'[x], time) /\ time' = time
StaysAtRecord(x) == \A t \in Threads : AtRecord(t, x)' => AtRecord(t, x) \/ quota'[x].count < RateMax[x]
RateStep(x) ==
  /\ RateSteady(x) \/ RateAnew(x) \/ \E t \in Threads : RateMore(t, x)
  /\ StaysAtRecord(x)

\* The parts of a quota that the rate is about.
LEMMA RatePartsOf ==
  ASSUME AdmissionTypes, NEW x \in Tenants
  PROVE  /\ quota[x].start \in Nat /\ quota[x].count \in Nat /\ time \in Nat
         /\ Known(x).start = IF quota[x].known THEN quota[x].start ELSE time
         /\ Known(x).count = IF quota[x].known THEN quota[x].count ELSE 0
<1>1. quota[x] \in Quota /\ time \in Nat
  BY DEF AdmissionTypes
<1>2. NewQuota.start = time /\ NewQuota.count = 0
  BY DEF NewQuota
<1> QED  BY <1>1, <1>2 DEF Quota, Known

\* A window is left alone, or begun anew after a minute.
LEMMA WindowOf ==
  ASSUME AdmissionTypes, NEW x \in Tenants
  PROVE  /\ Rolled(quota[x]).known <=> quota[x].known
         /\ \/ Rolled(quota[x]).start = quota[x].start /\ Rolled(quota[x]).count = quota[x].count
            \/ /\ time - quota[x].start >= Minute
               /\ Rolled(quota[x]).start = time /\ Rolled(quota[x]).count = 0
<1>1. quota[x] \in Quota /\ time \in Nat
  BY DEF AdmissionTypes
<1>2. ASSUME NEW q \in Quota
      PROVE  LET r == [q EXCEPT !.start = time, !.count = 0]
             IN r.start = time /\ r.count = 0 /\ (r.known <=> q.known)
  BY DEF Quota
<1>3. CASE time - quota[x].start >= Minute
  BY <1>1, <1>2, <1>3 DEF Rolled
<1>4. CASE ~(time - quota[x].start >= Minute)
  BY <1>1, <1>4 DEF Rolled
<1> QED  BY <1>3, <1>4

\* Steps that leave the windows and the submissions alone, and whose thread does
\* not come to record_submit.
LEMMA RateQuiet ==
  ASSUME NEW t \in Threads, ThreadFrame(t), step'[t] # <<"fair", "record", 0>>,
         time \in Nat, time' = time, submits' = submits, NEW x,
         quota'[x].start = quota[x].start, quota'[x].count = quota[x].count, quota'[x].known <=> quota[x].known
  PROVE  RateStep(x)
<1>1. StaysAtRecord(x)
  BY DEF StaysAtRecord, AtRecord, ThreadFrame
<1>2. RateSteady(x)
  BY DEF RateSteady
<1> QED  BY <1>1, <1>2 DEF RateStep

\* can_submit's first half.
LEMMA ActiveRate ==
  ASSUME AdmissionTypes, NewIsIdle, NEW t \in Threads, NEW y \in Tenants, FairActive(t, y), NEW x \in Tenants
  PROVE  RateStep(x)
<1>0. /\ quota' = [quota EXCEPT ![y] = Known(y)] /\ UNCHANGED <<time, submits>> /\ AskDoes(t, y)
      /\ step'[t] = <<"fair", "window", 0>>
  BY ActiveSteps DEF FairActive, To, AdmissionTypes
<1>1. time \in Nat /\ ThreadFrame(t) /\ step'[t] # <<"fair", "record", 0>>
  BY <1>0, Triples DEF AdmissionTypes, AskDoes
<1>2. CASE x # y \/ quota[y].known
  <2>1. quota'[x] = quota[x]
    BY <1>0, <1>2 DEF AdmissionTypes, Known
  <2> QED  BY <1>0, <1>1, <2>1, RateQuiet
<1>3. CASE x = y /\ ~quota[y].known
  <2>1. quota'[x] = Known(x)
    BY <1>0, <1>3 DEF AdmissionTypes
  <2>2. RateAnew(x)
    BY <1>0, <1>3, <2>1, QuotaTypes, RatePartsOf DEF RateAnew
  <2>3. StaysAtRecord(x)
    BY <1>1 DEF StaysAtRecord, AtRecord, ThreadFrame
  <2> QED  BY <2>2, <2>3 DEF RateStep
<1> QED  BY <1>2, <1>3

\* can_submit's second half.
LEMMA WindowRate ==
  ASSUME AdmissionTypes, NEW t \in Threads, FairWindow(t), NEW x \in Tenants
  PROVE  RateStep(x)
<1> DEFINE y == job[t]
<1>0. /\ quota' = [quota EXCEPT ![y] = Rolled(quota[y])] /\ UNCHANGED <<time, submits>>
      /\ IF Rolled(quota[y]).count < RateMax[y] THEN To(t, "fair", "record", 0) /\ UNCHANGED job ELSE Leave(t)
  BY DEF FairWindow
<1>w. y \in Tenants /\ WindowDoes(t, y)
  BY WindowSteps
<1> HIDE DEF y
<1>1. time \in Nat /\ ThreadFrame(t)
  BY <1>w DEF AdmissionTypes, WindowDoes
<1>2. /\ quota'[y] = Rolled(quota[y]) /\ \A z \in Tenants \ {y} : quota'[z] = quota[z]
  BY <1>0, <1>w DEF AdmissionTypes
<1>3. step'[t] = <<"fair", "record", 0>> => job'[t] = y /\ quota'[y].count < RateMax[y]
  <2>1. CASE Rolled(quota[y]).count < RateMax[y]
    BY <1>0, <1>2, <2>1 DEF y
  <2>2. CASE ~(Rolled(quota[y]).count < RateMax[y])
    <3>1. step'[t] = Out
      BY <1>0, <2>2 DEF Leave, AdmissionTypes
    <3> QED  BY <3>1, Triples DEF Out
  <2> QED  BY <2>1, <2>2
<1>4. StaysAtRecord(x)
  BY <1>1, <1>3 DEF StaysAtRecord, AtRecord, ThreadFrame
<1>5. RateSteady(x) \/ RateAnew(x)
  <2>1. CASE x # y
    BY <1>0, <1>1, <1>2, <2>1 DEF RateSteady
  <2>2. CASE x = y
    <3>1. quota'[x] = Rolled(quota[x])
      BY <1>2, <2>2
    <3>2. \/ Rolled(quota[x]).start = quota[x].start /\ Rolled(quota[x]).count = quota[x].count
          \/ /\ time - quota[x].start >= Minute
             /\ Rolled(quota[x]).start = time /\ Rolled(quota[x]).count = 0
      BY WindowOf
    <3> QED  BY <1>0, <1>1, <3>1, <3>2, WindowOf DEF RateSteady, RateAnew
  <2> QED  BY <2>1, <2>2
<1> QED  BY <1>4, <1>5 DEF RateStep

\* next_eligible_tenant: the tenant it picks has no quota yet, or room in its
\* window, which begins anew if it is over.
LEMMA PickRate ==
  ASSUME AdmissionTypes, NewIsIdle, NEW t \in Threads, NEW cand \in Candidates, PickTenant(t, cand),
         NEW x \in Tenants, ~quota[x].known => quota[x].count = 0
  PROVE  RateStep(x)
<1> DEFINE i == NextEligible(cand)
           L == Len(cand)
           asked == /\ quota[x].active < TenantMax[x]
                    /\ \E k \in DOMAIN cand : cand[k] = x /\ \A h \in 1..k : quota[cand[h]].known
<1>0. /\ UNCHANGED <<time, submits>>
      /\ quota'[x] = IF asked THEN Rolled(quota[x]) ELSE quota[x]
      /\ IF i = 0 THEN UNCHANGED <<step, job>>
         ELSE job' = [job EXCEPT ![t] = cand[i]] /\ To(t, "fair", "record", 0)
  BY DEF PickTenant
<1>c. L \in Nat /\ DOMAIN cand = 1..L /\ \A k \in 1..L : cand[k] \in Tenants
  BY CandidatesAre
<1>m. /\ i \in 0..L
      /\ i # 0 => /\ i \in 1..L /\ cand[i] \in Tenants
                  /\ ~quota[cand[i]].known \/ CanSubmit(cand[i])
  BY PickMay
<1>f. (\E k \in 1..L : ~quota[cand[k]].known) => i \in 1..L /\ ~quota[cand[i]].known
  <2>1. PickIsFair
    BY PickFair
  <2>2. ASSUME NEW k \in 1..L, ~quota[cand[k]].known
        PROVE  i \in {h \in DOMAIN cand : ~quota[cand[h]].known}
    <3>1. {h \in DOMAIN cand : ~quota[cand[h]].known} # {}
      BY <1>c, <2>2
    <3> QED  BY <2>1, <3>1, Zenon DEF PickIsFair
  <2> QED  BY <1>c, <2>2
<1>n. time \in Nat /\ RateMax[x] \in Nat /\ RateMax[x] > 0
  BY AdmissionConstants DEF AdmissionTypes
<1>1. RateSteady(x) \/ RateAnew(x)
  <2>1. CASE asked
    BY <1>0, <1>n, <2>1, WindowOf DEF RateSteady, RateAnew
  <2>2. CASE ~asked
    BY <1>0, <1>n, <2>2 DEF RateSteady
  <2> QED  BY <2>1, <2>2
<1>2. ASSUME i # 0, cand[i] = x
      PROVE  quota'[x].count < RateMax[x]
  <2>1. CASE ~quota[x].known
    <3>1. ~asked
      <4> SUFFICES ASSUME NEW k \in DOMAIN cand, cand[k] = x, \A h \in 1..k : quota[cand[h]].known
                   PROVE  FALSE
        OBVIOUS
      <4>1. k \in 1..k
        BY <1>c
      <4> QED  BY <2>1, <4>1
    <3> QED  BY <1>0, <1>n, <2>1, <3>1
  <2>2. CASE quota[x].known
    <3>1. CanSubmit(x) /\ \A k \in 1..L : quota[cand[k]].known
      BY <1>f, <1>m, <1>2, <2>2
    <3>2. asked
      <4>1. i \in DOMAIN cand /\ \A h \in 1..i : h \in 1..L
        BY <1>c, <1>m, <1>2
      <4>2. \A h \in 1..i : quota[cand[h]].known
        BY <3>1, <4>1
      <4> QED  BY <1>2, <3>1, <4>1, <4>2 DEF CanSubmit
    <3> QED  BY <1>0, <3>1, <3>2 DEF CanSubmit
  <2> QED  BY <2>1, <2>2
<1> HIDE DEF i, asked
<1>3. StaysAtRecord(x)
  <2>1. CASE i = 0
    BY <1>0, <2>1 DEF StaysAtRecord, AtRecord
  <2>2. CASE i # 0
    <3>1. job'[t] = cand[i] /\ \A u \in Threads \ {t} : step'[u] = step[u] /\ job'[u] = job[u]
      BY <1>0, <2>2 DEF To, AdmissionTypes
    <3> QED  BY <1>2, <2>2, <3>1 DEF StaysAtRecord, AtRecord
  <2> QED  BY <2>1, <2>2
<1> QED  BY <1>1, <1>3 DEF RateStep

\* record_submit.
LEMMA SubmitRate ==
  ASSUME AdmissionTypes, NewIsIdle, RateTypes, NEW t \in Threads, FairRecordSubmit(t), NEW x \in Tenants,
         x \notin lost \cup crowded
  PROVE  RateStep(x)
<1> DEFINE y == job[t]
           q == [Known(y) EXCEPT !.active = @ + 1, !.count = @ + 1]
<1>0. /\ quota' = [quota EXCEPT ![y] = q] /\ time' = time /\ step[t] = <<"fair", "record", 0>>
      /\ submits' = IF y \in lost \cup crowded THEN submits ELSE [submits EXCEPT ![y][time] = @ + 1]
  BY DEF FairRecordSubmit
<1>w. y \in Tenants /\ SubmitDoes(t, y)
  BY SubmitSteps
<1>1. /\ time \in Nat /\ ThreadFrame(t) /\ step'[t] = <<"fair", "held", 0>>
  BY <1>w DEF AdmissionTypes, SubmitDoes
<1>2. step'[t] # <<"fair", "record", 0>>
  BY <1>1, Triples
<1>3. quota'[y] = q /\ \A z \in Tenants \ {y} : quota'[z] = quota[z]
  BY <1>0, <1>w DEF AdmissionTypes
<1>4. q.start = Known(y).start /\ q.count = Known(y).count + 1 /\ q.known
  <2>1. Known(y) \in Quota /\ Known(y).known
    BY <1>w, QuotaTypes
  <2>2. ASSUME NEW r \in Quota
        PROVE  LET a == [r EXCEPT !.active = @ + 1]
               IN a \in Quota /\ a.start = r.start /\ a.count = r.count /\ a.known = r.known
    BY DEF Quota
  <2>3. ASSUME NEW r \in Quota
        PROVE  LET c == [r EXCEPT !.count = @ + 1]
               IN c.start = r.start /\ c.count = r.count + 1 /\ c.known = r.known
    BY DEF Quota
  <2>4. ASSUME NEW r \in Quota
        PROVE  [r EXCEPT !.active = @ + 1, !.count = @ + 1]
                 = [[r EXCEPT !.active = @ + 1] EXCEPT !.count = @ + 1]
    OBVIOUS
  <2> DEFINE a == [Known(y) EXCEPT !.active = @ + 1]
  <2>5. a \in Quota /\ a.start = Known(y).start /\ a.count = Known(y).count /\ a.known = Known(y).known
    BY <2>1, <2>2, Zenon
  <2>6. q = [a EXCEPT !.count = @ + 1]
    BY <2>1, <2>4, Zenon
  <2> HIDE DEF q, a
  <2>7. q.start = a.start /\ q.count = a.count + 1 /\ q.known = a.known
    BY <2>5, <2>6, <2>3, Zenon
  <2> QED  BY <2>1, <2>5, <2>7, Zenon
<1>5. \A z \in Tenants \ {y} : submits'[z] = submits[z]
  BY <1>0 DEF RateTypes
<1>6. y \notin lost \cup crowded => OneAt(submits[y], submits'[y], time)
  <2> SUFFICES ASSUME y \notin lost \cup crowded
               PROVE  OneAt(submits[y], submits'[y], time)
    OBVIOUS
  <2>1. submits'[y] = [submits[y] EXCEPT ![time] = @ + 1]
    BY <1>0, <1>w DEF RateTypes
  <2>2. submits[y] \in [0..MaxTime -> Nat] /\ time \in 0..MaxTime
    BY <1>w DEF RateTypes
  <2> QED  BY <2>1, <2>2 DEF OneAt
<1>7. job[t] = y
  OBVIOUS
<1> HIDE DEF y, q
<1>8. StaysAtRecord(x)
  BY <1>1, <1>2 DEF StaysAtRecord, AtRecord, ThreadFrame
<1>9. CASE x = y
  <2>1. RateMore(t, x)
    BY <1>0, <1>1, <1>2, <1>3, <1>4, <1>6, <1>7, <1>9 DEF RateMore, AtRecord
  <2> QED  BY <1>8, <2>1 DEF RateStep
<1>10. CASE x # y
  BY <1>0, <1>1, <1>3, <1>5, <1>8, <1>10 DEF RateStep, RateSteady
<1> QED  BY <1>9, <1>10

\* Every step does one of these to the rate of a tenant that is neither lost nor
\* crowded.
LEMMA RateCases ==
  ASSUME AdmissionTypes, NewIsIdle, RateTypes, [AdmissionNext]_admissionVars, NEW x \in Tenants,
         x \notin lost \cup crowded, x \notin lost', ~quota[x].known => quota[x].count = 0
  PROVE  RateStep(x)
<1>t. time \in Nat
  BY DEF AdmissionTypes
<1>s. ASSUME UNCHANGED <<step, job>>
      PROVE  StaysAtRecord(x)
  BY <1>s DEF StaysAtRecord, AtRecord
<1>u. ASSUME quota' = quota
      PROVE  /\ quota'[x].start = quota[x].start /\ quota'[x].count = quota[x].count
             /\ quota'[x].known <=> quota[x].known
  BY <1>u
<1>1. CASE ConcurrencyNext
  <2>1. UNCHANGED <<time, quota, submits>>
    BY <1>1 DEF ConcurrencyNext, ConcurrencyAdd, ConcurrencyPut, ConcurrencyRead, ConcurrencyLess,
                ConcurrencyCheck, others
  <2>2. PICK t \in Threads : ConcurrencyDoes(t)
    <3>1. PICK t \in Threads : \/ ConcurrencyAdd(t) \/ ConcurrencyPut(t) \/ ConcurrencyRead(t) \/ ConcurrencyLess(t)
                               \/ \E ty \in Types : ConcurrencyCheck(t, ty)
      BY <1>1 DEF ConcurrencyNext
    <3>2. CASE ConcurrencyAdd(t)
      <4>1. AddDoes(t, step[t][3]) /\ step[t][3] \in 1..4
        BY <3>2, AddSteps DEF AddDoes
      <4> QED  BY <4>1 DEF ConcurrencyDoes
    <3>3. CASE ConcurrencyPut(t)
      <4>1. PutDoes(t, step[t][3]) /\ step[t][3] \in 1..4
        BY <3>3, PutSteps DEF PutDoes
      <4> QED  BY <4>1 DEF ConcurrencyDoes
    <3>4. CASE ConcurrencyRead(t)
      BY <3>4, ReadSteps DEF ConcurrencyDoes
    <3>5. CASE ConcurrencyLess(t)
      <4>1. LessDoes(t, step[t][3]) /\ step[t][3] \in 1..4
        BY <3>5, LessSteps DEF LessDoes
      <4> QED  BY <4>1 DEF ConcurrencyDoes
    <3>6. CASE \E ty \in Types : ConcurrencyCheck(t, ty)
      BY <3>6, CheckSteps DEF ConcurrencyDoes
    <3> QED  BY <3>1, <3>2, <3>3, <3>4, <3>5, <3>6
  <2>3. ThreadFrame(t) /\ step'[t][1] # "fair"
    BY <2>2, Triples, StandingMembers DEF ConcurrencyDoes, CheckDoes, AddDoes, PutDoes, ReadDoes, LessDoes
  <2>4. step'[t] # <<"fair", "record", 0>>
    BY <2>3, Triples
  <2> QED  BY <1>t, <1>u, <2>1, <2>3, <2>4, RateQuiet
<1>2. ASSUME NEW t \in Threads, CapacityRelease(t) \/ \E need \in Needs : CapacityTryAcquire(t, need)
      PROVE  RateStep(x)
  <2>1. UNCHANGED <<time, quota, submits>>
    BY <1>2 DEF CapacityRelease, CapacityTryAcquire
  <2>2. CapacityDoes(t)
    BY <1>2, GiveSteps, TakeSteps DEF CapacityDoes
  <2>3. ThreadFrame(t) /\ step'[t][1] # "fair"
    BY <2>2, Triples, StandingMembers DEF CapacityDoes, TakeDoes, GiveDoes
  <2>4. step'[t] # <<"fair", "record", 0>>
    BY <2>3, Triples
  <2> QED  BY <1>t, <1>u, <2>1, <2>3, <2>4, RateQuiet
<1>3. ASSUME NEW t \in Threads, FairRead(t)
      PROVE  RateStep(x)
  <2>1. UNCHANGED <<time, quota, submits>> /\ step'[t] = <<"fair", "less", 0>>
    BY <1>3 DEF FairRead, To, AdmissionTypes
  <2>2. ThreadFrame(t)
    BY <1>3, FairReadSteps DEF FairReadDoes
  <2>3. step'[t] # <<"fair", "record", 0>>
    BY <2>1, Triples
  <2> QED  BY <1>t, <1>u, <2>1, <2>2, <2>3, RateQuiet
<1>4. ASSUME NEW t \in Threads, FairComplete(t)
      PROVE  RateStep(x)
  <2> DEFINE y == job[t]
  <2>1. /\ UNCHANGED <<time, submits>> /\ quota' = [quota EXCEPT ![y].active = Less1(val[t])]
    BY <1>4 DEF FairComplete
  <2>2. ThreadFrame(t) /\ step'[t] = Out /\ y \in Tenants
    BY <1>4, CompleteSteps DEF CompleteDoes
  <2> HIDE DEF y
  <2>3. step'[t] # <<"fair", "record", 0>>
    BY <2>2, Triples DEF Out
  <2>4. /\ quota'[x].start = quota[x].start /\ quota'[x].count = quota[x].count
        /\ quota'[x].known <=> quota[x].known
    <3>1. quota'[x] = quota[x] \/ quota'[x] = [quota[x] EXCEPT !.active = Less1(val[t])]
      BY <2>1, <2>2 DEF AdmissionTypes
    <3>2. ASSUME NEW q \in Quota, NEW n, NEW r, r = [q EXCEPT !.active = n]
          PROVE  r.start = q.start /\ r.count = q.count /\ r.known = q.known
      BY <3>2 DEF Quota
    <3>3. quota[x] \in Quota
      BY DEF AdmissionTypes
    <3>4. CASE quota'[x] = [quota[x] EXCEPT !.active = Less1(val[t])]
      <4>1. /\ quota'[x].start = quota[x].start /\ quota'[x].count = quota[x].count
            /\ quota'[x].known = quota[x].known
        <5> DEFINE n == Less1(val[t])
                   q == quota[x]
                   r == quota'[x]
        <5>1. q \in Quota /\ r = [q EXCEPT !.active = n]
          BY <3>3, <3>4
        <5> HIDE DEF n, q, r
        <5>2. r.start = q.start /\ r.count = q.count /\ r.known = q.known
          BY <3>2, <5>1
        <5> QED  BY <5>2 DEF q, r
      <4> QED  BY <4>1
    <3>5. CASE quota'[x] = quota[x]
      BY <3>5
    <3> QED  BY <3>1, <3>4, <3>5
  <2> QED  BY <1>t, <2>1, <2>2, <2>3, <2>4, RateQuiet
<1>5. ASSUME NEW y \in Tenants, RegisterTenant(y)
      PROVE  RateStep(x)
  <2>1. /\ UNCHANGED <<time, submits, step, job>> /\ quota' = [quota EXCEPT ![y] = NewQuota]
        /\ lost' = IF quota[y].known THEN lost \cup {y} ELSE lost
    BY <1>5 DEF RegisterTenant
  <2>2. CASE x = y
    <3>1. quota'[x] = NewQuota /\ ~quota[x].known
      BY <2>1, <2>2 DEF AdmissionTypes
    <3>2. RateAnew(x)
      BY <2>1, <3>1 DEF RateAnew, NewQuota
    <3> QED  BY <1>s, <2>1, <3>2 DEF RateStep
  <2>3. CASE x # y
    <3>1. quota'[x] = quota[x]
      BY <2>1, <2>3 DEF AdmissionTypes
    <3> QED  BY <1>s, <1>t, <2>1, <3>1 DEF RateStep, RateSteady
  <2> QED  BY <2>2, <2>3
<1>6. CASE TimePasses \/ (\E r \in Resources : RegisterResource(r)) \/ UNCHANGED admissionVars
  <2>1. UNCHANGED <<quota, submits, step, job>> /\ (time' = time \/ time' = time + 1)
    BY <1>6 DEF TimePasses, RegisterResource, admissionVars
  <2> QED  BY <1>s, <1>t, <1>u, <2>1 DEF RateStep, RateSteady
<1>7. CASE FairNext
  BY <1>3, <1>4, <1>5, <1>6, <1>7, ActiveRate, PickRate, WindowRate, SubmitRate DEF FairNext
<1>8. CASE CapacityNext
  BY <1>2, <1>6, <1>8 DEF CapacityNext
<1> QED  BY <1>1, <1>6, <1>7, <1>8 DEF AdmissionNext

\* Time stays below its bound and no window begins in the future.
LEMMA RateTypesKept ==
  ASSUME AdmissionTypes, AdmissionTypes', NewIsIdle, RateTypes, [AdmissionNext]_admissionVars
  PROVE  RateTypes'
<1>0. time \in Nat /\ MaxTime \in Nat /\ time \in 0..MaxTime
  BY AdmissionAssumption DEF AdmissionTypes, RateTypes
<1>1. time' \in 0..MaxTime /\ time <= time'
  <2>1. time' = time \/ (time < MaxTime /\ time' = time + 1)
    BY DEF AdmissionNext, ConcurrencyNext, FairNext, CapacityNext, ConcurrencyAdd, ConcurrencyPut,
       ConcurrencyRead, ConcurrencyLess, ConcurrencyCheck, others, FairWindow, FairRecordSubmit, FairRead,
       FairComplete, FairActive, PickTenant, RegisterTenant, TimePasses, CapacityRelease,
       CapacityTryAcquire, RegisterResource, admissionVars
  <2> QED  BY <1>0, <2>1
<1>2. submits' \in [Tenants -> [0..MaxTime -> Nat]]
  <2>1. submits' = submits \/ \E t \in Threads : FairRecordSubmit(t)
    BY DEF AdmissionNext, ConcurrencyNext, FairNext, CapacityNext, ConcurrencyAdd, ConcurrencyPut,
       ConcurrencyRead, ConcurrencyLess, ConcurrencyCheck, others, FairWindow, FairRead,
       FairComplete, FairActive, PickTenant, RegisterTenant, TimePasses, CapacityRelease,
       CapacityTryAcquire, RegisterResource, admissionVars
  <2>2. ASSUME NEW t \in Threads, FairRecordSubmit(t)
        PROVE  submits' \in [Tenants -> [0..MaxTime -> Nat]]
    <3>1. job[t] \in Tenants
      BY <2>2, SubmitSteps
    <3>2. submits' = submits \/ submits' = [submits EXCEPT ![job[t]][time] = @ + 1]
      BY <2>2 DEF FairRecordSubmit
    <3>3. ASSUME NEW f \in [0..MaxTime -> Nat]
          PROVE  [f EXCEPT ![time] = @ + 1] \in [0..MaxTime -> Nat]
      BY <1>0
    <3>4. submits[job[t]] \in [0..MaxTime -> Nat]
      BY <3>1 DEF RateTypes
    <3>5. [submits[job[t]] EXCEPT ![time] = @ + 1] \in [0..MaxTime -> Nat]
      BY <3>3, <3>4, Zenon
    <3> DEFINE g == [submits[job[t]] EXCEPT ![time] = @ + 1]
    <3>6. submits' = submits \/ submits' = [submits EXCEPT ![job[t]] = g]
      BY <3>2
    <3> HIDE DEF g
    <3> QED  BY <3>1, <3>5, <3>6 DEF RateTypes, g
  <2> QED  BY <2>1, <2>2 DEF RateTypes
<1>3. ASSUME NEW x \in Tenants
      PROVE  quota'[x].start = quota[x].start \/ quota'[x].start = time
  <2>q. quota[x] \in Quota /\ Known(x) \in Quota
    BY QuotaTypes
  <2>a. Known(x).start = quota[x].start \/ Known(x).start = time
    BY RatePartsOf
  <2>1. CASE quota' = quota
    BY <2>1
  <2>2. ASSUME NEW t \in Threads, NEW y \in Tenants, FairActive(t, y)
        PROVE  quota'[x].start = quota[x].start \/ quota'[x].start = time
    <3>1. quota'[x] = quota[x] \/ quota'[x] = Known(x)
      BY <2>2 DEF FairActive, AdmissionTypes
    <3> QED  BY <2>a, <3>1
  <2>3. ASSUME NEW t \in Threads, FairWindow(t)
        PROVE  quota'[x].start = quota[x].start \/ quota'[x].start = time
    <3>1. quota'[x] = quota[x] \/ quota'[x] = Rolled(quota[x])
      BY <2>3, WindowSteps DEF FairWindow, AdmissionTypes
    <3> QED  BY <3>1, WindowOf
  <2>4. ASSUME NEW t \in Threads, NEW cand \in Candidates, PickTenant(t, cand)
        PROVE  quota'[x].start = quota[x].start \/ quota'[x].start = time
    <3>1. quota'[x] = quota[x] \/ quota'[x] = Rolled(quota[x])
      BY <2>4 DEF PickTenant
    <3> QED  BY <3>1, WindowOf
  <2>5. ASSUME NEW t \in Threads, FairRecordSubmit(t)
        PROVE  quota'[x].start = quota[x].start \/ quota'[x].start = time
    <3>1. \/ quota'[x] = quota[x]
          \/ quota'[x] = [Known(x) EXCEPT !.active = @ + 1, !.count = @ + 1]
      BY <2>5, SubmitSteps DEF FairRecordSubmit, AdmissionTypes
    <3>2. ASSUME NEW r \in Quota
          PROVE  [r EXCEPT !.active = @ + 1, !.count = @ + 1].start = r.start
      BY DEF Quota
    <3> QED  BY <2>q, <2>a, <3>1, <3>2
  <2>6. ASSUME NEW t \in Threads, FairComplete(t)
        PROVE  quota'[x].start = quota[x].start \/ quota'[x].start = time
    <3>1. quota'[x] = quota[x] \/ quota'[x] = [quota[x] EXCEPT !.active = Less1(val[t])]
      BY <2>6, CompleteSteps DEF FairComplete, AdmissionTypes
    <3>2. ASSUME NEW r \in Quota, NEW n
          PROVE  [r EXCEPT !.active = n].start = r.start
      BY DEF Quota
    <3> QED  BY <2>q, <3>1, <3>2
  <2>7. ASSUME NEW y \in Tenants, RegisterTenant(y)
        PROVE  quota'[x].start = quota[x].start \/ quota'[x].start = time
    <3>1. quota'[x] = quota[x] \/ quota'[x] = NewQuota
      BY <2>7 DEF RegisterTenant, AdmissionTypes
    <3> QED  BY <3>1 DEF NewQuota
  <2>8. CASE ConcurrencyNext \/ CapacityNext \/ TimePasses \/ UNCHANGED admissionVars
             \/ \E t \in Threads : FairRead(t)
    <3>1. quota' = quota
      BY <2>8 DEF ConcurrencyNext, CapacityNext, ConcurrencyAdd, ConcurrencyPut,
         ConcurrencyRead, ConcurrencyLess, ConcurrencyCheck, others, FairRead,
         TimePasses, CapacityRelease, CapacityTryAcquire, RegisterResource, admissionVars
    <3> QED  BY <2>1, <3>1
  <2> QED  BY <2>2, <2>3, <2>4, <2>5, <2>6, <2>7, <2>8 DEF AdmissionNext, FairNext
<1>4. \A x \in Tenants : quota'[x].start <= time'
  <2>1. \A x \in Tenants : quota[x].start \in Nat /\ quota[x].start <= time
    BY RatePartsOf DEF RateTypes
  <2> QED  BY <1>0, <1>1, <1>3, <2>1
<1> QED  BY <1>1, <1>2, <1>4 DEF RateTypes

\* The rate of a tenant that is neither lost nor crowded stays within its bound.
LEMMA RateKept ==
  ASSUME AdmissionTypes, AdmissionTypes', RateTypes, RateTypes', NEW x \in Tenants,
         BelowQuota(x), RateAt(x), RateStep(x)
  PROVE  RateAt(x)'
<1> DEFINE f == submits[x]
           s == quota[x].start
           c == quota[x].count
<1>0. /\ s \in Nat /\ c \in Nat /\ time \in Nat /\ time' \in Nat /\ s <= time /\ RateMax[x] \in Nat /\ RateMax[x] > 0
      /\ quota'[x].start \in Nat /\ quota'[x].count \in Nat
      /\ f \in [0..MaxTime -> Nat] /\ time \in 0..MaxTime
  <2>1. quota'[x] \in Quota /\ time' \in Nat
    BY DEF AdmissionTypes
  <2> QED  BY <2>1, RatePartsOf, AdmissionConstants DEF RateTypes, Quota
<1>1. /\ RateOf(RateMax[x], f, s, c, time) /\ c <= RateMax[x]
      /\ ~quota[x].known => c = 0 /\ \A n \in 0..MaxTime : f[n] = 0
      /\ \A t \in Threads : AtRecord(t, x) => c < RateMax[x]
  BY DEF RateAt
<1>g. ASSUME RateOf(RateMax[x], submits'[x], quota'[x].start, quota'[x].count, time'), quota'[x].count <= RateMax[x],
             ~quota'[x].known => quota'[x].count = 0 /\ \A n \in 0..MaxTime : submits'[x][n] = 0,
             \A t \in Threads : AtRecord(t, x)' => quota'[x].count < RateMax[x]
      PROVE  RateAt(x)'
  BY <1>g DEF RateAt
<1>2. CASE RateSteady(x)
  <2>1. /\ quota'[x].start = s /\ quota'[x].count = c /\ (quota'[x].known <=> quota[x].known)
        /\ submits'[x] = f /\ time <= time'
    BY <1>2 DEF RateSteady
  <2> HIDE DEF f, s, c
  <2>2. RateOf(RateMax[x], f, s, c, time')
    BY <1>0, <1>1, <2>1, RateWaits
  <2>3. \A t \in Threads : AtRecord(t, x)' => quota'[x].count < RateMax[x]
    BY <1>1, <2>1 DEF RateStep, StaysAtRecord
  <2> QED  BY <1>1, <1>g, <2>1, <2>2, <2>3
<1>3. CASE RateAnew(x)
  <2>1. /\ quota'[x].start = time /\ quota'[x].count = 0 /\ (quota[x].known => quota'[x].known)
        /\ ~quota[x].known \/ time - s >= Minute
        /\ submits'[x] = f /\ time' = time
    BY <1>3 DEF RateAnew
  <2> HIDE DEF f, s, c
  <2>2. RateOf(RateMax[x], f, time, 0, time)
    <3>1. CASE ~quota[x].known
      <4>1. \A n \in 0..MaxTime : f[n] = 0
        BY <1>1, <3>1
      <4>2. 0 \in Nat
        OBVIOUS
      <4> QED  BY <1>0, <4>1, <4>2, RateNew, Zenon
    <3>2. CASE time - s >= Minute
      BY <1>0, <1>1, <3>2, RateRolls
    <3> QED  BY <2>1, <3>1, <3>2
  <2> QED  BY <1>0, <1>1, <1>g, <2>1, <2>2
<1>4. ASSUME NEW t \in Threads, RateMore(t, x)
      PROVE  RateAt(x)'
  <2>1. /\ ThreadFrame(t) /\ AtRecord(t, x) /\ ~AtRecord(t, x)'
        /\ quota'[x].start = Known(x).start /\ quota'[x].count = Known(x).count + 1 /\ quota'[x].known
        /\ OneAt(f, submits'[x], time) /\ time' = time
    BY <1>4 DEF RateMore
  <2>2. \A u \in Threads : ~AtRecord(u, x)'
    <3>1. AsksFor(t, x) /\ \A u \in Threads : AtRecord(u, x) => AsksFor(u, x)
      BY <2>1, Triples DEF AtRecord, AsksFor, Asking
    <3>2. \A u \in Threads \ {t} : ~AtRecord(u, x)
      BY <3>1 DEF BelowQuota, AsksFor
    <3> QED  BY <2>1, <3>2 DEF ThreadFrame, AtRecord
  <2>k. /\ Known(x).start = IF quota[x].known THEN s ELSE time
        /\ Known(x).count = IF quota[x].known THEN c ELSE 0
    BY RatePartsOf
  <2> HIDE DEF f, s, c
  <2>3. c < RateMax[x] /\ c = Known(x).count
    BY <1>1, <2>1, <2>k
  <2>4. RateOf(RateMax[x], f, Known(x).start, c, time) /\ Known(x).start \in Nat /\ Known(x).start <= time
    <3>1. CASE quota[x].known
      BY <1>0, <1>1, <2>k, <3>1
    <3>2. CASE ~quota[x].known
      <4>1. \A n \in 0..MaxTime : f[n] = 0
        BY <1>1, <3>2
      <4>2. RateOf(RateMax[x], f, Known(x).start, c, time)
        BY <1>0, <4>1, RateNew, Zenon
      <4> QED  BY <1>0, <2>k, <3>2, <4>2
    <3> QED  BY <3>1, <3>2
  <2> DEFINE k == Known(x).start
             g == submits'[x]
  <2>5. RateOf(RateMax[x], g, k, c + 1, time)
    <3>1. RateOf(RateMax[x], f, k, c, time) /\ k \in Nat /\ k <= time /\ OneAt(f, g, time)
      BY <2>1, <2>4
    <3> HIDE DEF k, g
    <3> QED  BY <1>0, <2>3, <3>1, RateSubmits, Zenon
  <2>6. quota'[x].count <= RateMax[x]
    BY <1>0, <2>1, <2>3
  <2> QED  BY <1>g, <2>1, <2>2, <2>3, <2>5, <2>6
<1> QED  BY <1>2, <1>3, <1>4 DEF RateStep

\* A tenant submits at most twice its max_per_minute in any minute, however its
\* windows fall and whoever asks, unless it was admitted to two threads at once
\* or its quota was replaced: for any number of threads and tenants, any limits,
\* and a minute of any length.
THEOREM RateIsBounded == AdmissionSpec => []RateBound
<1> DEFINE Inv == AdmissionTypes /\ CountInv /\ LimitInv /\ RateInv
<1>1. AdmissionInit => Inv
  <2> SUFFICES ASSUME AdmissionInit
               PROVE  RateInv
    BY AdmissionStarts, CountStarts, LimitStarts
  <2>0. MaxTime \in Nat /\ \A x \in Tenants : RateMax[x] \in Nat
    BY AdmissionAssumption
  <2>1. /\ time = 0 /\ submits = [x \in Tenants |-> [n \in 0..MaxTime |-> 0]]
        /\ \A t \in Threads : step[t] = Out
        /\ \A x \in Tenants : quota[x].start = 0 /\ quota[x].count = 0
    BY DEF AdmissionInit, Unsubmitted
  <2>2. RateTypes
    BY <2>0, <2>1 DEF RateTypes
  <2>3. ASSUME NEW x \in Tenants
        PROVE  RateAt(x)
    <3>1. \A n \in 0..MaxTime : submits[x][n] = 0
      BY <2>1
    <3>2. RateOf(RateMax[x], submits[x], quota[x].start, quota[x].count, time)
      <4>1. quota[x].count \in Nat
        BY <2>1
      <4> QED  BY <2>0, <3>1, <4>1, RateNew, Zenon
    <3>3. \A t \in Threads : ~AtRecord(t, x)
      BY <2>1, Triples DEF AtRecord, Out
    <3> QED  BY <2>0, <2>1, <3>1, <3>2, <3>3 DEF RateAt
  <2> QED  BY <2>2, <2>3 DEF RateInv
<1>2. Inv /\ [AdmissionNext]_admissionVars => Inv'
  <2> SUFFICES ASSUME Inv, [AdmissionNext]_admissionVars
               PROVE  Inv'
    OBVIOUS
  <2>1. NewIsIdle /\ AdmissionTypes' /\ CountInv' /\ LimitInv' /\ AdmissionDoes
    BY AdmissionKeeps, CountKeeps, LimitSteps DEF CountInv
  <2>2. RateTypes'
    BY <2>1, RateTypesKept DEF RateInv
  <2>3. lost \subseteq lost' /\ crowded \subseteq crowded'
    BY <2>1, HistoryGrows
  <2>4. ASSUME NEW x \in Tenants \ (lost' \cup crowded')
        PROVE  RateAt(x)'
    <3>1. BelowQuota(x) /\ RateAt(x) /\ x \notin lost \cup crowded /\ x \notin lost'
      BY <2>3 DEF LimitInv, RateInv
    <3>2. ~quota[x].known => quota[x].count = 0
      BY <3>1 DEF RateAt
    <3>3. RateStep(x)
      BY <2>1, <3>1, <3>2, RateCases DEF RateInv
    <3> QED  BY <2>1, <2>2, <3>1, <3>3, RateKept DEF RateInv
  <2> QED  BY <2>1, <2>2, <2>4 DEF RateInv
<1>3. Inv => RateBound
  <2>1. ASSUME NEW x \in Tenants, NEW n
        PROVE  SubmitsIn(x, n, n + Minute) = EventsOf(submits[x], n, n + Minute)
    BY Zenon DEF SubmitsIn, EventsOf
  <2> QED  BY <2>1 DEF RateInv, RateAt, RateOf, RateBound
<1> HIDE DEF Inv
<1> QED  BY <1>1, <1>2, <1>3, PTL DEF AdmissionSpec

-----------------------------------------------------------------------------
(* Both together: types.                                                   *)

\* What the hash holds, and what a call is about to write, is a record: a
\* heartbeat never stamps the absence of one.
RealInv ==
  /\ \A s \in Services : hash[s] = Gone \/ hash[s].rec # 0
  /\ \A c \in Callers : at[c] \in {"hset", "rewrite"} => data[c].rec # 0

\* Every step of the registry keeps it so.
LEMMA RealSteps ==
  ASSUME RegistryTypes, RealInv, [RegistryNext]_registryVars
  PROVE  RealInv'
<1>0. /\ \A s \in Services : hash[s] = Gone \/ hash[s].rec # 0
      /\ \A c \in Callers : at[c] \in {"hset", "rewrite"} => data[c].rec # 0
  BY DEF RealInv
<1>c. ASSUME NEW c \in Callers, CallFrame(c), at'[c] \in {"hset", "rewrite"} => data'[c].rec # 0
      PROVE  \A d \in Callers : at'[d] \in {"hset", "rewrite"} => data'[d].rec # 0
  BY <1>0, <1>c DEF CallFrame
<1>w. ASSUME NEW c \in Callers, NEW s \in Services, NEW r, WriteDoes(c, s, r), r = Gone \/ r.rec # 0
      PROVE  RealInv'
  <2>1. CallFrame(c) /\ at'[c] = "idle" /\ HashFrame(s) /\ hash'[s] = r
    BY <1>w DEF WriteDoes
  <2>2. \A k \in Services : hash'[k] = Gone \/ hash'[k].rec # 0
    BY <1>0, <1>w, <2>1 DEF HashFrame
  <2>3. \A d \in Callers : at'[d] \in {"hset", "rewrite"} => data'[d].rec # 0
    BY <1>c, <2>1
  <2> QED  BY <2>2, <2>3 DEF RealInv, Gone
<1>1. ASSUME NEW c \in Callers, NEW s \in Services, RegisterLocal(c, s)
      PROVE  RealInv'
  <2>1. CallFrame(c) /\ hash' = hash
    BY <1>1, LocalSteps DEF LocalDoes
  <2>2. data'[c] = [rec |-> records[s] + 1, beat |-> clock] /\ records[s] \in 0..MaxRecords
    BY <1>1 DEF RegisterLocal, RegistryTypes
  <2>3. data'[c].rec # 0
    <3>1. data'[c].rec = records[s] + 1 /\ records[s] \in Nat
      BY <2>2, RegistryConstants
    <3> QED  BY <3>1
  <2> QED  BY <1>0, <1>c, <2>1, <2>3 DEF RealInv, Gone
<1>2. ASSUME NEW c \in Callers, NEW s \in Services, DeregisterLocal(c, s) \/ HeartbeatLocal(c, s)
      PROVE  RealInv'
  <2>1. CallFrame(c) /\ hash' = hash
    BY <1>2, LocalSteps DEF LocalDoes
  <2>2. at'[c] = "hdel" \/ at'[c] = "hget"
    BY <1>2 DEF DeregisterLocal, HeartbeatLocal, Starts, RegistryTypes
  <2> QED  BY <1>0, <1>c, <2>1, <2>2 DEF RealInv, Gone
<1>3. ASSUME NEW c \in Callers, RegisterHset(c) \/ HeartbeatHset(c)
      PROVE  RealInv'
  <2>1. on[c] \in Services /\ WriteDoes(c, on[c], data[c]) /\ at[c] \in {"hset", "rewrite"}
    BY <1>3, WriteSteps
  <2> QED  BY <1>0, <1>w, <2>1
<1>4. ASSUME NEW c \in Callers, DeregisterHdel(c)
      PROVE  RealInv'
  <2>1. on[c] \in Services /\ WriteDoes(c, on[c], Gone)
    BY <1>4, WriteSteps
  <2> QED  BY <1>w, <2>1
<1>5. ASSUME NEW c \in Callers, HeartbeatHget(c)
      PROVE  RealInv'
  <2>1. on[c] \in Services /\ CallFrame(c) /\ hash' = hash
    BY <1>5, HgetDoes
  <2>2. at'[c] \in {"hset", "rewrite"} => data'[c].rec # 0
    <3>1. CASE hash[on[c]] = Gone
      <4>1. at'[c] = "idle"
        BY <1>5, <3>1 DEF HeartbeatHget, Returns, RegistryTypes
      <4> QED  BY <4>1
    <3>2. CASE hash[on[c]] # Gone
      <4>1. at'[c] = "rewrite" => data'[c].rec = hash[on[c]].rec
        BY <1>5, HgetDoes
      <4>2. at'[c] = "rewrite"
        BY <1>5, <3>2 DEF HeartbeatHget, RegistryTypes
      <4> QED  BY <1>0, <2>1, <3>2, <4>1, <4>2
    <3> QED  BY <3>1, <3>2
  <2> QED  BY <1>0, <1>c, <2>1, <2>2 DEF RealInv, Gone
<1>6. CASE RegistryClock \/ UNCHANGED registryVars
  <2>1. UNCHANGED <<hash, at, data>>
    BY <1>6 DEF RegistryClock, registryVars
  <2> QED  BY <1>0, <2>1 DEF RealInv, Gone
<1> QED  BY <1>1, <1>2, <1>3, <1>4, <1>5, <1>6 DEF RegistryNext

\* No more of a resource is taken than there is, and the history names what
\* there is.
BoundsInv ==
  /\ \A r \in Resources : taken[r] <= Total[r]
  /\ lost \subseteq Counters \cup Tenants \cup Resources /\ crowded \subseteq {"concurrency"} \cup Tenants

\* Every step of the limiters keeps it so.
LEMMA BoundsSteps ==
  ASSUME AdmissionTypes, AdmissionTypes', BoundsInv, AdmissionDoes
  PROVE  BoundsInv'
<1>0. \A r \in Resources : taken[r] \in Nat /\ Total[r] \in Nat /\ taken[r] <= Total[r]
  BY AdmissionConstants DEF AdmissionTypes, BoundsInv
<1>1. \A r \in Resources : taken'[r] <= Total[r]
  <2>1. CASE taken' = taken
    BY <1>0, <2>1
  <2>2. ASSUME NEW t \in Threads, NEW need \in Needs, TakeDoes(t, need) \/ GiveDoes(t, need), NEW r \in Resources
        PROVE  taken'[r] <= Total[r]
    <3>1. need[r] \in Nat
      BY AdmissionConstants
    <3>2. \/ taken'[r] = IF taken[r] + need[r] > Total[r] THEN taken[r] ELSE taken[r] + need[r]
          \/ taken'[r] = IF taken[r] > need[r] THEN taken[r] - need[r] ELSE 0
      BY <2>2 DEF TakeDoes, GiveDoes
    <3> QED  BY <1>0, <3>1, <3>2
  <2>3. ASSUME NEW r \in Resources, SlotDoes(r)
        PROVE  \A o \in Resources : taken'[o] <= Total[o]
    BY <1>0, <2>3 DEF SlotDoes
  <2>4. (\E t \in Threads : ConcurrencyDoes(t) \/ FairDoes(t)) \/ (\E x \in Tenants : RenewDoes(x)) \/ StillDoes
          => taken' = taken
    BY DEF ConcurrencyDoes, FairDoes, RenewDoes, StillDoes, CheckDoes, AddDoes, PutDoes, ReadDoes, LessDoes,
           AskDoes, WindowDoes, SubmitDoes, FairReadDoes, CompleteDoes
  <2> QED  BY <2>1, <2>2, <2>3, <2>4 DEF AdmissionDoes, CapacityDoes
<1>2. lost' \subseteq Counters \cup Tenants \cup Resources
  <2>w. ASSUME NEW t, NEW k \in Counters \cup Tenants, Writes(t, k)
        PROVE  lost' \subseteq Counters \cup Tenants \cup Resources
    BY <2>w DEF Writes, BoundsInv
  <2>u. ASSUME lost' = lost
        PROVE  lost' \subseteq Counters \cup Tenants \cup Resources
    BY <2>u DEF BoundsInv
  <2>1. ASSUME NEW t \in Threads, ConcurrencyDoes(t)
        PROVE  lost' \subseteq Counters \cup Tenants \cup Resources
    <3>1. ASSUME NEW i \in 1..4, AddDoes(t, i) \/ PutDoes(t, i) \/ LessDoes(t, i)
          PROVE  lost' \subseteq Counters \cup Tenants \cup Resources
      <4>1. \/ lost' = lost
            \/ job[t] \in Types /\ (Writes(t, Dims(t)[i]) \/ Writes(t, "global"))
        BY <3>1 DEF AddDoes, PutDoes, LessDoes
      <4>2. "global" \in Counters
        BY AdmissionConstants
      <4> QED  BY <2>w, <2>u, <4>1, <4>2, DimsAre
    <3> QED  BY <2>1, <2>u, <3>1 DEF ConcurrencyDoes, CheckDoes, ReadDoes
  <2>2. ASSUME NEW t \in Threads, FairDoes(t) \/ CapacityDoes(t)
        PROVE  lost' \subseteq Counters \cup Tenants \cup Resources
    <3>1. lost' = lost \/ \E k \in Tenants : Writes(t, k)
      BY <2>2 DEF FairDoes, CapacityDoes, AskDoes, WindowDoes, SubmitDoes, FairReadDoes, CompleteDoes,
                  TakeDoes, GiveDoes
    <3> QED  BY <2>w, <2>u, <3>1
  <2>3. ASSUME NEW k \in Tenants \cup Resources, lost' \subseteq lost \cup {k}
        PROVE  lost' \subseteq Counters \cup Tenants \cup Resources
    BY <2>3 DEF BoundsInv
  <2> QED  BY <2>1, <2>2, <2>3, <2>u DEF AdmissionDoes, RenewDoes, SlotDoes, StillDoes
<1>3. crowded' \subseteq {"concurrency"} \cup Tenants
  <2>1. \/ crowded' = crowded
        \/ \E t \in Threads : \/ \E ty \in Types : Asks(t, "concurrency", ty)
                              \/ \E x \in Tenants : Asks(t, "fair", x)
    BY SMTT(40) DEF AdmissionDoes, ConcurrencyDoes, FairDoes, CapacityDoes, RenewDoes, SlotDoes, StillDoes, CheckDoes,
           AddDoes, PutDoes, ReadDoes, LessDoes, AskDoes, WindowDoes, SubmitDoes, FairReadDoes, CompleteDoes,
           TakeDoes, GiveDoes
  <2> QED  BY <2>1, ZenonT(60) DEF Asks, BoundsInv
<1> QED  BY <1>1, <1>2, <1>3 DEF BoundsInv

\* Nothing is used of a resource without a slot.
SlotsInv == registered \subseteq Resources /\ \A r \in Resources \ registered : taken[r] = 0

\* try_acquire refuses what asks for one, and every other step leaves it so.
LEMMA SlotsSteps ==
  ASSUME AdmissionTypes, SlotsInv, [AdmissionNext]_admissionVars
  PROVE  SlotsInv'
<1>1. ASSUME NEW t \in Threads, NEW need \in Needs, CapacityTryAcquire(t, need)
      PROVE  SlotsInv'
  <2>1. registered' = registered /\ Fits(need)
        /\ \A r \in Resources : taken'[r] = IF taken[r] + need[r] > Total[r] THEN taken[r] ELSE taken[r] + need[r]
    BY <1>1 DEF CapacityTryAcquire
  <2>2. ASSUME NEW r \in Resources \ registered
        PROVE  taken'[r] = 0
    <3>1. need[r] \in Nat /\ ~(need[r] > 0) /\ taken[r] = 0
      BY <2>1, AdmissionConstants DEF Fits, SlotsInv
    <3>2. need[r] = 0
      BY <3>1
    <3> QED  BY <2>1, <3>1, <3>2
  <2> QED  BY <2>1, <2>2 DEF SlotsInv
<1>2. ASSUME NEW t \in Threads, CapacityRelease(t)
      PROVE  SlotsInv'
  <2>1. /\ registered' = registered /\ job[t] \in Needs
        /\ \A r \in Resources : taken'[r] = IF taken[r] > job[t][r] THEN taken[r] - job[t][r] ELSE 0
    BY <1>2, Triples DEF CapacityRelease, Held, AdmissionTypes
  <2>2. ASSUME NEW r \in Resources \ registered
        PROVE  taken'[r] = 0
    <3>1. taken[r] = 0 /\ job[t][r] \in Nat
      BY <2>1, AdmissionConstants DEF SlotsInv
    <3> QED  BY <2>1, <3>1
  <2> QED  BY <2>1, <2>2 DEF SlotsInv
<1>3. ASSUME NEW r \in Resources, RegisterResource(r)
      PROVE  SlotsInv'
  BY <1>3 DEF RegisterResource, SlotsInv, AdmissionTypes
<1>4. CASE ConcurrencyNext \/ FairNext \/ UNCHANGED admissionVars
  <2>1. CASE ConcurrencyNext
    BY <2>1 DEF ConcurrencyNext, ConcurrencyAdd, ConcurrencyPut, ConcurrencyRead, ConcurrencyLess,
                ConcurrencyCheck, others, SlotsInv
  <2>2. CASE FairNext
    BY <2>2 DEF FairNext, FairWindow, FairRecordSubmit, FairRead, FairComplete, FairActive, PickTenant,
                RegisterTenant, TimePasses, SlotsInv
  <2>3. CASE UNCHANGED admissionVars
    BY <2>3 DEF admissionVars, SlotsInv
  <2> QED  BY <1>4, <2>1, <2>2, <2>3
<1> QED  BY <1>1, <1>2, <1>3, <1>4 DEF AdmissionNext, CapacityNext

\* A behaviour of both is a behaviour of each: what is proved of the limiters
\* and of the registry holds of the two together.
LEMMA PartsAreServed == BrokerSpec => AdmissionSpec /\ RegistrySpec
<1>1. BrokerInit => AdmissionInit /\ RegistryInit
  BY DEF BrokerInit
<1>2. [BrokerNext]_brokerVars => [AdmissionNext]_admissionVars /\ [RegistryNext]_registryVars
  BY DEF BrokerNext, brokerVars, AdmissionNext
<1> QED  BY <1>1, <1>2, PTL DEF BrokerSpec, AdmissionSpec, RegistrySpec

\* The limiters and the registry keep their types and bounds: no more of a
\* resource is taken than there is, no window begins in the future, and a
\* heartbeat has a record to write.
THEOREM BrokerTypes == BrokerSpec => []BrokerTypeOK
<1> DEFINE Inv == AdmissionTypes /\ NewIsIdle /\ RateTypes /\ BoundsInv /\ SlotsInv /\ RegistryTypes /\ RealInv
<1>1. BrokerInit => Inv
  <2> SUFFICES ASSUME AdmissionInit, RegistryInit
               PROVE  RateTypes /\ BoundsInv /\ SlotsInv /\ RealInv
    BY AdmissionStarts, RegistryStarts DEF RegistryInv, BrokerInit
  <2>1. /\ time = 0 /\ submits = [x \in Tenants |-> [n \in 0..MaxTime |-> 0]]
        /\ \A x \in Tenants : quota[x].start = 0
        /\ \A r \in Resources : taken[r] = 0
        /\ lost = {} /\ crowded = {} /\ registered = {}
    BY DEF AdmissionInit, Unsubmitted
  <2>2. RateTypes
    BY <2>1, AdmissionAssumption DEF RateTypes
  <2>3. BoundsInv /\ SlotsInv
    BY <2>1, AdmissionConstants DEF BoundsInv, SlotsInv
  <2>4. RealInv
    BY DEF RegistryInit, RealInv
  <2> QED  BY <2>2, <2>3, <2>4
<1>2. Inv /\ [BrokerNext]_brokerVars => Inv'
  <2> SUFFICES ASSUME Inv, [BrokerNext]_brokerVars
               PROVE  Inv'
    OBVIOUS
  <2>1. [AdmissionNext]_admissionVars /\ [RegistryNext]_registryVars
    BY DEF BrokerNext, brokerVars, AdmissionNext
  <2>2. AdmissionTypes' /\ NewIsIdle' /\ AdmissionDoes
    BY <2>1, AdmissionKeeps
  <2>3. RateTypes' /\ BoundsInv' /\ SlotsInv'
    BY <2>1, <2>2, RateTypesKept, BoundsSteps, SlotsSteps
  <2>4. RegistryTypes' /\ RealInv'
    BY <2>1, RegistryStepType, RealSteps
  <2> QED  BY <2>2, <2>3, <2>4
<1>3. Inv => BrokerTypeOK
  <2> SUFFICES ASSUME Inv
               PROVE  BrokerTypeOK
    OBVIOUS
  <2>1. AdmissionTypeOK
    <3>1. \A x \in Tenants : quota[x].active \in Nat /\ quota[x].count \in Nat
      BY DEF AdmissionTypes, Quota
    <3> QED  BY <3>1 DEF AdmissionTypeOK, AdmissionTypes, RateTypes, BoundsInv, SlotsInv
  <2>2. RegistryTypeOK
    BY DEF RegistryTypeOK, RegistryTypes, RealInv, Rec, Steps
  <2> QED  BY <2>1, <2>2 DEF BrokerTypeOK
<1> HIDE DEF Inv
<1> QED  BY <1>1, <1>2, <1>3, PTL DEF BrokerSpec
=============================================================================
