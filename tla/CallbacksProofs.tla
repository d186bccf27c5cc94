--------------------------- MODULE CallbacksProofs ---------------------------
(***************************************************************************)
(* Proofs about CallbackManager, for any number of threads, registrations, *)
(* deliveries and restarts.                                                *)
(***************************************************************************)
EXTENDS Callbacks, SequenceTheorems, TLAPS

Writing == {"persist", "delete"}
Delivering == {"attempt", "request", "record_ok", "record"}

-----------------------------------------------------------------------------
(* The inductive invariants.                                               *)

\* What makes ResultsEarned inductive: a delivery under way has answered
\* nothing and has an attempt left until it has made the last one.
CallAt(t) ==
  /\ pc[t] \in Delivering => call[t].result = "none"
  /\ pc[t] \in {"attempt", "request"} => call[t].tried < call[t].max
  /\ pc[t] \in {"record", "record_ok"} => call[t].tried <= call[t].max
  /\ pc[t] = "record_ok" => call[t].ok
ResultsInv == ResultsEarned /\ \A t \in Threads : CallAt(t)

\* What makes Durable inductive: a call nobody overlapped is the only one
\* under way, memory holds what it asked for, and while the table is owed a
\* write nothing is promised.
WriteAt(t) ==
  /\ pc[t] \in Writing => wanted = -1
  /\ pc[t] # "idle" /\ t \notin overlap => Busy = {t}
  /\ pc[t] = "persist" /\ t \notin overlap => registry = arg[t]
  /\ pc[t] = "delete" /\ t \notin overlap => registry = 0
DurableInv == Durable /\ \A t \in Threads : WriteAt(t)

\* What makes AttemptsCounted inductive: the count in memory is ahead of the
\* row by the attempt under way, and the requests sent by what restarts lost.
Ahead(t) == IF pc[t] \in {"request", "record_ok", "record"} THEN 1 ELSE 0
Sent(t) == IF pc[t] \in {"record_ok", "record"} THEN 1 ELSE 0

CountAt(t) ==
  /\ pc[t] # "idle" => Busy = {t}
  /\ pc[t] = "persist" => regs[arg[t]].attempts = 0 /\ sent[arg[t]] = 0
  /\ pc[t] \in Delivering /\ wanted > 0 =>
       /\ arg[t] = wanted
       /\ regs[wanted].attempts = table.attempts + Ahead(t)
       /\ table.attempts + Sent(t) <= sent[wanted]
       /\ sent[wanted] <= table.attempts + Sent(t) + restarts

Fresh == \A r \in 1..MaxRegs : r > Len(regs) => sent[r] = 0
RestCount == Busy = {} /\ wanted > 0 => regs[wanted].attempts = table.attempts
CountInv == /\ Fresh
            /\ ~mixed => RestCount /\ \A t \in Threads : CountAt(t)
            /\ AttemptsCounted

-----------------------------------------------------------------------------
(* Type correctness.                                                       *)

Reg == [max : Policies, attempts : Nat]

\* A new registration gets the next number; the others stay as they are.
LEMMA RegsAppend ==
  ASSUME NEW s \in Seq(Reg), NEW x \in Reg
  PROVE  /\ Append(s, x) \in Seq(Reg)
         /\ Len(s) \in Nat
         /\ Len(Append(s, x)) = Len(s) + 1
         /\ Append(s, x)[Len(s) + 1] = x
         /\ \A i \in 1..Len(s) : Append(s, x)[i] = s[i]
OBVIOUS

\* A count that changes is the only thing that does.
LEMMA RegsCount ==
  ASSUME NEW s \in Seq(Reg), NEW i \in 1..Len(s), NEW n \in Nat
  PROVE  LET u == [s EXCEPT ![i].attempts = n]
         IN  /\ u \in Seq(Reg)
             /\ Len(u) = Len(s)
             /\ u[i].attempts = n
             /\ u[i].max = s[i].max
             /\ \A k \in 1..Len(s) : k # i => u[k] = s[k]
<1> DEFINE v == [s[i] EXCEPT !.attempts = n]
<1>1. s[i] \in Reg
  OBVIOUS
<1>2. v \in Reg /\ v.attempts = n /\ v.max = s[i].max
  BY <1>1 DEF Reg
<1>3. [s EXCEPT ![i].attempts = n] = [s EXCEPT ![i] = v]
  OBVIOUS
<1> HIDE DEF v
<1>4. /\ [s EXCEPT ![i] = v] \in Seq(Reg)
      /\ Len([s EXCEPT ![i] = v]) = Len(s)
      /\ \A k \in 1..Len(s) : [s EXCEPT ![i] = v][k] = IF k = i THEN v ELSE s[k]
  BY <1>2, ExceptSeq
<1> QED
  BY <1>2, <1>3, <1>4

\* What a registration's number is good for.
LEMMA RegTypes ==
  ASSUME TypeOK
  PROVE  /\ Len(regs) \in Nat
         /\ regs \in Seq(Reg)
         /\ \A i \in 1..Len(regs) : /\ i \in 1..MaxRegs
                                    /\ regs[i] \in Reg
                                    /\ regs[i].attempts \in Nat
                                    /\ regs[i].max \in Int
<1> USE CallbacksAssumption DEF CallbacksAssumption
<1>1. regs \in Seq(Reg) /\ Len(regs) <= MaxRegs
  BY DEF TypeOK, Reg
<1>2. \A i \in 1..Len(regs) : regs[i] \in Reg
  BY <1>1
<1>3. \A r \in Reg : r.attempts \in Nat /\ r.max \in Int
  BY DEF Reg
<1> QED  BY <1>1, <1>2, <1>3

Call == [max : Nat, tried : Nat, ok : BOOLEAN, result : {"none", "true", "false", "raised"}]

\* A delivery begins, makes an attempt and answers with a well-typed record.
LEMMA CallTypes ==
  /\ NoCall \in Call
  /\ \A m \in Int : [NoCall EXCEPT !.max = IF m > 1 THEN m ELSE 1] \in Call
  /\ \A c \in Call, ok \in BOOLEAN : [c EXCEPT !.tried = @ + 1, !.ok = ok] \in Call
<1>1. NoCall \in Call
  BY DEF NoCall, Call
<1>2. ASSUME NEW m \in Int  PROVE [NoCall EXCEPT !.max = IF m > 1 THEN m ELSE 1] \in Call
  <2>1. (IF m > 1 THEN m ELSE 1) \in Nat
    OBVIOUS
  <2> QED  BY <2>1, Zenon DEF NoCall, Call
<1>3. ASSUME NEW c \in Call, NEW ok \in BOOLEAN
      PROVE  [c EXCEPT !.tried = @ + 1, !.ok = ok] \in Call
  <2>1. c.tried + 1 \in Nat
    BY DEF Call
  <2> QED  BY <2>1 DEF Call
<1> QED  BY <1>1, <1>2, <1>3

\* A thread that is to write or deliver has a registration to work on.
LEMMA ArgTypes ==
  ASSUME TypeOK, NEW t \in Threads, pc[t] \notin {"idle", "delete"}
  PROVE  arg[t] \in 1..Len(regs) /\ arg[t] \in 1..MaxRegs
<1>1. arg[t] \in 0..Len(regs) /\ arg[t] # 0
  BY DEF TypeOK
<1> QED  BY <1>1, RegTypes

\* trigger and trigger_job_completion start a delivery in the same way.
LEMMA TriggersAlike ==
  ASSUME TypeOK, NEW t \in Threads
  PROVE  TriggerJobCompletion(t) \/ (\E m \in Policies : Trigger(t, m)) =>
           \E m \in Int : Trigger(t, m)
<1>1. registry # 0 => registry \in 1..Len(regs)
  BY RegTypes DEF TypeOK
<1>2. registry # 0 => regs[registry].max \in Int
  BY <1>1, RegTypes
<1>3. Policies \subseteq Int
  BY CallbacksAssumption DEF CallbacksAssumption
<1> QED  BY <1>2, <1>3 DEF TriggerJobCompletion

\* Every call starts or goes on with well-typed state.
LEMMA NextType == ASSUME TypeOK, [Next]_vars  PROVE TypeOK'
<1> USE RegTypes, CallbacksAssumption DEF CallbacksAssumption
<1>o. ASSUME NEW t \in Threads, Overlaps(t)  PROVE overlap' \subseteq Threads
  BY <1>o DEF Overlaps, Busy, TypeOK
<1>1. ASSUME NEW t \in Threads, NEW m \in Policies, Register(t, m)  PROVE TypeOK'
  <2>1. [max |-> m, attempts |-> 0] \in Reg
    BY DEF Reg
  <2>2. regs' \in Seq(Reg) /\ Len(regs') = Len(regs) + 1
    BY <1>1, <2>1, RegsAppend DEF Register
  <2>3. overlap' \subseteq Threads
    BY <1>1, <1>o DEF Register
  <2>4. /\ registry' \in 0..Len(regs')
        /\ table' \in [reg : 0..Len(regs'), attempts : Nat]
        /\ wanted' \in -1..Len(regs') /\ mixed' \in BOOLEAN
    <3>1. registry' = Len(regs) + 1 /\ table' = table /\ wanted' = -1 /\ mixed' = (Busy # {})
      BY <1>1 DEF Register
    <3>2. Len(regs) \in Nat /\ Len(regs') = Len(regs) + 1
      BY <2>2, RegTypes
    <3>3. table \in [reg : 0..Len(regs), attempts : Nat]
      BY DEF TypeOK
    <3>4. table' \in [reg : 0..Len(regs'), attempts : Nat]
      BY ONLY <3>1, <3>2, <3>3
    <3>5. registry' \in 0..Len(regs') /\ wanted' \in -1..Len(regs')
      BY ONLY <3>1, <3>2
    <3> QED  BY <3>1, <3>4, <3>5
  <2>5. /\ pc' \in [Threads -> Steps]
        /\ arg' \in [Threads -> 0..Len(regs')]
        /\ \A u \in Threads : pc'[u] \notin {"idle", "delete"} => arg'[u] # 0
    BY <1>1, <2>2, SMTT(40) DEF Register, TypeOK, Go, Steps
  <2>6. Len(regs') <= MaxRegs
    BY <1>1, <2>2 DEF Register
  <2>7. /\ call' = call /\ calls' = calls /\ restarts' = restarts /\ sent' = sent
    BY <1>1 DEF Register
  <2> QED  BY <2>2, <2>3, <2>4, <2>5, <2>6, <2>7 DEF TypeOK, Reg
<1>2. ASSUME NEW t \in Threads, Persist(t)  PROVE TypeOK'
  <2>1. arg[t] \in 1..Len(regs)
    BY <1>2, ArgTypes DEF Persist
  <2>2. table' \in [reg : 0..Len(regs), attempts : Nat]
    BY <1>2, <2>1 DEF Persist
  <2>3. wanted' \in -1..Len(regs) /\ overlap' \subseteq Threads
    BY <1>2, <2>1, SMTT(40) DEF Persist, Ends, TypeOK
  <2>4. /\ pc' \in [Threads -> Steps] /\ arg' = arg
        /\ \A u \in Threads : pc'[u] \notin {"idle", "delete"} => arg'[u] # 0
    BY <1>2 DEF Persist, TypeOK, Go, Steps
  <2>5. /\ registry' = registry /\ regs' = regs /\ call' = call /\ calls' = calls
        /\ restarts' = restarts /\ sent' = sent /\ mixed' = mixed
    BY <1>2 DEF Persist
  <2> QED  BY <2>2, <2>3, <2>4, <2>5 DEF TypeOK
<1>3. ASSUME NEW t \in Threads, Unregister(t)  PROVE TypeOK'
  <2>1. overlap' \subseteq Threads
    BY <1>3, <1>o DEF Unregister
  <2>2. registry' \in 0..Len(regs) /\ wanted' \in -1..Len(regs) /\ mixed' \in BOOLEAN
    BY <1>3 DEF Unregister
  <2>3. /\ pc' \in [Threads -> Steps]
        /\ \A u \in Threads : pc'[u] \notin {"idle", "delete"} => arg[u] # 0
    BY <1>3 DEF Unregister, TypeOK, Go, Steps
  <2>4. /\ table' = table /\ regs' = regs /\ arg' = arg /\ call' = call /\ calls' = calls
        /\ restarts' = restarts /\ sent' = sent
    BY <1>3 DEF Unregister
  <2> QED  BY <2>1, <2>2, <2>3, <2>4 DEF TypeOK
<1>4. ASSUME NEW t \in Threads, Delete(t)  PROVE TypeOK'
  BY <1>4, SMTT(40) DEF Delete, Ends, TypeOK, Go, Steps, NoRow
<1>5. ASSUME NEW t \in Threads, WriteRaises(t)  PROVE TypeOK'
  BY <1>5 DEF WriteRaises, TypeOK, Go, Steps
<1>6. ASSUME NEW t \in Threads, NEW m \in Int, Trigger(t, m)  PROVE TypeOK'
  <2>1. overlap' \subseteq Threads
    BY <1>6, <1>o DEF Trigger
  <2>2. calls' \in 0..MaxCalls /\ registry \in 1..Len(regs)
    <3>1. calls \in 0..MaxCalls /\ registry \in 0..Len(regs) /\ calls < MaxCalls
          /\ calls' = calls + 1 /\ registry # 0
      BY <1>6 DEF Trigger, TypeOK
    <3> QED  BY <3>1
  <2>3. [NoCall EXCEPT !.max = IF m > 1 THEN m ELSE 1]
          \in Call
    BY CallTypes
  <2>4. call' \in [Threads -> Call]
    BY <1>6, <2>3 DEF Trigger, TypeOK, Call
  <2>5. /\ pc' \in [Threads -> Steps]
        /\ arg' \in [Threads -> 0..Len(regs)]
        /\ \A u \in Threads : pc'[u] \notin {"idle", "delete"} => arg'[u] # 0
    BY <1>6, <2>2 DEF Trigger, TypeOK, Go, Steps
  <2> QED  BY <1>6, <2>1, <2>2, <2>4, <2>5 DEF Trigger, TypeOK, Call
<1>7. ASSUME NEW t \in Threads, Attempt(t)  PROVE TypeOK'
  <2>1. arg[t] \in 1..Len(regs) /\ regs[arg[t]].attempts + 1 \in Nat
    BY <1>7, ArgTypes DEF Attempt
  <2>2. regs' \in Seq(Reg) /\ Len(regs') = Len(regs)
    BY <1>7, <2>1, RegsCount DEF Attempt
  <2> QED  BY <1>7, <2>1, <2>2 DEF Attempt, TypeOK, Reg, Go, Steps
<1>8. ASSUME NEW t \in Threads, NEW ok \in BOOLEAN, Request(t, ok)  PROVE TypeOK'
  <2>1. arg[t] \in 1..Len(regs)
    BY <1>8, ArgTypes DEF Request
  <2>2. call' \in [Threads -> Call]
    <3>1. call \in [Threads -> Call] /\ call[t] \in Call
      BY DEF TypeOK, Call
    <3>2. call' = [call EXCEPT ![t] = [call[t] EXCEPT !.tried = @ + 1, !.ok = ok]]
      BY <1>8, <3>1 DEF Request
    <3> QED  BY <3>1, <3>2, CallTypes
  <2>3. sent' \in [1..MaxRegs -> Nat]
    <3>1. sent \in [1..MaxRegs -> Nat] /\ arg[t] \in 1..MaxRegs
      BY <2>1 DEF TypeOK
    <3>2. sent' = [sent EXCEPT ![arg[t]] = sent[arg[t]] + 1]
      BY <1>8 DEF Request
    <3> QED  BY <3>1, <3>2
  <2>4. pc' \in [Threads -> Steps]
    BY <1>8 DEF Request, TypeOK, Go, Steps
  <2>5. \A u \in Threads : pc'[u] \notin {"idle", "delete"} => arg'[u] # 0
    BY <1>8, <2>1 DEF Request, TypeOK, Go, Steps
  <2> QED  BY <1>8, <2>2, <2>3, <2>4, <2>5 DEF Request, TypeOK, Call
<1>c. ASSUME NEW t \in Threads, arg[t] \in 1..Len(regs), CountWritten(t)
      PROVE  table' \in [reg : 0..Len(regs), attempts : Nat]
  BY <1>c DEF CountWritten, TypeOK
<1>f. ASSUME NEW t \in Threads, NEW r \in {"true", "false", "raised"}, Finish(t, r)
      PROVE  /\ pc' = [pc EXCEPT ![t] = "idle"]
             /\ call' \in [Threads -> Call]
             /\ overlap' \subseteq Threads
  BY <1>f DEF Finish, Go, TypeOK, Call
<1>9. ASSUME NEW t \in Threads, RecordOk(t)  PROVE TypeOK'
  <2>1. table' \in [reg : 0..Len(regs), attempts : Nat]
    BY <1>9, ArgTypes, <1>c DEF RecordOk
  <2> QED  BY <1>9, <1>f, <2>1 DEF RecordOk, TypeOK, Steps, Call
<1>10. ASSUME NEW t \in Threads, RecordOkRaises(t)  PROVE TypeOK'
  BY <1>10 DEF RecordOkRaises, TypeOK, Go, Steps
<1>11. ASSUME NEW t \in Threads, Record(t)  PROVE TypeOK'
  <2>1. arg[t] \in 1..Len(regs) /\ table' \in [reg : 0..Len(regs), attempts : Nat]
    BY <1>11, ArgTypes, <1>c DEF Record
  <2>2. CASE Finish(t, "false")
    BY <1>11, <1>f, <2>1, <2>2 DEF Record, TypeOK, Steps, Call
  <2>3. CASE Go(t, "attempt") /\ UNCHANGED <<call, overlap>>
    BY <1>11, <2>1, <2>3 DEF Record, TypeOK, Go, Steps
  <2> QED  BY <1>11, <2>2, <2>3 DEF Record
<1>12. ASSUME NEW t \in Threads, RecordRaises(t)  PROVE TypeOK'
  BY <1>12, <1>f DEF RecordRaises, TypeOK, Steps, Call
<1>13. CASE Restart
  <2>1. regs' \in Seq(Reg) /\ Len(regs') = Len(regs)
    <3>1. CASE table.reg = 0  BY <1>13, <3>1 DEF Restart
    <3>2. CASE table.reg # 0
      <4>1. table.reg \in 1..Len(regs) /\ table.attempts \in Nat
        BY <3>2 DEF TypeOK
      <4>2. regs' = [regs EXCEPT ![table.reg].attempts = table.attempts]
        BY <1>13, <3>2 DEF Restart
      <4> QED  BY <4>1, <4>2, RegsCount
    <3> QED  BY <3>1, <3>2
  <2>2. call' \in [Threads -> Call]
    BY <1>13, CallTypes DEF Restart
  <2> QED  BY <1>13, <2>1, <2>2 DEF Restart, TypeOK, Reg, Steps, Call
<1>14. CASE UNCHANGED vars
  BY <1>14 DEF vars, TypeOK
<1> QED
  BY <1>1, <1>2, <1>3, <1>4, <1>5, <1>6, <1>7, <1>8, <1>9, <1>10, <1>11, <1>12, <1>13,
     <1>14, TriggersAlike DEF Next, Deliver

\* The registrations, the row and the calls under way are well typed.
THEOREM CallbacksTypeCorrect == FairSpec => []TypeOK
<1>1. Init => TypeOK
  <2> SUFFICES ASSUME Init  PROVE TypeOK
    OBVIOUS
  <2>1. regs \in Seq([max : Policies, attempts : Nat]) /\ Len(regs) = 0
    BY DEF Init
  <2>2. call \in [Threads -> Call]
    BY CallTypes DEF Init
  <2>3. /\ registry \in 0..Len(regs) /\ wanted \in -1..Len(regs)
        /\ table \in [reg : 0..Len(regs), attempts : Nat]
    BY <2>1 DEF Init, NoRow
  <2>4. calls \in 0..MaxCalls /\ restarts \in 0..MaxRestarts /\ Len(regs) <= MaxRegs
    BY <2>1, CallbacksAssumption DEF CallbacksAssumption, Init
  <2> QED  BY <2>1, <2>2, <2>3, <2>4 DEF Init, TypeOK, Steps, Call
<1>2. TypeOK /\ [Next]_vars => TypeOK'
  BY NextType
<1> QED
  BY <1>1, <1>2, PTL DEF FairSpec

-----------------------------------------------------------------------------
(* What a delivery answers.                                                *)

\* A thread that is left alone keeps its place and its record.
LEMMA OthersResults ==
  ASSUME TypeOK, ResultsInv, NEW t \in Threads,
         \A u \in Threads \ {t} : pc'[u] = pc[u] /\ call'[u] = call[u],
         CallAt(t)',
         call'[t].result = "true" => call'[t].ok /\ call'[t].tried <= call'[t].max,
         call'[t].result = "false" => call'[t].tried = call'[t].max
  PROVE  ResultsInv'
BY DEF ResultsInv, ResultsEarned, CallAt

\* Every step keeps the promise, and what the delivery knows at each phase.
LEMMA NextResults == ASSUME TypeOK, ResultsInv, [Next]_vars  PROVE ResultsInv'
<1> USE DEF Delivering
<1>t. /\ pc \in [Threads -> Steps] /\ call \in [Threads -> Call]
      /\ \A t \in Threads : /\ call[t] \in Call
                            /\ call[t].tried \in Nat /\ call[t].max \in Nat
                            /\ CallAt(t)
                            /\ call[t].result = "true" => call[t].ok /\ call[t].tried <= call[t].max
                            /\ call[t].result = "false" => call[t].tried = call[t].max
  BY DEF TypeOK, Call, ResultsInv, ResultsEarned
\* A step that touches no record and leaves its thread outside _deliver.
<1>k. ASSUME NEW t \in Threads, NEW label, Go(t, label), label \notin Delivering, call' = call
      PROVE  ResultsInv'
  BY <1>k, <1>t, OthersResults DEF Go, CallAt
<1>1. ASSUME NEW t \in Threads, NEW m \in Policies, Register(t, m)  PROVE ResultsInv'
  BY <1>1, <1>k DEF Register
<1>2. ASSUME NEW t \in Threads, Persist(t) \/ Unregister(t) \/ Delete(t) \/ WriteRaises(t)
      PROVE  ResultsInv'
  BY <1>2, <1>k DEF Persist, Unregister, Delete, WriteRaises
<1>3. ASSUME NEW t \in Threads, NEW m \in Int, Trigger(t, m)  PROVE ResultsInv'
  <2>1. /\ pc'[t] = "attempt" /\ call'[t] = [NoCall EXCEPT !.max = IF m > 1 THEN m ELSE 1]
        /\ \A u \in Threads \ {t} : pc'[u] = pc[u] /\ call'[u] = call[u]
    BY <1>3, <1>t DEF Trigger, Go
  <2>2. call'[t].result = "none" /\ call'[t].tried < call'[t].max
    BY <2>1 DEF NoCall
  <2> QED  BY <2>1, <2>2, OthersResults DEF CallAt
<1>4. ASSUME NEW t \in Threads, Attempt(t)  PROVE ResultsInv'
  <2>1. /\ pc[t] = "attempt" /\ pc'[t] = "request" /\ call' = call
        /\ \A u \in Threads \ {t} : pc'[u] = pc[u]
    BY <1>4, <1>t DEF Attempt, Go
  <2> QED  BY <2>1, <1>t, OthersResults DEF CallAt
<1>5. ASSUME NEW t \in Threads, NEW ok \in BOOLEAN, Request(t, ok)  PROVE ResultsInv'
  <2>1. /\ pc[t] = "request" /\ pc'[t] = (IF ok THEN "record_ok" ELSE "record")
        /\ \A u \in Threads \ {t} : pc'[u] = pc[u] /\ call'[u] = call[u]
    BY <1>5, <1>t DEF Request, Go
  <2>2. /\ call'[t].tried = call[t].tried + 1 /\ call'[t].max = call[t].max
        /\ call'[t].result = call[t].result
    BY <1>5, <1>t DEF Request, Call
  <2>3. call'[t].ok = ok
    BY <1>5, <1>t DEF Request, Call
  <2>4. call'[t].tried <= call'[t].max /\ call'[t].result = "none"
    BY <2>1, <2>2, <1>t DEF CallAt
  <2> QED  BY <2>1, <2>3, <2>4, OthersResults DEF CallAt
<1>6. ASSUME NEW t \in Threads, RecordOkRaises(t)  PROVE ResultsInv'
  <2>1. /\ pc[t] = "record_ok" /\ pc'[t] = "record" /\ call' = call
        /\ \A u \in Threads \ {t} : pc'[u] = pc[u]
    BY <1>6, <1>t DEF RecordOkRaises, Go
  <2> QED  BY <2>1, <1>t, OthersResults DEF CallAt
<1>f. ASSUME NEW t \in Threads, NEW r \in {"true", "false", "raised"}, Finish(t, r)
      PROVE  /\ pc'[t] = "idle" /\ call'[t].result = r
             /\ call'[t].ok = call[t].ok /\ call'[t].tried = call[t].tried
             /\ call'[t].max = call[t].max
             /\ \A u \in Threads \ {t} : pc'[u] = pc[u] /\ call'[u] = call[u]
  BY <1>f, <1>t DEF Finish, Go, Call
<1>7. ASSUME NEW t \in Threads, RecordOk(t)  PROVE ResultsInv'
  <2>1. call[t].ok /\ call[t].tried <= call[t].max
    BY <1>7, <1>t DEF RecordOk, CallAt
  <2> QED  BY <1>7, <1>f, <2>1, OthersResults DEF RecordOk, CallAt
<1>8. ASSUME NEW t \in Threads, Record(t)  PROVE ResultsInv'
  <2>1. pc[t] = "record" /\ call[t].tried <= call[t].max /\ call[t].result = "none"
    BY <1>8, <1>t DEF Record, CallAt
  <2>2. CASE call[t].tried < call[t].max
    <3>1. /\ pc'[t] = "attempt" /\ call' = call
          /\ \A u \in Threads \ {t} : pc'[u] = pc[u]
      BY <1>8, <1>t, <2>2 DEF Record, Go
    <3> QED  BY <2>1, <2>2, <3>1, <1>t, OthersResults DEF CallAt
  <2>3. CASE ~(call[t].tried < call[t].max)
    <3>1. call[t].tried = call[t].max
      BY <2>1, <2>3, <1>t
    <3>2. Finish(t, "false")
      BY <1>8, <2>3 DEF Record
    <3> QED  BY <3>1, <3>2, <1>f, OthersResults DEF CallAt
  <2> QED  BY <2>2, <2>3
<1>9. ASSUME NEW t \in Threads, RecordRaises(t)  PROVE ResultsInv'
  BY <1>9, <1>f, OthersResults DEF RecordRaises, CallAt
<1>10. CASE Restart
  BY <1>10 DEF Restart, NoCall, ResultsInv, ResultsEarned, CallAt
<1>11. CASE UNCHANGED vars
  BY <1>11 DEF vars, ResultsInv, ResultsEarned, CallAt
<1> QED
  BY <1>1, <1>2, <1>3, <1>4, <1>5, <1>6, <1>7, <1>8, <1>9, <1>10, <1>11, TriggersAlike
  DEF Next, Deliver

\* Delivery: True stands for an accepted request, False for a policy used up,
\* whatever registrations and restarts happen meanwhile.
THEOREM DeliveryAnswersEarned == FairSpec => []ResultsEarned
<1>1. Init => ResultsInv
  BY DEF Init, ResultsInv, ResultsEarned, CallAt, Delivering, NoCall
<1>2. TypeOK /\ ResultsInv /\ [Next]_vars => ResultsInv'
  BY NextResults
<1>3. ResultsInv => ResultsEarned
  BY DEF ResultsInv
<1> QED
  BY CallbacksTypeCorrect, <1>1, <1>2, <1>3, PTL DEF FairSpec

-----------------------------------------------------------------------------
(* Memory and the table agree.                                             *)

\* Who is busy after a thread has moved.
LEMMA BusyMoves ==
  ASSUME pc \in [Threads -> Steps], NEW t \in Threads, NEW label \in Steps, Go(t, label)
  PROVE  /\ Busy' = IF label = "idle" THEN Busy \ {t} ELSE Busy \cup {t}
         /\ pc'[t] = label
         /\ \A u \in Threads \ {t} : pc'[u] = pc[u]
BY DEF Busy, Go

\* A call begins: if it is alone nobody else is busy, if not all are marked.
LEMMA CallBegins ==
  ASSUME pc \in [Threads -> Steps], NEW t \in Threads, NEW label \in Steps \ {"idle"},
         pc[t] = "idle", Go(t, label), Overlaps(t)
  PROVE  \A u \in Threads : pc'[u] # "idle" /\ u \notin overlap' => u = t /\ Busy' = {t}
<1> SUFFICES ASSUME NEW u \in Threads, pc'[u] # "idle", u \notin overlap'
             PROVE  u = t /\ Busy' = {t}
  OBVIOUS
<1>1. Busy' = Busy \cup {t}
  BY BusyMoves
<1>2. u \in Busy \cup {t}
  BY <1>1 DEF Busy
<1>3. Busy = {}
  BY <1>2 DEF Overlaps
<1> QED  BY <1>1, <1>2, <1>3

\* A call ends: whoever is still busy overlapped it and is marked.
LEMMA CallEnds ==
  ASSUME pc \in [Threads -> Steps], NEW t \in Threads, pc[t] # "idle", Go(t, "idle"),
         overlap' = overlap \ {t}, \A u \in Threads : WriteAt(u)
  PROVE  \A u \in Threads : pc'[u] # "idle" => u # t /\ pc'[u] = pc[u] /\ u \in overlap'
<1> SUFFICES ASSUME NEW u \in Threads, pc'[u] # "idle"
             PROVE  u # t /\ pc'[u] = pc[u] /\ u \in overlap'
  OBVIOUS
<1>1. u # t /\ pc'[u] = pc[u]
  BY BusyMoves DEF Steps
<1>2. t \in Busy
  BY DEF Busy
<1> QED  BY <1>1, <1>2 DEF WriteAt

\* Every step keeps memory and the table in agreement.
LEMMA NextDurable == ASSUME TypeOK, DurableInv, [Next]_vars  PROVE DurableInv'
<1> USE DEF Writing
<1>t. /\ pc \in [Threads -> Steps]
      /\ \A t \in Threads : WriteAt(t)
  BY DEF TypeOK, DurableInv
<1>1. ASSUME NEW t \in Threads, NEW m \in Policies, Register(t, m)  PROVE DurableInv'
  <2>1. \A u \in Threads : pc'[u] # "idle" /\ u \notin overlap' => u = t /\ Busy' = {t}
    BY <1>1, <1>t, CallBegins DEF Register, Steps
  <2>2. wanted' = -1 /\ registry' = arg'[t] /\ pc'[t] = "persist"
    BY <1>1 DEF Register, TypeOK, Go
  <2> QED  BY <2>1, <2>2 DEF DurableInv, Durable, WriteAt
<1>2. ASSUME NEW t \in Threads, Unregister(t)  PROVE DurableInv'
  <2>1. \A u \in Threads : pc'[u] # "idle" /\ u \notin overlap' => u = t /\ Busy' = {t}
    BY <1>2, <1>t, CallBegins DEF Unregister, Steps
  <2>2. wanted' = -1 /\ registry' = 0 /\ pc'[t] = "delete"
    BY <1>2 DEF Unregister, TypeOK, Go
  <2> QED  BY <2>1, <2>2 DEF DurableInv, Durable, WriteAt
<1>3. ASSUME NEW t \in Threads, NEW m \in Int, Trigger(t, m)  PROVE DurableInv'
  <2>1. \A u \in Threads : pc'[u] # "idle" /\ u \notin overlap' => u = t /\ Busy' = {t}
    BY <1>3, <1>t, CallBegins DEF Trigger, Steps
  <2>2. pc'[t] = "attempt" /\ \A u \in Threads \ {t} : pc'[u] = pc[u]
    BY <1>3, <1>t, BusyMoves DEF Trigger, Steps
  <2>3. UNCHANGED <<registry, table, wanted>>
    BY <1>3 DEF Trigger
  <2> QED  BY <1>t, <2>1, <2>2, <2>3 DEF DurableInv, Durable, WriteAt
\* A call ends without having touched the two.
<1>e. ASSUME NEW t \in Threads, pc[t] # "idle", Go(t, "idle"), overlap' = overlap \ {t},
             UNCHANGED <<registry, wanted>>, table'.reg = table.reg
      PROVE  DurableInv'
  <2>1. \A u \in Threads : pc'[u] # "idle" => u # t /\ pc'[u] = pc[u] /\ u \in overlap'
    BY <1>e, <1>t, CallEnds
  <2> QED  BY <1>e, <1>t, <2>1 DEF DurableInv, Durable, WriteAt
<1>4. ASSUME NEW t \in Threads, Persist(t)  PROVE DurableInv'
  <2>1. \A u \in Threads : pc'[u] # "idle" => u # t /\ pc'[u] = pc[u] /\ u \in overlap'
    BY <1>4, <1>t, CallEnds DEF Persist, Ends
  <2>2. CASE t \in overlap
    <3>1. wanted' = -1
      BY <1>4, <1>t, <2>2 DEF Persist, Ends, WriteAt
    <3> QED  BY <2>1, <3>1 DEF DurableInv, Durable, WriteAt
  <2>3. CASE t \notin overlap
    <3>1. Busy = {t} /\ registry = arg[t]
      BY <1>4, <1>t, <2>3 DEF Persist, WriteAt
    <3>2. \A u \in Threads : pc'[u] = "idle"
      BY <2>1, <3>1 DEF Busy
    <3>3. wanted' = arg[t] /\ registry' = arg[t] /\ table'.reg = arg[t]
      BY <1>4, <2>3, <3>1 DEF Persist, Ends
    <3> QED  BY <3>2, <3>3 DEF DurableInv, Durable, WriteAt
  <2> QED  BY <2>2, <2>3
<1>5. ASSUME NEW t \in Threads, Delete(t)  PROVE DurableInv'
  <2>1. \A u \in Threads : pc'[u] # "idle" => u # t /\ pc'[u] = pc[u] /\ u \in overlap'
    BY <1>5, <1>t, CallEnds DEF Delete, Ends
  <2>2. CASE t \in overlap
    <3>1. wanted' = -1
      BY <1>5, <1>t, <2>2 DEF Delete, Ends, WriteAt
    <3> QED  BY <2>1, <3>1 DEF DurableInv, Durable, WriteAt
  <2>3. CASE t \notin overlap
    <3>1. Busy = {t} /\ registry = 0
      BY <1>5, <1>t, <2>3 DEF Delete, WriteAt
    <3>2. \A u \in Threads : pc'[u] = "idle"
      BY <2>1, <3>1 DEF Busy
    <3>3. wanted' = 0 /\ registry' = 0 /\ table'.reg = 0
      BY <1>5, <2>3, <3>1 DEF Delete, Ends, NoRow
    <3> QED  BY <3>2, <3>3 DEF DurableInv, Durable, WriteAt
  <2> QED  BY <2>2, <2>3
<1>6. ASSUME NEW t \in Threads, WriteRaises(t)  PROVE DurableInv'
  BY <1>6, <1>e DEF WriteRaises
\* A step within a delivery.
<1>m. ASSUME NEW t \in Threads, NEW label \in Delivering, pc[t] \in Delivering, Go(t, label),
             UNCHANGED <<registry, wanted, overlap, arg>>, table'.reg = table.reg
      PROVE  DurableInv'
  <2>1. /\ Busy' = Busy /\ pc'[t] = label
        /\ \A u \in Threads \ {t} : pc'[u] = pc[u]
    BY <1>m, <1>t, BusyMoves DEF Delivering, Steps, Busy
  <2> QED  BY <1>m, <1>t, <2>1 DEF DurableInv, Durable, WriteAt, Delivering
<1>c. ASSUME NEW t \in Threads, CountWritten(t)  PROVE table'.reg = table.reg
  BY <1>c DEF CountWritten, TypeOK
<1>7. ASSUME NEW t \in Threads, Attempt(t) \/ RecordOkRaises(t)  PROVE DurableInv'
  BY <1>7, <1>m DEF Attempt, RecordOkRaises, Delivering
<1>8. ASSUME NEW t \in Threads, NEW ok \in BOOLEAN, Request(t, ok)  PROVE DurableInv'
  <2>1. (IF ok THEN "record_ok" ELSE "record") \in Delivering /\ pc[t] \in Delivering
    BY <1>8 DEF Request, Delivering
  <2> QED  BY <1>8, <1>m, <2>1 DEF Request
<1>9. ASSUME NEW t \in Threads, RecordOk(t) \/ RecordRaises(t)  PROVE DurableInv'
  BY <1>9, <1>c, <1>e DEF RecordOk, RecordRaises, Finish
<1>10. ASSUME NEW t \in Threads, Record(t)  PROVE DurableInv'
  BY <1>10, <1>c, <1>e, <1>m DEF Record, Finish, Delivering
<1>11. CASE Restart
  BY <1>11 DEF Restart, DurableInv, Durable, WriteAt
<1>12. CASE UNCHANGED vars
  BY <1>12 DEF vars, DurableInv, Durable, WriteAt, Busy
<1> QED
  BY <1>1, <1>2, <1>3, <1>4, <1>5, <1>6, <1>7, <1>8, <1>9, <1>10, <1>11, <1>12,
     TriggersAlike DEF Next, Deliver

\* The invariant of the registrations, for use by what follows.
LEMMA DurableAlways == FairSpec => []DurableInv
<1>1. Init => DurableInv
  BY DEF Init, DurableInv, Durable, WriteAt, NoRow, Writing
<1>2. TypeOK /\ DurableInv /\ [Next]_vars => DurableInv'
  BY NextDurable
<1> QED
  BY CallbacksTypeCorrect, <1>1, <1>2, PTL DEF FairSpec

\* A registration or its removal that overlapped no other call or delivery
\* stands, in memory and in the table, through every later delivery, refused
\* write and restart.
THEOREM RegistrationsDurable == FairSpec => []Durable
<1>1. DurableInv => Durable
  BY DEF DurableInv
<1> QED
  BY DurableAlways, <1>1, PTL

-----------------------------------------------------------------------------
(* The row counts the requests.                                            *)

\* A number that no registration has yet has had no request sent for it.
LEMMA NextFresh == ASSUME TypeOK, Fresh, [Next]_vars  PROVE Fresh'
<1>t. /\ sent \in [1..MaxRegs -> Nat] /\ Len(regs) \in Nat
      /\ arg \in [Threads -> 0..Len(regs)]
  BY RegTypes DEF TypeOK
<1>s. ASSUME sent' = sent, Len(regs') \in Nat, Len(regs') >= Len(regs)  PROVE Fresh'
  BY <1>s, <1>t, CallbacksAssumption DEF Fresh, CallbacksAssumption
<1>1. ASSUME NEW t \in Threads, NEW m \in Policies, Register(t, m)  PROVE Fresh'
  <2>1. [max |-> m, attempts |-> 0] \in Reg
    BY DEF Reg
  <2>2. Len(regs') = Len(regs) + 1
    BY <1>1, <2>1, RegTypes, RegsAppend DEF Register
  <2> QED  BY <1>1, <1>s, <1>t, <2>2 DEF Register
<1>2. ASSUME NEW t \in Threads, NEW ok \in BOOLEAN, Request(t, ok)  PROVE Fresh'
  <2>1. /\ arg[t] \in 1..Len(regs)
        /\ sent' = [sent EXCEPT ![arg[t]] = sent[arg[t]] + 1] /\ regs' = regs
    BY <1>2, ArgTypes DEF Request
  <2> QED  BY <1>t, <2>1, CallbacksAssumption DEF Fresh, CallbacksAssumption
<1>3. ASSUME NEW t \in Threads, Attempt(t)  PROVE Fresh'
  <2>1. arg[t] \in 1..Len(regs)
    BY <1>3, ArgTypes DEF Attempt
  <2>2. regs[arg[t]].attempts + 1 \in Nat
    BY <2>1, RegTypes
  <2>3. Len(regs') = Len(regs)
    BY <1>3, <2>1, <2>2, RegTypes, RegsCount DEF Attempt
  <2> QED  BY <1>3, <1>s, <1>t, <2>3 DEF Attempt
<1>4. CASE Restart
  <2>1. CASE table.reg = 0
    BY <1>4, <1>s, <1>t, <2>1 DEF Restart
  <2>2. CASE table.reg # 0
    <3>1. table.reg \in 1..Len(regs) /\ table.attempts \in Nat
      BY <1>t, <2>2 DEF TypeOK
    <3>2. regs' = [regs EXCEPT ![table.reg].attempts = table.attempts] /\ sent' = sent
      BY <1>4, <2>2 DEF Restart
    <3>3. Len(regs') = Len(regs)
      BY <3>1, <3>2, RegTypes, RegsCount
    <3> QED  BY <1>s, <1>t, <3>2, <3>3
  <2> QED  BY <2>1, <2>2
<1>5. ASSUME UNCHANGED <<regs, sent>>  PROVE Fresh'
  BY <1>5, <1>s, <1>t
<1>6. ASSUME NEW t \in Threads,
             \/ Persist(t) \/ Unregister(t) \/ Delete(t) \/ WriteRaises(t) \/ RecordOk(t)
             \/ RecordOkRaises(t) \/ Record(t) \/ RecordRaises(t)
             \/ \E m \in Int : Trigger(t, m)
      PROVE  Fresh'
  BY <1>5, <1>6 DEF Persist, Unregister, Delete, WriteRaises, RecordOk, RecordOkRaises, Record,
                    RecordRaises, Trigger
<1>7. CASE UNCHANGED vars
  BY <1>5, <1>7 DEF vars
<1> QED
  BY <1>1, <1>2, <1>3, <1>4, <1>6, <1>7, TriggersAlike DEF Next, Deliver

\* Once mixed, nothing is claimed of the counts.
LEMMA MixedCounts == ASSUME Fresh', mixed'  PROVE CountInv'
BY DEF CountInv, AttemptsCounted

\* One thread is busy: what it leaves for itself is all there is to see to.
LEMMA AloneCounts ==
  ASSUME Fresh', NEW t \in Threads, Busy' = {t}, CountAt(t)'
  PROVE  CountInv'
<1>1. \A u \in Threads \ {t} : pc'[u] = "idle"
  BY DEF Busy
<1>2. \A u \in Threads \ {t} : CountAt(u)'
  BY <1>1 DEF CountAt, Delivering
<1> QED  BY <1>2 DEF CountInv, RestCount, AttemptsCounted

\* No thread is busy: memory and the row must agree.
LEMMA RestCounts ==
  ASSUME Fresh', Busy' = {},
         wanted' > 0 => /\ regs'[wanted'].attempts = table'.attempts
                        /\ table'.attempts <= sent'[wanted']
                        /\ sent'[wanted'] <= table'.attempts + restarts'
  PROVE  CountInv'
<1>1. \A u \in Threads : pc'[u] = "idle"
  BY DEF Busy
<1>2. \A u \in Threads : CountAt(u)'
  BY <1>1 DEF CountAt, Delivering
<1> QED  BY <1>2 DEF CountInv, RestCount, AttemptsCounted

\* Every step keeps the counts.
LEMMA NextCounts ==
  ASSUME TypeOK, DurableInv, CountInv, [Next]_vars
  PROVE  CountInv'
<1> USE DEF Writing, Delivering
<1>f. Fresh'
  BY NextFresh DEF CountInv
<1> SUFFICES ASSUME ~mixed'  PROVE CountInv'
  BY <1>f, MixedCounts DEF CountInv, AttemptsCounted
<1>t. /\ pc \in [Threads -> Steps] /\ arg \in [Threads -> 0..Len(regs)]
      /\ Len(regs) \in Nat /\ wanted \in -1..Len(regs) /\ restarts \in Nat
      /\ table.attempts \in Nat /\ table.reg \in 0..Len(regs)
      /\ sent \in [1..MaxRegs -> Nat]
  BY RegTypes, CallbacksAssumption DEF TypeOK, CallbacksAssumption
<1>r. \A i \in 1..Len(regs) : sent[i] \in Nat /\ regs[i].attempts \in Nat
  BY <1>t, RegTypes
<1>q. ASSUME ~mixed  PROVE RestCount /\ \A t \in Threads : CountAt(t)
  BY <1>q DEF CountInv
<1>1. ASSUME NEW t \in Threads, NEW m \in Policies, Register(t, m)  PROVE CountInv'
  <2>1. Busy = {} /\ Busy' = {t} /\ pc'[t] = "persist"
    BY <1>1, <1>t, BusyMoves DEF Register, Steps
  <2>2. arg'[t] = Len(regs) + 1 /\ arg'[t] \in 1..MaxRegs /\ wanted' = -1
    BY <1>1, <1>t, CallbacksAssumption DEF Register, CallbacksAssumption
  <2>3. sent'[arg'[t]] = 0
    BY <1>1, <1>t, <2>2 DEF Register, CountInv, Fresh
  <2>4. regs'[arg'[t]].attempts = 0
    <3>1. [max |-> m, attempts |-> 0] \in Reg
      BY DEF Reg
    <3> QED  BY <1>1, <2>2, <3>1, RegTypes, RegsAppend DEF Register
  <2> QED  BY <1>f, <2>1, <2>2, <2>3, <2>4, AloneCounts DEF CountAt
<1>2. ASSUME NEW t \in Threads, Persist(t)  PROVE CountInv'
  <2>1. Busy = {t} /\ regs[arg[t]].attempts = 0 /\ sent[arg[t]] = 0 /\ wanted = -1
    BY <1>2, <1>q DEF Persist, CountAt, DurableInv, WriteAt
  <2>2. Busy' = {}
    BY <1>2, <1>t, <2>1, BusyMoves DEF Persist, Steps
  <2>3. wanted' > 0 => wanted' = arg[t]
    BY <1>2, <2>1 DEF Persist, Ends
  <2>4. table'.attempts = 0 /\ regs' = regs /\ sent' = sent /\ restarts' = restarts
    BY <1>2, <2>1 DEF Persist
  <2> QED  BY <1>f, <1>t, <2>1, <2>2, <2>3, <2>4, RestCounts
<1>3. ASSUME NEW t \in Threads, Unregister(t)  PROVE CountInv'
  <2>1. Busy = {} /\ Busy' = {t} /\ pc'[t] = "delete" /\ wanted' = -1
    BY <1>3, <1>t, BusyMoves DEF Unregister, Steps
  <2> QED  BY <1>f, <2>1, AloneCounts DEF CountAt
<1>4. ASSUME NEW t \in Threads, Delete(t)  PROVE CountInv'
  <2>1. Busy = {t} /\ wanted = -1
    BY <1>4, <1>q DEF Delete, CountAt, DurableInv, WriteAt
  <2>2. Busy' = {} /\ ~(wanted' > 0)
    BY <1>4, <1>t, <2>1, BusyMoves DEF Delete, Ends, Steps
  <2> QED  BY <1>f, <2>2, RestCounts
<1>5. ASSUME NEW t \in Threads, NEW m \in Int, Trigger(t, m)  PROVE CountInv'
  <2>1. ~mixed /\ Busy = {} /\ Busy' = {t} /\ pc'[t] = "attempt"
    BY <1>5, <1>t, BusyMoves DEF Trigger, Steps
  <2>2. /\ arg'[t] = registry
        /\ UNCHANGED <<regs, table, sent, wanted, restarts>>
    BY <1>5, <1>t DEF Trigger
  <2>3. wanted > 0 => registry = wanted
    BY DEF DurableInv, Durable
  <2>4. wanted > 0 => /\ regs[wanted].attempts = table.attempts
                      /\ table.attempts <= sent[wanted]
                      /\ sent[wanted] <= table.attempts + restarts
    BY <2>1, <1>q DEF RestCount, CountInv, AttemptsCounted
  <2>5. Ahead(t)' = 0 /\ Sent(t)' = 0
    BY <2>1 DEF Ahead, Sent
  <2> QED  BY <1>f, <1>t, <2>1, <2>2, <2>3, <2>4, <2>5, AloneCounts DEF CountAt
\* A thread in _deliver: it is alone, and so it stays or leaves nobody.
<1>d. ASSUME NEW t \in Threads, pc[t] \in Delivering, ~mixed
      PROVE  /\ Busy = {t}
             /\ wanted > 0 =>
                  /\ arg[t] = wanted /\ wanted \in 1..Len(regs) /\ table.reg = wanted
                  /\ regs[wanted].attempts = table.attempts + Ahead(t)
                  /\ table.attempts + Sent(t) <= sent[wanted]
                  /\ sent[wanted] <= table.attempts + Sent(t) + restarts
  <2>1. CountAt(t)
    BY <1>d, <1>q
  <2>2. wanted > 0 => wanted \in 1..Len(regs) /\ table.reg = wanted
    BY <1>t DEF DurableInv, Durable
  <2> QED  BY <1>d, <2>1, <2>2 DEF CountAt
<1>6. ASSUME NEW t \in Threads, Attempt(t)  PROVE CountInv'
  <2>1. pc[t] = "attempt" /\ pc'[t] = "request" /\ ~mixed
    BY <1>6, <1>t, BusyMoves DEF Attempt, Steps
  <2>2. Busy = {t} /\ Busy' = {t}
    BY <1>6, <1>t, <1>d, <2>1, BusyMoves DEF Attempt, Steps
  <2>3. arg[t] \in 1..Len(regs)
    BY <2>1, ArgTypes
  <2>4. regs'[arg[t]].attempts = regs[arg[t]].attempts + 1
    BY <1>6, <1>r, <2>3, RegTypes, RegsCount DEF Attempt
  <2>5. UNCHANGED <<arg, table, sent, wanted, restarts>>
    BY <1>6 DEF Attempt
  <2>6. Ahead(t) = 0 /\ Sent(t) = 0 /\ Ahead(t)' = 1 /\ Sent(t)' = 0
    BY <2>1 DEF Ahead, Sent
  <2>7. wanted > 0 => regs'[wanted].attempts = table.attempts + 1
    BY <1>d, <1>t, <2>1, <2>4, <2>6
  <2>8. CountAt(t)'
    BY <1>d, <1>t, <2>1, <2>2, <2>5, <2>6, <2>7 DEF CountAt
  <2> QED  BY <1>f, <2>2, <2>8, AloneCounts
<1>7. ASSUME NEW t \in Threads, NEW ok \in BOOLEAN, Request(t, ok)  PROVE CountInv'
  <2>1. /\ pc[t] = "request" /\ pc'[t] \in {"record_ok", "record"} /\ ~mixed
    BY <1>7, <1>t DEF Request, Go
  <2>2. (IF ok THEN "record_ok" ELSE "record") \in Steps \ {"idle"}
    BY DEF Steps
  <2>3. Busy = {t} /\ Busy' = {t}
    BY <1>7, <1>t, <1>d, <2>1, <2>2, BusyMoves DEF Request
  <2>4. UNCHANGED <<arg, regs, table, wanted, restarts>>
    BY <1>7 DEF Request
  <2>5. arg[t] \in 1..MaxRegs
    BY <2>1, ArgTypes
  <2>6. sent'[arg[t]] = sent[arg[t]] + 1
    BY <1>7, <1>t, <2>5 DEF Request
  <2>7. Ahead(t) = 1 /\ Sent(t) = 0 /\ Ahead(t)' = 1 /\ Sent(t)' = 1
    BY <2>1 DEF Ahead, Sent
  <2>8. CountAt(t)'
    BY <1>d, <1>r, <1>t, <2>1, <2>3, <2>4, <2>6, <2>7, SMTT(40) DEF CountAt
  <2> QED  BY <1>f, <2>3, <2>8, AloneCounts
<1>8. ASSUME NEW t \in Threads, RecordOkRaises(t)  PROVE CountInv'
  <2>1. pc[t] = "record_ok" /\ pc'[t] = "record" /\ ~mixed
    BY <1>8, <1>t, BusyMoves DEF RecordOkRaises, Steps
  <2>2. Busy = {t} /\ Busy' = {t}
    BY <1>8, <1>t, <1>d, <2>1, BusyMoves DEF RecordOkRaises, Steps
  <2>3. UNCHANGED <<arg, regs, table, sent, wanted, restarts>>
    BY <1>8 DEF RecordOkRaises
  <2>4. Ahead(t) = 1 /\ Sent(t) = 1 /\ Ahead(t)' = 1 /\ Sent(t)' = 1
    BY <2>1 DEF Ahead, Sent
  <2>5. CountAt(t)'
    BY <1>d, <1>t, <2>1, <2>2, <2>3, <2>4 DEF CountAt
  <2> QED  BY <1>f, <2>2, <2>5, AloneCounts
\* _persist_attempt brings the row level with memory.
<1>c. ASSUME NEW t \in Threads, pc[t] \in {"record_ok", "record"}, ~mixed, CountWritten(t),
             wanted > 0
      PROVE  /\ arg[t] = wanted
             /\ table'.attempts = regs[wanted].attempts
             /\ table'.attempts = table.attempts + 1
             /\ table'.attempts <= sent[wanted]
             /\ sent[wanted] <= table'.attempts + restarts
  <2>1. Ahead(t) = 1 /\ Sent(t) = 1
    BY <1>c DEF Ahead, Sent
  <2>2. /\ arg[t] = wanted /\ table.reg # 0
        /\ regs[wanted].attempts = table.attempts + 1
        /\ table.attempts + 1 <= sent[wanted]
        /\ sent[wanted] <= table.attempts + 1 + restarts
    BY <1>c, <1>d, <1>t, <2>1
  <2>3. table'.attempts = regs[wanted].attempts
    BY <1>c, <2>2 DEF CountWritten, TypeOK
  <2> QED  BY <2>2, <2>3
<1>9. ASSUME NEW t \in Threads, pc[t] \in {"record_ok", "record"}, CountWritten(t), Go(t, "idle"),
             UNCHANGED <<regs, sent, wanted, restarts, mixed>>
      PROVE  CountInv'
  <2>1. Busy = {t} /\ Busy' = {}
    BY <1>9, <1>t, <1>d, BusyMoves DEF Steps
  <2> QED  BY <1>9, <1>c, <1>f, <2>1, RestCounts
<1>10. ASSUME NEW t \in Threads, RecordOk(t)  PROVE CountInv'
  BY <1>9, <1>10 DEF RecordOk, Finish
<1>11. ASSUME NEW t \in Threads, Record(t)  PROVE CountInv'
  <2>1. CASE Finish(t, "false")
    BY <1>9, <1>11, <2>1 DEF Record, Finish
  <2>2. CASE Go(t, "attempt")
    <3>1. pc[t] = "record" /\ pc'[t] = "attempt" /\ ~mixed
      BY <1>11, <1>t, <2>2, BusyMoves DEF Record, Steps
    <3>2. Busy = {t} /\ Busy' = {t}
      BY <1>t, <1>d, <2>2, <3>1, BusyMoves DEF Steps
    <3>3. UNCHANGED <<arg, regs, sent, wanted, restarts>> /\ CountWritten(t)
      BY <1>11 DEF Record
    <3>4. Ahead(t)' = 0 /\ Sent(t)' = 0
      BY <3>1 DEF Ahead, Sent
    <3>5. wanted > 0 => /\ arg[t] = wanted
                        /\ table'.attempts = regs[wanted].attempts
                        /\ table'.attempts \in Nat
                        /\ table'.attempts <= sent[wanted]
                        /\ sent[wanted] <= table'.attempts + restarts
      BY <1>c, <1>t, <3>1, <3>3
    <3>6. CountAt(t)'
      BY <1>t, <3>1, <3>2, <3>3, <3>4, <3>5 DEF CountAt
    <3> QED  BY <1>f, <3>2, <3>6, AloneCounts
  <2> QED  BY <1>11, <2>1, <2>2 DEF Record
<1>12. CASE Restart
  <2>1. Busy' = {} /\ UNCHANGED <<table, sent, wanted, mixed>> /\ restarts' = restarts + 1
    BY <1>12 DEF Restart, Busy
  <2>2. SUFFICES ASSUME wanted > 0
                 PROVE  /\ regs'[wanted].attempts = table.attempts
                        /\ table.attempts <= sent[wanted]
                        /\ sent[wanted] <= table.attempts + restarts + 1
    BY <1>f, <1>t, <2>1, RestCounts
  <2>3. wanted \in 1..Len(regs) /\ table.reg = wanted
    BY <1>t, <2>2 DEF DurableInv, Durable
  <2>4. regs'[wanted].attempts = table.attempts
    BY <1>12, <1>t, <2>3, RegTypes, RegsCount DEF Restart
  <2>5. CASE Busy = {}
    BY <1>r, <1>t, <2>1, <2>2, <2>3, <2>4, <2>5 DEF CountInv, AttemptsCounted
  <2>6. CASE Busy # {}
    <3>1. PICK t \in Threads : pc[t] # "idle"
      BY <2>6 DEF Busy
    <3>2. pc[t] \in Delivering
      BY <1>t, <2>2, <3>1 DEF DurableInv, WriteAt, Steps
    <3>3. Sent(t) \in {0, 1}
      BY DEF Sent
    <3> QED  BY <1>d, <1>r, <1>t, <2>1, <2>2, <2>3, <2>4, <3>2, <3>3
  <2> QED  BY <2>5, <2>6
<1>13. ASSUME NEW t \in Threads, WriteRaises(t) \/ RecordRaises(t)  PROVE CountInv'
  BY <1>13 DEF WriteRaises, RecordRaises
<1>14. CASE UNCHANGED vars
  BY <1>14 DEF vars, CountInv, Fresh, RestCount, CountAt, Ahead, Sent, AttemptsCounted, Busy
<1> QED
  BY <1>1, <1>2, <1>3, <1>4, <1>5, <1>6, <1>7, <1>8, <1>10, <1>11, <1>12, <1>13, <1>14,
     TriggersAlike DEF Next, Deliver

\* As long as no two calls overlapped and no write was refused since the
\* registration, the row's attempt_count is the number of requests sent, but
\* for what a restart cut off between the request and its write.
THEOREM RequestsCounted == FairSpec => []AttemptsCounted
<1>1. Init => CountInv
  BY CallbacksAssumption
  DEF CallbacksAssumption, Init, CountInv, Fresh, RestCount, CountAt, AttemptsCounted, Busy,
      Delivering
<1>2. TypeOK /\ DurableInv /\ CountInv /\ [Next]_vars => CountInv'
  BY NextCounts
<1>3. CountInv => AttemptsCounted
  BY DEF CountInv
<1> QED
  BY CallbacksTypeCorrect, DurableAlways, <1>1, <1>2, <1>3, PTL DEF FairSpec
=============================================================================
