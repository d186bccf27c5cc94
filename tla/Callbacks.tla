------------------------------ MODULE Callbacks ------------------------------
(***************************************************************************)
(* CallbackManager (callbacks/manager.py) for one job id: a registration   *)
(* is kept in memory and, in a second step, in a table; a delivery raises  *)
(* the count of attempts in memory, sends the request, and writes the      *)
(* count to the table, up to the number of attempts of its policy.         *)
(* Nothing is locked: threads register, unregister and deliver at the same *)
(* time.  The database may refuse any write.  A restart loads the table.   *)
(*                                                                         *)
(* A registration is an object, told apart by its number from a later one  *)
(* while a delivery still holds it.  A call on the table is one step.      *)
(***************************************************************************)
EXTENDS Integers, Sequences

CONSTANTS
  Threads,
  Policies,      \* values of retry_policy.max_attempts, and retries + 1
  MaxRegs,       \* bound on the registrations made
  MaxCalls,      \* bound on the deliveries begun
  MaxRestarts    \* bound on restarts

ASSUME CallbacksAssumption ==
  Policies \subseteq Int /\ MaxRegs \in Nat /\ MaxCalls \in Nat /\ MaxRestarts \in Nat

VARIABLES
  registry,   \* _registry: the number of the registration, 0 without
  table,      \* job_callbacks: the row's registration (0: no row), attempt_count
  regs,       \* the registration objects: max_attempts, attempt_count
  pc, arg,    \* of each thread: its step and the registration it works on
  call,       \* of each thread: attempts allowed, requests sent, whether one
              \* was answered with success, and what the delivery returned
  calls, restarts,
  wanted,     \* history: the registration that the last call of register or
              \* unregister left, -1 while that is open
  overlap,    \* history: threads whose call overlapped another's
  sent,       \* history: requests sent for each registration
  mixed       \* history: the count was written by overlapping calls, or a
              \* write of it was refused

vars == <<registry, table, regs, pc, arg, call, calls, restarts, wanted, overlap, sent, mixed>>

NoRow == [reg |-> 0, attempts |-> 0]
NoCall == [max |-> 0, tried |-> 0, ok |-> FALSE, result |-> "none"]
Steps == {"idle", "persist", "delete", "attempt", "request", "record_ok", "record"}

TypeOK ==
  /\ registry \in 0..Len(regs)
  /\ table \in [reg : 0..Len(regs), attempts : Nat]
  /\ regs \in Seq([max : Policies, attempts : Nat]) /\ Len(regs) <= MaxRegs
  /\ pc \in [Threads -> Steps]
  /\ arg \in [Threads -> 0..Len(regs)]
  /\ \A t \in Threads : pc[t] \notin {"idle", "delete"} => arg[t] # 0
  /\ call \in [Threads -> [max : Nat, tried : Nat, ok : BOOLEAN,
                           result : {"none", "true", "false", "raised"}]]
  /\ calls \in 0..MaxCalls /\ restarts \in 0..MaxRestarts
  /\ wanted \in -1..Len(regs) /\ overlap \subseteq Threads
  /\ sent \in [1..MaxRegs -> Nat] /\ mixed \in BOOLEAN

Init ==
  /\ registry = 0 /\ table = NoRow /\ regs = <<>>
  /\ pc = [t \in Threads |-> "idle"]
  /\ arg = [t \in Threads |-> 0]
  /\ call = [t \in Threads |-> NoCall]
  /\ calls = 0 /\ restarts = 0
  /\ wanted = 0 /\ overlap = {}
  /\ sent = [r \in 1..MaxRegs |-> 0]
  /\ mixed = FALSE

Busy == {t \in Threads : pc[t] # "idle"}
Go(t, step) == pc' = [pc EXCEPT ![t] = step]

\* History: a call begins, or ends having done what it was asked.
Overlaps(t) == overlap' = IF Busy = {} THEN overlap ELSE overlap \cup Busy \cup {t}
Ends(t, r) == /\ wanted' = IF t \in overlap THEN wanted ELSE r
              /\ overlap' = overlap \ {t}
-----------------------------------------------------------------------------
\* register_callback and register: memory, then the table.
Register(t, m) ==
  /\ pc[t] = "idle" /\ Len(regs) < MaxRegs
  /\ regs' = Append(regs, [max |-> m, attempts |-> 0])
  /\ registry' = Len(regs) + 1
  /\ arg' = [arg EXCEPT ![t] = Len(regs) + 1]
  /\ Go(t, "persist")
  /\ wanted' = -1 /\ Overlaps(t)
  /\ mixed' = (Busy # {})
  /\ UNCHANGED <<table, call, calls, restarts, sent>>

\* _persist that keeps the row it finds.
PersistIfAbsent(t) ==
  /\ pc[t] = "persist"
  /\ table' = IF table.reg # 0 THEN table
              ELSE [reg |-> arg[t], attempts |-> regs[arg[t]].attempts]
  /\ Go(t, "idle") /\ Ends(t, arg[t])
  /\ UNCHANGED <<registry, regs, arg, call, calls, restarts, sent, mixed>>

Persist(t) ==
  /\ pc[t] = "persist"
  /\ table' = [reg |-> arg[t], attempts |-> regs[arg[t]].attempts]
  /\ Go(t, "idle") /\ Ends(t, arg[t])
  /\ UNCHANGED <<registry, regs, arg, call, calls, restarts, sent, mixed>>

Unregister(t) ==
  /\ pc[t] = "idle"
  /\ registry' = 0
  /\ Go(t, "delete")
  /\ wanted' = -1 /\ Overlaps(t)
  /\ mixed' = (mixed \/ Busy # {})
  /\ UNCHANGED <<table, regs, arg, call, calls, restarts, sent>>

Delete(t) ==
  /\ pc[t] = "delete"
  /\ table' = NoRow
  /\ Go(t, "idle") /\ Ends(t, 0)
  /\ UNCHANGED <<registry, regs, arg, call, calls, restarts, sent, mixed>>

\* The database refuses the write: memory has changed, the table has not.
WriteRaises(t) ==
  /\ pc[t] \in {"persist", "delete"}
  /\ Go(t, "idle")
  /\ overlap' = overlap \ {t}
  /\ mixed' = TRUE
  /\ UNCHANGED <<registry, table, regs, arg, call, calls, restarts, wanted, sent>>
-----------------------------------------------------------------------------
\* A trigger that does not look whether there is a registration.
TriggerUnchecked(t, m) ==
  /\ pc[t] = "idle" /\ calls < MaxCalls
  /\ arg' = [arg EXCEPT ![t] = registry]
  /\ call' = [call EXCEPT ![t] = [NoCall EXCEPT !.max = IF m > 1 THEN m ELSE 1]]
  /\ calls' = calls + 1
  /\ Go(t, "attempt") /\ Overlaps(t)
  /\ UNCHANGED <<registry, table, regs, restarts, wanted, sent, mixed>>

\* trigger, with m = retries + 1, and the part trigger_job_completion shares.
Trigger(t, m) ==
  /\ pc[t] = "idle" /\ registry # 0 /\ calls < MaxCalls
  /\ arg' = [arg EXCEPT ![t] = registry]
  /\ call' = [call EXCEPT ![t] = [NoCall EXCEPT !.max = IF m > 1 THEN m ELSE 1]]
  /\ calls' = calls + 1
  /\ Go(t, "attempt")
  /\ Overlaps(t)
  /\ mixed' = (mixed \/ Busy # {})
  /\ UNCHANGED <<registry, table, regs, restarts, wanted, sent>>

TriggerJobCompletion(t) == registry # 0 /\ Trigger(t, regs[registry].max)

Attempt(t) ==
  /\ pc[t] = "attempt"
  /\ regs' = [regs EXCEPT ![arg[t]].attempts = @ + 1]
  /\ Go(t, "request")
  /\ UNCHANGED <<registry, table, arg, call, calls, restarts, wanted, overlap, sent, mixed>>

\* The request without timeout=5.0, to a receiver that is silent.
RequestUntimed(t, ok) == pc[t] = "request" /\ UNCHANGED vars

\* The receiver answers with a 2xx, or with another status, or not at all;
\* in the last two cases it may still have acted on the request.
Request(t, ok) ==
  /\ pc[t] = "request"
  /\ call' = [call EXCEPT ![t].tried = @ + 1, ![t].ok = ok]
  /\ sent' = [sent EXCEPT ![arg[t]] = @ + 1]
  /\ Go(t, IF ok THEN "record_ok" ELSE "record")
  /\ UNCHANGED <<registry, table, regs, arg, calls, restarts, wanted, overlap, mixed>>

\* _persist_attempt: UPDATE ... WHERE job_id, whichever registration the row is.
\* The statement changes nothing when there is no row.
CountWritten(t) ==
  table' = IF table.reg = 0 THEN table ELSE [table EXCEPT !.attempts = regs[arg[t]].attempts]

Finish(t, r) ==
  /\ Go(t, "idle")
  /\ call' = [call EXCEPT ![t].result = r]
  /\ overlap' = overlap \ {t}

RecordOk(t) ==
  /\ pc[t] = "record_ok"
  /\ CountWritten(t)
  /\ Finish(t, "true")
  /\ UNCHANGED <<registry, regs, arg, calls, restarts, wanted, sent, mixed>>

\* The write is inside the try: when it is refused, a delivery that succeeded
\* is taken for a failed attempt.
RecordOkRaises(t) ==
  /\ pc[t] = "record_ok"
  /\ Go(t, "record")
  /\ UNCHANGED <<registry, table, regs, arg, call, calls, restarts, wanted, overlap, sent, mixed>>

\* A failed attempt whose count is not written.
RecordNothing(t) ==
  /\ pc[t] = "record"
  /\ UNCHANGED table
  /\ IF call[t].tried < call[t].max
     THEN Go(t, "attempt") /\ UNCHANGED <<call, overlap>>
     ELSE Finish(t, "false")
  /\ UNCHANGED <<registry, regs, arg, calls, restarts, wanted, sent, mixed>>

\* range(1, max_attempts).
RecordShort(t) ==
  /\ pc[t] = "record"
  /\ CountWritten(t)
  /\ IF call[t].tried + 1 < call[t].max
     THEN Go(t, "attempt") /\ UNCHANGED <<call, overlap>>
     ELSE Finish(t, "false")
  /\ UNCHANGED <<registry, regs, arg, calls, restarts, wanted, sent, mixed>>

Record(t) ==
  /\ pc[t] = "record"
  /\ CountWritten(t)
  /\ IF call[t].tried < call[t].max
     THEN Go(t, "attempt") /\ UNCHANGED <<call, overlap>>
     ELSE Finish(t, "false")
  /\ UNCHANGED <<registry, regs, arg, calls, restarts, wanted, sent, mixed>>

RecordRaises(t) ==
  /\ pc[t] = "record"
  /\ Finish(t, "raised")
  /\ mixed' = TRUE
  /\ UNCHANGED <<registry, table, regs, arg, calls, restarts, wanted, sent>>

\* The process ends; __init__ loads the table.
Restart ==
  /\ restarts < MaxRestarts
  /\ restarts' = restarts + 1
  /\ registry' = table.reg
  /\ regs' = IF table.reg = 0 THEN regs ELSE [regs EXCEPT ![table.reg].attempts = table.attempts]
  /\ pc' = [t \in Threads |-> "idle"]
  /\ arg' = [t \in Threads |-> 0]
  /\ call' = [t \in Threads |-> NoCall]
  /\ overlap' = {}
  /\ UNCHANGED <<table, calls, wanted, sent, mixed>>

Deliver(t) == Attempt(t) \/ (\E ok \in BOOLEAN : Request(t, ok)) \/ RecordOk(t) \/ Record(t)

Next ==
  \/ \E t \in Threads :
       \/ Persist(t) \/ Unregister(t) \/ Delete(t) \/ WriteRaises(t) \/ Deliver(t)
       \/ RecordOkRaises(t) \/ RecordRaises(t)
       \/ \E m \in Policies : Register(t, m)
       \/ \E m \in Policies : Trigger(t, m)
       \/ TriggerJobCompletion(t)
  \/ Restart

\* A thread in _deliver goes on: the request has a timeout, the sleep ends.
FairSpec == Init /\ [][Next]_vars /\ \A t \in Threads : WF_vars(Deliver(t))
-----------------------------------------------------------------------------
\* Properties.

\* What the last register or unregister left is what memory and the table
\* hold, through later deliveries and restarts, unless that call overlapped
\* another call or a delivery under way (which writes the row of the
\* registration it began with), the database refused it or the process ended
\* within it; the next call that runs undisturbed puts it right.
Durable == wanted # -1 => registry = wanted /\ table.reg = wanted

\* When no call is under way the row counts the requests sent for the
\* registration, short of at most one for each restart (the one whose count
\* was not written yet), provided that since the registration no two calls
\* overlapped and the database refused no write.  The code miscounts without
\* that: two deliveries write over each other's count, and one that began
\* under an older registration writes its count into the new one's row.
AttemptsCounted ==
  Busy = {} /\ ~mixed /\ wanted > 0 =>
    /\ table.attempts <= sent[wanted]
    /\ sent[wanted] <= table.attempts + restarts

\* A delivery answers True only for an accepted request, and False only after
\* every attempt of its policy, one at least, also for max_attempts <= 0.
ResultsEarned ==
  \A t \in Threads :
    /\ call[t].result = "true" => call[t].ok /\ call[t].tried <= call[t].max
    /\ call[t].result = "false" => call[t].tried = call[t].max

\* Every delivery ends.
TriggerReturns ==
  \A t \in Threads : pc[t] \in {"attempt", "request", "record_ok", "record"} ~> pc[t] = "idle"
=============================================================================
