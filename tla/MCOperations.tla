--------------------------- MODULE MCOperations ---------------------------
(***************************************************************************)
(* Instances of Operations for TLC.                                        *)
(***************************************************************************)
EXTENDS Operations, TLC

CONSTANTS a, b, c, w1, w2, t1, t2, q1, q2, dlq, gpu

Attr(t, q, pri, n, deps) ==
  [job_type |-> t, queue_name |-> q, priority |-> pri,
   resources |-> [p \in Pools |-> n], depends_on |-> deps]

\* b waits for a and competes with it for the pool.
PairRequest == (a :> Attr(t1, q1, 0, 1, {})) @@ (b :> Attr(t1, q1, 0, 1, {a}))

WorkerSymmetry == Permutations(Workers)

\* No action reads amiss, and of the properties SlotsReturned and
\* RunningIsOwned alone, which are about workers on their own.
WithoutAmiss == <<storeVars, used, holders, edges, workerVars, sweepVars, updating, stamps>>

SingleRequest == a :> Attr(t1, q1, 0, 1, {})
OneSlot == gpu :> 1
TwoSlots == gpu :> 2
AnyQueue == [w \in Workers |-> None]
IgnoreFailures == [t \in Types |-> "ignore"]
=============================================================================
