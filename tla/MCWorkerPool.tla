--------------------------- MODULE MCWorkerPool ---------------------------
(***************************************************************************)
(* Instances of WorkerPool for TLC.                                        *)
(***************************************************************************)
EXTENDS WorkerPool, TLC

CONSTANTS a, b, c, d,       \* job ids
          w1, w2,           \* workers
          t1, t2, t3,       \* job types
          q1, q2, dlq,      \* queues
          gpu               \* a resource pool

Attr(t, q, pri, n, deps) ==
  [job_type |-> t, queue_name |-> q, priority |-> pri,
   resources |-> [p \in Pools |-> n], depends_on |-> deps]

OneSlot == gpu :> 1
TwoSlots == gpu :> 2
AnyQueue == [w \in Workers |-> None]

\* b waits for a and competes with it for the pool; c has no handler; d waits
\* for both, or is the id of a dead letter.
ChainRequest == (a :> Attr(t1, q1, 1, 1, {})) @@ (b :> Attr(t2, q1, 0, 1, {a}))
                @@ (c :> Attr(t3, q1, 2, 1, {})) @@ (d :> Attr(t1, q1, 0, 0, {a, b}))

\* Three jobs in two queues that compete for one pool.
SharedPoolRequest == (a :> Attr(t1, q1, 0, 1, {})) @@ (b :> Attr(t2, q2, 0, 1, {}))
                     @@ (c :> Attr(t2, q1, 1, 1, {}))
QueueEach == (w1 :> q1) @@ (w2 :> q2)

Policies(p1, p2) == (t1 :> p1) @@ (t2 :> p2) @@ (t3 :> "ignore")
RetryAndDeadLetter == Policies("retry", "dead_letter")
NotifyAndIgnore == Policies("notify", "ignore")
=============================================================================
