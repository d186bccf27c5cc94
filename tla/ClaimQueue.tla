----------------------------- MODULE ClaimQueue -----------------------------
(***************************************************************************)
(* What every QueueBackend (backends/base.py) promises the workers: a job  *)
(* is put in the queue any number of times, and each stay in the queue is  *)
(* granted to at most one worker.  Who may put a job back, and when, is    *)
(* left open, as the backends leave it open.                               *)
(***************************************************************************)
EXTENDS Naturals

CONSTANTS Jobs, Workers

VARIABLES
  waiting,   \* the jobs that are in the queue
  stay,      \* how many times each job was put there
  held       \* the stays each worker was granted and has not let go

queueVars == <<waiting, stay, held>>

Init == /\ waiting = {}
        /\ stay = [j \in Jobs |-> 0]
        /\ held = [w \in Workers |-> {}]

\* enqueue, release, or update_status to queued; also when the job waits.
Put(j) == /\ waiting' = waiting \cup {j}
          /\ stay' = [stay EXCEPT ![j] = @ + 1]
          /\ UNCHANGED held

\* claim returns True.
Take(w, j) == /\ j \in waiting
              /\ waiting' = waiting \ {j}
              /\ held' = [held EXCEPT ![w] = @ \cup {<<j, stay[j]>>}]
              /\ UNCHANGED stay

\* A waiting job is cancelled, expired, or granted to a worker that never
\* learns of it.
Withdraw(j) == /\ j \in waiting
               /\ waiting' = waiting \ {j}
               /\ UNCHANGED <<stay, held>>

\* The worker is done with the job, or gone.
LetGo(w) == /\ held' = [held EXCEPT ![w] = {}]
            /\ UNCHANGED <<waiting, stay>>

Next == \/ \E j \in Jobs : Put(j) \/ Withdraw(j)
        \/ \E w \in Workers : LetGo(w) \/ \E j \in Jobs : Take(w, j)

Spec == Init /\ [][Next]_queueVars
-----------------------------------------------------------------------------
\* The promise: no stay of a job in the queue is held by two workers.
Exclusive == \A v, w \in Workers : v # w => held[v] \cap held[w] = {}

\* What makes it inductive: the stay of a waiting job has been granted to
\* nobody, and no stay is granted before it begins.
GrantsArePast ==
  \A w \in Workers : \A g \in held[w] :
    /\ g \in Jobs \X Nat
    /\ g[2] <= stay[g[1]]
    /\ g[1] \in waiting => g[2] < stay[g[1]]
=============================================================================
