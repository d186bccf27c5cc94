------------------------------ MODULE MCBroker ------------------------------
(* An instance of Broker for TLC. *)
EXTENDS Broker, TLC

CONSTANTS x1, x2,     \* tenants
          gpu, cpu,   \* resources
          c1, c2, p1, p2   \* callers and processes of the registry

Weights == x1 :> 0 @@ x2 :> 2
JobsAtOnce == x1 :> 2 @@ x2 :> 3
JobsAMinute == x1 :> 1 @@ x2 :> 1
Totals == gpu :> 1 @@ cpu :> 3
Requirements == {gpu :> 1 @@ cpu :> 1, gpu :> 0 @@ cpu :> 2}
ProcessEach == c1 :> p1 @@ c2 :> p2
ThreadSymmetry == Permutations(Threads)

\* A counter that has lost an update may drift without bound, and the
\* properties say nothing of it; of two tenants one stays uncrowded.
StillMeaningful == lost = {} /\ ~(Tenants \subseteq crowded)
=============================================================================
