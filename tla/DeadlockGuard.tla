--------------------------- MODULE DeadlockGuard ---------------------------
(***************************************************************************)
(* broker/deadlock.py: a wait-for graph that grows by one edge at a time   *)
(* and shrinks when a job is removed.                                      *)
(***************************************************************************)
EXTENDS CycleSearch

vars == <<graph, searchVars>>

Init == SearchInit

\* add_dependency, and yield_to with its arguments swapped.  A job that would
\* wait for itself is found at the first pop, as by the test before the walk.
AddDependency(j, d) == Begin(j, {d})

Walk == Found \/ \E c \in Nodes : Visit(c)

Added == Commit([graph EXCEPT ![job] = @ \cup adding])

RemoveJob(j) ==
  /\ phase = "idle"
  /\ graph' = [n \in Nodes |-> IF n = j THEN {} ELSE graph[n] \ {j}]
  /\ outcome' = "none"
  /\ UNCHANGED <<phase, job, adding, frontier, visited>>

Next == \/ \E j, d \in Nodes : AddDependency(j, d)
        \/ Walk
        \/ Added
        \/ \E j \in Nodes : RemoveJob(j)

Spec == Init /\ [][Next]_vars
=============================================================================
