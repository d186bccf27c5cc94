---------------------------- MODULE CycleSearch ----------------------------
(***************************************************************************)
(* The search that decides whether new edges close a cycle:                *)
(* DependencyTracker.detect_cycle (scheduler/dependency.py) and            *)
(* DeadlockGuard._would_cycle (broker/deadlock.py) are the same depth-first *)
(* walk, run under the object's lock.  One pass of its while loop is one   *)
(* step here.  The stack is kept as the set of its members: which of them  *)
(* is popped first decides nothing but the order of the visits.            *)
(***************************************************************************)
CONSTANT Nodes

VARIABLES
  graph,      \* _edges / _graph: what each job waits for
  phase,      \* "idle", or "search" while a caller holds the lock
  job,        \* the job the new edges leave from
  adding,     \* the jobs they lead to
  frontier,   \* the stack
  visited,
  outcome     \* the answer to the last caller: "none", "added" or "cycle"

searchVars == <<phase, job, adding, frontier, visited, outcome>>

Graphs == [Nodes -> SUBSET Nodes]

SearchTypeOK ==
  /\ graph \in Graphs
  /\ phase \in {"idle", "search"}
  /\ job \in Nodes
  /\ adding \in SUBSET Nodes
  /\ frontier \in SUBSET Nodes
  /\ visited \in SUBSET Nodes
  /\ outcome \in {"none", "added", "cycle"}

SearchInit ==
  /\ graph = [n \in Nodes |-> {}]
  /\ phase = "idle"
  /\ job \in Nodes
  /\ adding = {}
  /\ frontier = {}
  /\ visited = {}
  /\ outcome = "none"

\* A caller takes the lock to add edges from j to every member of targets.
Begin(j, targets) ==
  /\ phase = "idle"
  /\ phase' = "search"
  /\ job' = j
  /\ adding' = targets
  /\ frontier' = targets
  /\ visited' = {}
  /\ outcome' = "none"
  /\ UNCHANGED graph

\* The walk that does not follow the edges of the jobs it comes to.
VisitWithoutEdges(c) ==
  /\ phase = "search"
  /\ c \in frontier \ {job}
  /\ visited' = visited \cup {c}
  /\ frontier' = frontier \ {c}
  /\ UNCHANGED <<graph, phase, job, adding, outcome>>

\* A popped job other than the one searched for: skipped when visited before.
Visit(c) ==
  /\ phase = "search"
  /\ c \in frontier \ {job}
  /\ visited' = visited \cup {c}
  /\ frontier' = (frontier \ {c}) \cup (IF c \in visited THEN {} ELSE graph[c])
  /\ UNCHANGED <<graph, phase, job, adding, outcome>>

\* The walk that takes a second arrival at a job for a cycle.
FoundSeenTwice ==
  /\ phase = "search"
  /\ job \in frontier \/ frontier \cap visited # {}
  /\ phase' = "idle"
  /\ outcome' = "cycle"
  /\ UNCHANGED <<graph, job, adding, frontier, visited>>

\* The popped job is the one the edges leave from: the caller is refused.
Found ==
  /\ phase = "search"
  /\ job \in frontier
  /\ phase' = "idle"
  /\ outcome' = "cycle"
  /\ UNCHANGED <<graph, job, adding, frontier, visited>>

\* The stack is empty: the edges are written before the lock is released.
Commit(g) ==
  /\ phase = "search"
  /\ frontier = {}
  /\ phase' = "idle"
  /\ outcome' = "added"
  /\ graph' = g
  /\ UNCHANGED <<job, adding, frontier, visited>>

-----------------------------------------------------------------------------
\* Properties.

\* No job waits, directly or through others, for itself: every set of jobs has
\* one that waits for none of the set.
AcyclicGraph(g) == \A S \in SUBSET Nodes : S # {} => \E n \in S : g[n] \cap S = {}

\* The wait-for graph stays free of cycles, whatever is added and removed.
Acyclic == AcyclicGraph(graph)

\* An edge is refused only when adding it would have closed a cycle: the walk
\* does not take a diamond, reached along two paths, for a cycle.
RefusedOnlyForCycles ==
  outcome = "cycle" => ~AcyclicGraph([graph EXCEPT ![job] = @ \cup adding])

\* C is closed under following the edges of g.
Closed(g, C) == \A n \in C : g[n] \subseteq C

\* What makes both inductive: the walk has covered the new targets, leaves no
\* edge of a visited job unexplored, has not met the job, and goes nowhere
\* that the targets do not lead to.
SearchInv ==
  /\ phase = "search" => /\ adding \subseteq visited \cup frontier
                         /\ \A n \in visited : graph[n] \subseteq visited \cup frontier
                         /\ job \notin visited
                         /\ \A C \in SUBSET Nodes :
                              adding \subseteq C /\ Closed(graph, C) => visited \cup frontier \subseteq C
  /\ outcome = "cycle" => \A C \in SUBSET Nodes :
                              adding \subseteq C /\ Closed(graph, C) => job \in C
=============================================================================
