----------------------- MODULE DependencyTrackerProofs -----------------------
(***************************************************************************)
(* The dependency graph is free of cycles as long as every caller uses     *)
(* validate_and_register, and the answer of the search is right in any     *)
(* case.                                                                   *)
(***************************************************************************)
EXTENDS DependencyTracker, CycleSearchProofs, FiniteSetTheorems

\* The types, and the walk's invariant, hold however the tracker is called.
LEMMA TrackerStep ==
  ASSUME TypeOK, SearchInv, [Next]_vars
  PROVE  TypeOK' /\ SearchInv'
<1> USE DEF TypeOK
<1>1. ASSUME NEW j \in Nodes, NEW deps \in SUBSET Nodes,
             ValidateAndRegister(j, deps) \/ DetectCycle(j, deps)
      PROVE  TypeOK' /\ SearchInv'
  BY <1>1, BeginSearch DEF ValidateAndRegister, DetectCycle
<1>2. ASSUME NEW j \in Nodes, NEW deps \in SUBSET Nodes, Register(j, deps)
      PROVE  TypeOK' /\ SearchInv'
  BY <1>2 DEF Register, SearchTypeOK, Graphs, SearchInv
<1>3. CASE Walk
  BY <1>3, WalkSearch DEF Walk
<1>4. CASE Registered
  BY <1>4 DEF Registered, Commit, Replaced, SearchTypeOK, Graphs, SearchInv
<1>5. CASE Detected
  BY <1>5 DEF Detected, Commit, SearchTypeOK, SearchInv
<1>6. ASSUME NEW j \in Nodes, Unregister(j)  PROVE TypeOK' /\ SearchInv'
  BY <1>6 DEF Unregister, SearchTypeOK, Graphs, SearchInv
<1>7. CASE UNCHANGED vars
  BY <1>7 DEF vars, searchVars, SearchTypeOK, SearchInv
<1> QED
  BY <1>1, <1>2, <1>3, <1>4, <1>5, <1>6, <1>7 DEF Next

\* A fresh approval stays safe until edges are written: detect_cycle leaves the
\* set its walk has visited, and removing edges keeps a set closed.
LEMMA FreshStep ==
  ASSUME TypeOK, SearchInv, FreshInv, [Next]_vars
  PROVE  FreshInv'
<1>0. UNCHANGED <<graph, approved, stale>> => FreshInv'
  BY DEF FreshInv, Closed
<1>1. ASSUME NEW j \in Nodes, NEW deps \in SUBSET Nodes,
             ValidateAndRegister(j, deps) \/ DetectCycle(j, deps)
      PROVE  FreshInv'
  BY <1>0, <1>1 DEF ValidateAndRegister, DetectCycle, Begin
<1>2. ASSUME NEW j \in Nodes, NEW deps \in SUBSET Nodes, Register(j, deps)
      PROVE  FreshInv'
  BY <1>2 DEF Register, FreshInv
<1>3. CASE Walk
  BY <1>0, <1>3 DEF Walk, Found, Visit
<1>4. CASE Registered
  BY <1>4 DEF Registered, FreshInv
<1>5. CASE Detected
  <2>1. visited \in SUBSET Nodes /\ graph' = graph
    BY <1>5 DEF Detected, Commit, TypeOK, SearchTypeOK
  <2>2. Closed(graph, visited) /\ job \notin visited /\ adding \subseteq visited
    BY <1>5 DEF Detected, Commit, SearchInv, Closed
  <2>3. ASSUME NEW x \in approved' \ stale'
        PROVE  \E C \in SUBSET Nodes : Closed(graph, C) /\ x[2] \subseteq C /\ x[1] \notin C
    <3>1. CASE x = <<job, adding>>
      BY <2>1, <2>2, <3>1
    <3>2. CASE x # <<job, adding>>
      <4>1. x \in approved \ stale
        BY <1>5, <2>3, <3>2 DEF Detected
      <4> QED  BY <4>1 DEF FreshInv
    <3> QED  BY <3>1, <3>2
  <2> QED  BY <2>1, <2>3 DEF FreshInv, Closed
<1>6. ASSUME NEW j \in Nodes, Unregister(j)  PROVE FreshInv'
  <2>1. graph' = [graph EXCEPT ![j] = {}] /\ graph \in Graphs /\ UNCHANGED <<approved, stale>>
    BY <1>6 DEF Unregister, TypeOK, SearchTypeOK
  <2>2. \A C \in SUBSET Nodes : Closed(graph, C) => Closed(graph', C)
    BY <2>1 DEF Closed, Graphs
  <2> QED  BY <2>1, <2>2 DEF FreshInv, Closed
<1>7. CASE UNCHANGED vars
  BY <1>0, <1>7 DEF vars
<1> QED
  BY <1>1, <1>2, <1>3, <1>4, <1>5, <1>6, <1>7 DEF Next

\* They hold at the start.
LEMMA TrackerInit == Init => TypeOK /\ SearchInv /\ FreshInv
BY DEF Init, SearchInit, TypeOK, SearchTypeOK, Graphs, SearchInv, FreshInv

\* Every step but a stale register keeps the graph acyclic: what is written at
\* the end of a walk, or after one that is still fresh, leads only to jobs the
\* walk has visited, and those do not lead back.
LEMMA AcyclicStep ==
  ASSUME TypeOK, SearchInv, FreshInv, Acyclic, [Next]_vars, ~StaleRegister
  PROVE  Acyclic'
<1>1. ASSUME NEW j \in Nodes, NEW deps \in SUBSET Nodes,
             ValidateAndRegister(j, deps) \/ DetectCycle(j, deps)
      PROVE  Acyclic'
  BY <1>1 DEF ValidateAndRegister, DetectCycle, Begin, Acyclic
<1>2. ASSUME NEW j \in Nodes, NEW deps \in SUBSET Nodes, Register(j, deps)
      PROVE  Acyclic'
  <2>1. <<j, deps>> \in approved \ stale /\ graph' = [graph EXCEPT ![j] = deps] /\ graph \in Graphs
    BY <1>2 DEF Register, StaleRegister, TypeOK, SearchTypeOK
  <2>2. PICK C \in SUBSET Nodes : Closed(graph, C) /\ deps \subseteq C /\ j \notin C
    BY <2>1 DEF FreshInv
  <2>3. /\ graph' \in Graphs /\ \A n \in Nodes \ {j} : graph'[n] \subseteq graph[n]
        /\ graph'[j] \subseteq graph[j] \cup C
    BY <2>1, <2>2 DEF Graphs
  <2>4. AcyclicGraph(graph')
    BY <2>1, <2>2, <2>3, SafeEdges DEF Acyclic
  <2> QED  BY <2>4 DEF Acyclic
<1>3. CASE Walk
  BY <1>3 DEF Walk, Found, Visit, Acyclic
<1>4. CASE Registered
  <2>0. graph \in Graphs /\ job \in Nodes /\ visited \in SUBSET Nodes /\ adding \in SUBSET Nodes
    BY DEF TypeOK, SearchTypeOK
  <2>1. phase = "search" /\ frontier = {} /\ graph' = Replaced
    BY <1>4 DEF Registered, Commit
  <2>2. Closed(graph, visited) /\ job \notin visited /\ adding \subseteq visited
    BY <2>1 DEF SearchInv, Closed
  <2>3. Replaced \in Graphs /\ \A n \in Nodes \ {job} : Replaced[n] \subseteq graph[n]
    BY <2>0 DEF Replaced, Graphs
  <2>4. Replaced[job] \subseteq graph[job] \cup visited
    BY <2>0, <2>2 DEF Replaced, Graphs
  <2>5. AcyclicGraph(Replaced)
    BY <2>0, <2>2, <2>3, <2>4, SafeEdges DEF Acyclic
  <2> QED  BY <2>1, <2>5 DEF Acyclic
<1>5. CASE Detected
  BY <1>5 DEF Detected, Commit, Acyclic
<1>6. ASSUME NEW j \in Nodes, Unregister(j)
      PROVE  Acyclic'
  <2>1. graph \in Graphs /\ graph' \in Graphs /\ \A n \in Nodes : graph'[n] \subseteq graph[n]
    BY <1>6 DEF Unregister, TypeOK, SearchTypeOK, Graphs
  <2>2. AcyclicGraph(graph')
    BY <2>1, FewerEdges DEF Acyclic
  <2> QED  BY <2>2 DEF Acyclic
<1>7. CASE UNCHANGED vars
  BY <1>7 DEF vars, Acyclic
<1> QED
  BY <1>1, <1>2, <1>3, <1>4, <1>5, <1>6, <1>7 DEF Next

\* However many callers detect and register in two calls, the one thing that
\* closes a cycle is a register whose detect_cycle is out of date.
THEOREM TrackerOnlyStaleRegister == Spec => OnlyStaleRegisterClosesCycles
<1>1. TypeOK /\ SearchInv /\ FreshInv /\ [Next]_vars => [Acyclic /\ ~StaleRegister => Acyclic']_vars
  BY AcyclicStep
<1> QED
  BY TrackerInit, TrackerStep, FreshStep, <1>1, PTL DEF Spec, OnlyStaleRegisterClosesCycles

NothingApproved == approved = {} /\ ~detecting

\* Without split callers no approval is ever pending, so nothing is registered
\* unchecked.
LEMMA NothingApprovedStep ==
  ASSUME SplitCallers = 0, NothingApproved, [Next]_vars
  PROVE  NothingApproved' /\ ~StaleRegister
<1>0. Cardinality(approved) = 0
  BY FS_EmptySet DEF NothingApproved
<1>1. \A j \in Nodes, deps \in SUBSET Nodes : ~Register(j, deps)
  BY DEF NothingApproved, Register
<1>2. \A j \in Nodes, deps \in SUBSET Nodes : ~DetectCycle(j, deps)
  BY <1>0 DEF DetectCycle
<1>3. ~Detected
  BY DEF Detected, NothingApproved
<1>4. ~StaleRegister
  BY <1>1 DEF StaleRegister
<1>5. NothingApproved'
  BY <1>1, <1>2, <1>3 DEF Next, NothingApproved, ValidateAndRegister, Walk, Registered, Unregister, vars
<1> QED
  BY <1>4, <1>5

\* The graph that JobQueue fills through validate_and_register alone never has
\* a cycle.
THEOREM TrackerAcyclic ==
  ASSUME SplitCallers = 0
  PROVE  Spec => []Acyclic
<1>1. Init => Acyclic /\ NothingApproved
  BY DEF Init, SearchInit, Acyclic, AcyclicGraph, NothingApproved
<1>2. NothingApproved /\ [Next]_vars => NothingApproved' /\ ~StaleRegister
  BY NothingApprovedStep
<1>3. TypeOK /\ SearchInv /\ FreshInv /\ Acyclic /\ [Next]_vars /\ ~StaleRegister => Acyclic'
  BY AcyclicStep
<1> QED
  BY TrackerInit, TrackerStep, FreshStep, <1>1, <1>2, <1>3, PTL DEF Spec

\* detect_cycle and validate_and_register refuse only edges that would have
\* closed a cycle, even over a graph that unguarded callers have spoilt.
THEOREM TrackerRefusesOnlyCycles == Spec => []RefusedReplacement
<1>1. TypeOK /\ SearchInv => RefusedReplacement
  <2> SUFFICES ASSUME TypeOK, SearchInv, outcome = "cycle" PROVE ~AcyclicGraph(Replaced)
    BY DEF RefusedReplacement
  <2>0. graph \in Graphs /\ job \in Nodes /\ adding \in SUBSET Nodes
    BY DEF TypeOK, SearchTypeOK
  <2>1. \A C \in SUBSET Nodes : adding \subseteq C /\ Closed(graph, C) => job \in C
    BY DEF SearchInv
  <2>2. /\ Replaced \in Graphs
        /\ \A n \in Nodes \ {job} : Replaced[n] = graph[n]
        /\ adding \subseteq Replaced[job]
    BY <2>0 DEF Replaced, Graphs
  <2> QED  BY <2>0, <2>1, <2>2, CyclicEdges
<1> QED
  BY TrackerInit, TrackerStep, <1>1, PTL DEF Spec
=============================================================================
