------------------------- MODULE DeadlockGuardProofs -------------------------
(***************************************************************************)
(* The broker's wait-for graph is free of cycles, and an edge is refused   *)
(* only when it would have closed one.                                     *)
(***************************************************************************)
EXTENDS DeadlockGuard, CycleSearchProofs

\* The types and the walk's invariant are kept by every step.
LEMMA GuardStep ==
  ASSUME SearchTypeOK, SearchInv, [Next]_vars
  PROVE  SearchTypeOK' /\ SearchInv'
<1>1. ASSUME NEW j \in Nodes, NEW d \in Nodes, AddDependency(j, d)
      PROVE  SearchTypeOK' /\ SearchInv'
  BY <1>1, BeginSearch DEF AddDependency
<1>2. CASE Walk
  BY <1>2, WalkSearch DEF Walk
<1>3. CASE Added
  BY <1>3 DEF Added, Commit, SearchTypeOK, Graphs, SearchInv
<1>4. ASSUME NEW j \in Nodes, RemoveJob(j)  PROVE SearchTypeOK' /\ SearchInv'
  BY <1>4 DEF RemoveJob, SearchTypeOK, Graphs, SearchInv
<1>5. CASE UNCHANGED vars
  BY <1>5 DEF vars, searchVars, SearchTypeOK, SearchInv
<1> QED
  BY <1>1, <1>2, <1>3, <1>4, <1>5 DEF Next

\* They hold at the start, when there is no edge.
LEMMA GuardInit == Init => SearchTypeOK /\ SearchInv /\ Acyclic
BY DEF Init, SearchInit, SearchTypeOK, Graphs, SearchInv, Acyclic, AcyclicGraph

\* No two jobs ever wait for each other through add_dependency, yield_to and
\* remove_job.
THEOREM GuardAcyclic == Spec => []Acyclic
<1>1. SearchTypeOK /\ SearchInv /\ Acyclic /\ [Next]_vars => Acyclic'
  <2> SUFFICES ASSUME SearchTypeOK, SearchInv, Acyclic, [Next]_vars PROVE Acyclic'
    OBVIOUS
  <2>0. graph \in Graphs /\ job \in Nodes /\ visited \in SUBSET Nodes /\ adding \in SUBSET Nodes
    BY DEF SearchTypeOK
  <2>1. CASE graph' = graph
    BY <2>1 DEF Acyclic
  <2>2. CASE Added
    <3> DEFINE h == [graph EXCEPT ![job] = @ \cup adding]
    <3>1. phase = "search" /\ frontier = {} /\ graph' = h
      BY <2>2 DEF Added, Commit
    <3>2. Closed(graph, visited) /\ job \notin visited /\ adding \subseteq visited
      BY <3>1 DEF SearchInv, Closed
    <3>3. /\ h \in Graphs
          /\ \A n \in Nodes \ {job} : h[n] \subseteq graph[n]
          /\ h[job] \subseteq graph[job] \cup visited
      BY <2>0, <3>2 DEF Graphs
    <3>4. AcyclicGraph(h)
      BY <2>0, <3>2, <3>3, SafeEdges DEF Acyclic
    <3> QED  BY <3>1, <3>4 DEF Acyclic
  <2>3. ASSUME NEW j \in Nodes, RemoveJob(j)  PROVE Acyclic'
    <3>1. graph' \in Graphs /\ \A n \in Nodes : graph'[n] \subseteq graph[n]
      BY <2>0, <2>3 DEF RemoveJob, Graphs
    <3> QED  BY <2>0, <3>1, FewerEdges DEF Acyclic
  <2> QED
    BY <2>1, <2>2, <2>3 DEF Next, AddDependency, Begin, Walk, Found, Visit, vars
<1> QED
  BY GuardInit, GuardStep, <1>1, PTL DEF Spec

\* add_dependency returns False only for an edge that would deadlock its job.
THEOREM GuardRefusesOnlyCycles == Spec => []RefusedOnlyForCycles
<1>1. SearchTypeOK /\ SearchInv => RefusedOnlyForCycles
  <2> DEFINE h == [graph EXCEPT ![job] = @ \cup adding]
  <2> SUFFICES ASSUME SearchTypeOK, SearchInv, outcome = "cycle" PROVE ~AcyclicGraph(h)
    BY DEF RefusedOnlyForCycles
  <2>0. graph \in Graphs /\ job \in Nodes /\ adding \in SUBSET Nodes
    BY DEF SearchTypeOK
  <2>1. \A C \in SUBSET Nodes : adding \subseteq C /\ Closed(graph, C) => job \in C
    BY DEF SearchInv
  <2>2. h \in Graphs /\ (\A n \in Nodes \ {job} : h[n] = graph[n]) /\ adding \subseteq h[job]
    BY <2>0 DEF Graphs
  <2> QED  BY <2>0, <2>1, <2>2, CyclicEdges
<1> QED
  BY GuardInit, GuardStep, <1>1, PTL DEF Spec
=============================================================================
