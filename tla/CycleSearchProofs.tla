-------------------------- MODULE CycleSearchProofs --------------------------
(***************************************************************************)
(* The cycle search gives the right answer on every graph.                 *)
(***************************************************************************)
EXTENDS CycleSearch, TLAPS

\* Edges into a closed set that the job is outside of close no cycle: of a set
\* of jobs that meets the closed set, the part inside has a job waiting for
\* none of it; of one that does not, the new edges lead out.
LEMMA SafeEdges ==
  ASSUME NEW g \in Graphs, AcyclicGraph(g), NEW j \in Nodes,
         NEW C \in SUBSET Nodes, Closed(g, C), j \notin C,
         NEW h \in Graphs, \A n \in Nodes \ {j} : h[n] \subseteq g[n],
         h[j] \subseteq g[j] \cup C
  PROVE  AcyclicGraph(h)
<1> SUFFICES ASSUME NEW S \in SUBSET Nodes, S # {}
             PROVE  \E n \in S : h[n] \cap S = {}
  BY DEF AcyclicGraph
<1>1. CASE S \cap C # {}
  <2>1. PICK n \in S \cap C : g[n] \cap (S \cap C) = {}
    BY <1>1 DEF AcyclicGraph
  <2>2. g[n] \subseteq C /\ n # j
    BY DEF Closed
  <2>3. h[n] \subseteq g[n]
    BY <2>2
  <2> QED  BY <2>1, <2>2, <2>3
<1>2. CASE S \cap C = {}
  <2>1. PICK n \in S : g[n] \cap S = {}
    BY DEF AcyclicGraph
  <2>2. h[n] \subseteq g[n] \cup C
    BY DEF Graphs
  <2> QED  BY <1>2, <2>1, <2>2
<1> QED
  BY <1>1, <1>2

\* Edges from a job to targets that lead back to it close a cycle.  Let U be
\* the union of the closed sets without the job, which is closed and without
\* it too: every job outside U has an edge that stays outside U.
LEMMA CyclicEdges ==
  ASSUME NEW g \in Graphs, NEW j \in Nodes, NEW T \in SUBSET Nodes,
         \A C \in SUBSET Nodes : T \subseteq C /\ Closed(g, C) => j \in C,
         NEW h \in Graphs, \A n \in Nodes \ {j} : h[n] = g[n],
         T \subseteq h[j]
  PROVE  ~AcyclicGraph(h)
<1> DEFINE U == UNION {C \in SUBSET Nodes : Closed(g, C) /\ j \notin C}
           S == Nodes \ U
<1>1. U \in SUBSET Nodes /\ j \notin U
  OBVIOUS
<1>2. Closed(g, U)
  <2> SUFFICES ASSUME NEW n \in U PROVE g[n] \subseteq U
    BY DEF Closed
  <2>1. PICK C \in SUBSET Nodes : Closed(g, C) /\ j \notin C /\ n \in C
    OBVIOUS
  <2>2. g[n] \subseteq C
    BY <2>1 DEF Closed
  <2>3. C \subseteq U
    BY <2>1
  <2> QED  BY <2>2, <2>3
<1>3. ASSUME NEW n \in S  PROVE h[n] \cap S # {}
  <2>1. CASE n = j
    <3>1. ~(T \subseteq U)
      BY <1>1, <1>2
    <3>2. PICK d \in T : d \notin U
      BY <3>1
    <3>3. d \in h[n] /\ d \in S
      BY <2>1, <3>2
    <3> QED  BY <3>3
  <2>2. CASE n # j
    <3>1. ~(g[n] \subseteq U)
      <4> SUFFICES ASSUME g[n] \subseteq U PROVE FALSE
        OBVIOUS
      <4>1. Closed(g, U \cup {n})
        BY <1>2 DEF Closed
      <4>2. U \cup {n} \in SUBSET Nodes /\ j \notin U \cup {n}
        BY <1>1, <2>2
      <4>3. U \cup {n} \in {C \in SUBSET Nodes : Closed(g, C) /\ j \notin C}
        BY <4>1, <4>2
      <4>4. n \in U
        BY <4>3
      <4> QED  BY <4>4
    <3>2. PICK d \in g[n] : d \notin U
      BY <3>1
    <3>3. d \in h[n] /\ d \in S
      BY <2>2, <3>2 DEF Graphs
    <3> QED  BY <3>3
  <2> QED  BY <2>1, <2>2
<1>4. S # {} /\ S \in SUBSET Nodes
  BY <1>1
<1> QED
  BY <1>3, <1>4 DEF AcyclicGraph

\* A graph with fewer edges has no more cycles.
LEMMA FewerEdges ==
  ASSUME NEW g \in Graphs, AcyclicGraph(g), NEW h \in Graphs,
         \A n \in Nodes : h[n] \subseteq g[n]
  PROVE  AcyclicGraph(h)
<1> SUFFICES ASSUME NEW S \in SUBSET Nodes, S # {}
             PROVE  \E n \in S : h[n] \cap S = {}
  BY DEF AcyclicGraph
<1>1. PICK n \in S : g[n] \cap S = {}
  BY DEF AcyclicGraph
<1> QED
  BY <1>1

\* Taking the lock starts a walk that satisfies the search invariant.
LEMMA BeginSearch ==
  ASSUME SearchTypeOK, NEW j \in Nodes, NEW T \in SUBSET Nodes, Begin(j, T)
  PROVE  SearchTypeOK' /\ SearchInv'
BY DEF SearchTypeOK, Begin, SearchInv, Closed

\* One pass of the loop keeps it.
LEMMA WalkSearch ==
  ASSUME SearchTypeOK, SearchInv, Found \/ \E c \in Nodes : Visit(c)
  PROVE  SearchTypeOK' /\ SearchInv'
<1>1. CASE Found
  BY <1>1 DEF SearchTypeOK, Found, SearchInv
<1>2. ASSUME NEW c \in Nodes, Visit(c)  PROVE SearchTypeOK' /\ SearchInv'
  <2>0. phase = "search" /\ phase' = "search" /\ c \in frontier /\ c # job
        /\ UNCHANGED <<graph, job, adding, outcome>>
        /\ visited' = visited \cup {c}
        /\ frontier' = (frontier \ {c}) \cup (IF c \in visited THEN {} ELSE graph[c])
    BY <1>2 DEF Visit
  <2>1. SearchTypeOK'
    BY <2>0 DEF SearchTypeOK, Graphs
  <2>2. visited' \cup frontier' = visited \cup frontier \cup graph[c]
    BY <2>0 DEF SearchInv
  <2>3. /\ adding' \subseteq visited' \cup frontier'
        /\ \A n \in visited' : graph'[n] \subseteq visited' \cup frontier'
        /\ job' \notin visited'
    BY <2>0, <2>2 DEF SearchInv
  <2>4. ASSUME NEW C \in SUBSET Nodes, adding \subseteq C, Closed(graph, C)
        PROVE  visited' \cup frontier' \subseteq C
    <3>1. visited \cup frontier \subseteq C
      BY <2>0, <2>4 DEF SearchInv
    <3>2. graph[c] \subseteq C
      BY <2>0, <2>4, <3>1 DEF Closed
    <3> QED  BY <2>2, <3>1, <3>2
  <2>5. outcome' = "cycle" => \A C \in SUBSET Nodes :
                                adding' \subseteq C /\ Closed(graph', C) => job' \in C
    BY <2>0 DEF SearchInv
  <2> QED  BY <2>0, <2>1, <2>3, <2>4, <2>5 DEF SearchInv
<1> QED
  BY <1>1, <1>2
=============================================================================
