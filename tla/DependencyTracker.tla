------------------------- MODULE DependencyTracker -------------------------
(***************************************************************************)
(* scheduler/dependency.py: the graph of depends_on edges that JobQueue    *)
(* fills at submit time.  A caller that does not use validate_and_register *)
(* calls detect_cycle and, when it passes, register: two lock sections.    *)
(***************************************************************************)
EXTENDS CycleSearch, Naturals, FiniteSets

CONSTANT SplitCallers   \* the number of threads that use the two separate calls

ASSUME SplitCallersType == SplitCallers \in Nat

VARIABLES
  detecting,   \* the lock holder is in detect_cycle alone
  approved,    \* edges detect_cycle passed and register has not recorded yet
  stale        \* history: those of them whose graph has got new edges since

vars == <<graph, searchVars, detecting, approved, stale>>

TypeOK == /\ SearchTypeOK
          /\ detecting \in BOOLEAN
          /\ approved \in SUBSET (Nodes \X SUBSET Nodes)
          /\ stale \in SUBSET approved

Init == SearchInit /\ detecting = FALSE /\ approved = {} /\ stale = {}

\* An empty depends_on returns before the lock is taken.
ValidateAndRegister(j, deps) ==
  /\ deps # {}
  /\ Begin(j, deps)
  /\ detecting' = FALSE
  /\ UNCHANGED <<approved, stale>>

DetectCycle(j, deps) ==
  /\ Cardinality(approved) < SplitCallers
  /\ deps # {}
  /\ Begin(j, deps)
  /\ detecting' = TRUE
  /\ UNCHANGED <<approved, stale>>

Walk == /\ Found \/ \E c \in Nodes : Visit(c)
        /\ UNCHANGED <<detecting, approved, stale>>

\* The edges of the job are replaced, not extended.
Replaced == [graph EXCEPT ![job] = adding]

Registered == /\ ~detecting
              /\ Commit(Replaced)
              /\ stale' = approved
              /\ UNCHANGED <<detecting, approved>>

Detected == /\ detecting
            /\ Commit(graph)
            /\ approved' = approved \cup {<<job, adding>>}
            /\ stale' = stale \ {<<job, adding>>}
            /\ UNCHANGED detecting

Register(j, deps) ==
  /\ phase = "idle"
  /\ <<j, deps>> \in approved
  /\ graph' = [graph EXCEPT ![j] = deps]
  /\ approved' = approved \ {<<j, deps>>}
  /\ stale' = approved'
  /\ outcome' = "none"
  /\ UNCHANGED <<phase, job, adding, frontier, visited, detecting>>

Unregister(j) ==
  /\ phase = "idle"
  /\ graph' = [graph EXCEPT ![j] = {}]
  /\ outcome' = "none"
  /\ UNCHANGED <<phase, job, adding, frontier, visited, detecting, approved, stale>>

Next == \/ \E j \in Nodes, deps \in SUBSET Nodes :
             ValidateAndRegister(j, deps) \/ DetectCycle(j, deps) \/ Register(j, deps)
        \/ Walk
        \/ Registered
        \/ Detected
        \/ \E j \in Nodes : Unregister(j)

Spec == Init /\ [][Next]_vars

\* Adding what was refused would have closed a cycle.  register replaces the
\* job's edges, so the graph meant has those instead of the old ones.
RefusedReplacement == outcome = "cycle" => ~AcyclicGraph(Replaced)

\* No cycle comes from validate_and_register, whose search and write share a
\* lock section, nor from a register that follows its own detect_cycle with no
\* other write of edges between the two; unregister in between does no harm.
\* The one step that can close a cycle is a register whose detect_cycle looked
\* at a graph that others have extended since.
StaleRegister == \E j \in Nodes, deps \in SUBSET Nodes : <<j, deps>> \in stale /\ Register(j, deps)
OnlyStaleRegisterClosesCycles == [][Acyclic /\ ~StaleRegister => Acyclic']_vars

\* What makes it inductive: a fresh approval's jobs lie in a set that no edge
\* leaves and its own job is not of.
FreshInv ==
  \A x \in approved \ stale :
    \E C \in SUBSET Nodes : Closed(graph, C) /\ x[2] \subseteq C /\ x[1] \notin C
=============================================================================
