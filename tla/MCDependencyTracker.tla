------------------------ MODULE MCDependencyTracker ------------------------
(***************************************************************************)
(* Instances of DependencyTracker for TLC.                                 *)
(***************************************************************************)
EXTENDS DependencyTracker, TLC

JobSymmetry == Permutations(Nodes)
=============================================================================
