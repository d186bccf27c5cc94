-------------------------- MODULE MCHybridBackend --------------------------
(***************************************************************************)
(* Instances of HybridBackend for TLC.                                     *)
(***************************************************************************)
EXTENDS HybridBackend, TLC

SamePriority == [j \in Jobs |-> 0]
WorkerSymmetry == Permutations(Workers)
=============================================================================
