-------------------------- MODULE MCDeadlockGuard --------------------------
(***************************************************************************)
(* An instance of DeadlockGuard for TLC.                                   *)
(***************************************************************************)
EXTENDS DeadlockGuard, TLC

JobSymmetry == Permutations(Nodes)
=============================================================================
