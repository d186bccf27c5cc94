--------------------------- MODULE MCRedisBackend ---------------------------
(***************************************************************************)
(* Instances of RedisBackend for TLC.                                      *)
(***************************************************************************)
EXTENDS RedisBackend

SamePriority == [j \in Jobs |-> 0]
=============================================================================
