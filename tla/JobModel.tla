----------------------------- MODULE JobModel -----------------------------
(***************************************************************************)
(* The Job record of domain/models.py, reduced to the fields that decide   *)
(* who runs a job and when, and the constants every in-process module      *)
(* shares.  Job ids are uuid4 values: an id that no job carries yet is a   *)
(* fresh one.                                                              *)
(***************************************************************************)
EXTENDS Integers, FiniteSets, JobStates

CONSTANTS
  Jobs,      \* job ids: the ones submitted and the ones clones may take
  Workers,   \* Worker instances, one thread each
  Types,     \* job types
  Queues,    \* queue names
  Pools,     \* resource pool names
  None,      \* the Python None
  MaxNow     \* bound: the last tick of the wall clock

ASSUME JobsFinite == IsFiniteSet(Jobs) /\ IsFiniteSet(Workers)
ASSUME NoneIsNoName == None \notin Workers \cup Queues \cup Jobs
ASSUME MaxNowIsNat == MaxNow \in Nat

\* The attributes a request carries.  resources maps a pool to the number of
\* slots asked for, 0 standing for a pool the request does not name.
JobAttr == [job_type : Types, queue_name : Queues, priority : Int,
            resources : [Pools -> Nat], depends_on : SUBSET Jobs]

Time == 0 .. MaxNow

\* resubmit_job, reassign_queue and the dead-letter policy build their clone
\* from a handful of fields; resources and depends_on keep their defaults.
CloneInto(a, q) == [a EXCEPT !.queue_name = q,
                             !.resources = [p \in Pools |-> 0],
                             !.depends_on = {}]
=============================================================================
