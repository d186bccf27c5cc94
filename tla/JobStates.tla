----------------------------- MODULE JobStates -----------------------------
(***************************************************************************)
(* The job lifecycle vocabulary of cloud_dog_jobs: the JobStatus enum of   *)
(* domain/enums.py and the default rules of JobStateMachine in             *)
(* domain/state_machine.py.                                                *)
(***************************************************************************)

JobStatus == {"queued", "scheduled", "running", "retry_wait", "paused",
              "timeout", "ttl_expired", "succeeded", "failed", "cancelled",
              "created", "validated", "dispatched", "blocked",
              "dead_lettered", "archived"}

\* The targets that DEFAULT_TRANSITIONS allows out of every state.
DEFAULT_TRANSITIONS ==
  [queued        |-> {"scheduled", "running", "dispatched", "cancelled", "timeout"},
   scheduled     |-> {"queued", "running", "dispatched", "cancelled", "timeout"},
   running       |-> {"succeeded", "failed", "retry_wait", "cancelled", "paused",
                      "blocked", "timeout", "ttl_expired"},
   retry_wait    |-> {"queued", "running", "failed", "cancelled", "timeout",
                      "dead_lettered"},
   paused        |-> {"running", "cancelled", "timeout", "ttl_expired"},
   succeeded     |-> {"archived"},
   failed        |-> {"dead_lettered", "archived"},
   cancelled     |-> {"archived"},
   timeout       |-> {"retry_wait", "failed", "dead_lettered", "archived"},
   ttl_expired   |-> {"archived"},
   created       |-> {"validated", "cancelled"},
   validated     |-> {"queued", "failed"},
   dispatched    |-> {"running", "cancelled", "timeout"},
   blocked       |-> {"running", "cancelled", "timeout", "failed"},
   dead_lettered |-> {"archived"},
   archived      |-> {}]

\* JobStateMachine.can_transition with no extension registered for the type.
CanTransition(from, to) == to \in DEFAULT_TRANSITIONS[from]

\* The states a finished attempt leaves a job in; nothing but archiving,
\* dead-lettering or an explicit retry is meant to follow them.
FinishedStatus == {"succeeded", "failed", "cancelled", "ttl_expired",
                   "dead_lettered", "archived"}
=============================================================================
