---------------------------- MODULE JobLifecycle ----------------------------
(***************************************************************************)
(* What the job state machine of cascade-core/src/job/state.rs promises of *)
(* every job: a finished job never resumes, and a job never skips from     *)
(* pending to a finished run.  "absent" is a job not created yet.          *)
(* The queue does not use the Rust type: QueueView is shown to implement   *)
(* this specification all the same.                                        *)
(***************************************************************************)
CONSTANT Jobs

VARIABLE status

Terminal == {"completed", "failed", "cancelled"}

JobStatus == {"pending", "running", "paused"} \cup Terminal

(* JobStatus::can_transition_to.                                           *)
CanTransitionTo(s, next) ==
  \/ s = "pending" /\ next \in {"running", "cancelled"}
  \/ s = "running" /\ next \in {"paused", "completed", "failed", "cancelled"}
  \/ s = "paused"  /\ next \in {"running", "cancelled"}

Init == status = [j \in Jobs |-> "absent"]

(* A step moves any number of jobs, each along one legal edge.             *)
Next ==
  /\ status' \in [Jobs -> JobStatus \cup {"absent"}]
  /\ \A j \in Jobs :
        \/ status'[j] = status[j]
        \/ status[j] = "absent" /\ status'[j] = "pending"
        \/ CanTransitionTo(status[j], status'[j])

Spec == Init /\ [][Next]_status
=============================================================================
