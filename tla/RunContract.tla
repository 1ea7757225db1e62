---------------------------- MODULE RunContract ----------------------------
(***************************************************************************)
(* What a RunHandle promises to whoever reads its events                   *)
(* (cascade-core/src/process/mod.rs:57-97): Started comes first and only   *)
(* of a child that exists, one Finished comes last and only of a child     *)
(* that is gone, and success is told only of a child that exited with 0.   *)
(***************************************************************************)
VARIABLES
  child,   \* "unborn", "live", "ok" or "bad": the child and how it ended
  told     \* "nothing", "started", "success" or "failure"

Init == child = "unborn" /\ told = "nothing"

Start ==
  /\ child = "unborn" /\ told = "nothing"
  /\ child' = "live"
  /\ UNCHANGED told

End ==
  /\ child = "live"
  /\ child' \in {"ok", "bad"}
  /\ UNCHANGED told

TellStarted ==
  /\ child # "unborn" /\ told = "nothing"
  /\ told' = "started"
  /\ UNCHANGED child

TellSuccess ==
  /\ child = "ok" /\ told = "started"
  /\ told' = "success"
  /\ UNCHANGED child

(* Of a child that never was, one that failed, or one whose output could   *)
(* not be read to its end.                                                 *)
TellFailure ==
  /\ \/ child = "unborn" /\ told = "nothing"
     \/ child \in {"ok", "bad"} /\ told = "started"
  /\ told' = "failure"
  /\ UNCHANGED child

Next == Start \/ End \/ TellStarted \/ TellSuccess \/ TellFailure

Spec == Init /\ [][Next]_<<child, told>>
=============================================================================
