----------------------------- MODULE CaptureRun -----------------------------
(***************************************************************************)
(* drive_capture() of cascade-core/src/process/mod.rs: a one-shot command  *)
(* whose whole output is read, up to a limit per stream, under a timeout.  *)
(* The wait for the child and the two readers are joined inside the        *)
(* timeout; when it fires they are dropped and force_kill is called.       *)
(***************************************************************************)
EXTENDS ProcessGroup

CONSTANT CaptureLimit   \* max_bytes, in lines

ASSUME CaptureAssumption == CaptureLimit \in Nat

VARIABLES
  capture,    \* "spawn", "join" or "over"
  captured,   \* per stream: how much of it was kept
  exceeded,   \* per stream: whether something was discarded
  drained,    \* per stream: "reading", "ended" or "failed"
  reaped,     \* child.wait() returned inside the join
  reply       \* "none", "output", "error" or "timeout"

captureVars == <<capture, captured, exceeded, drained, reaped, reply>>

CaptureInit ==
  /\ capture = "spawn"
  /\ captured = [s \in Streams |-> 0]
  /\ exceeded = [s \in Streams |-> FALSE]
  /\ drained = [s \in Streams |-> "reading"]
  /\ reaped = FALSE
  /\ reply = "none"

CaptureSpawns ==
  /\ capture = "spawn"
  /\ Birth
  /\ capture' = "join"
  /\ UNCHANGED <<captured, exceeded, drained, reaped, reply>>

CaptureSpawnFails ==
  /\ capture = "spawn"
  /\ capture' = "over" /\ reply' = "error"
  /\ UNCHANGED <<groupVars, captured, exceeded, drained, reaped>>

Draining(s) == capture = "join" /\ drained[s] = "reading"

(* read_capped: beyond the limit the output is still read, and discarded.  *)
Drain(s) ==
  /\ Draining(s) /\ pipe[s] # <<>>
  /\ pipe' = [pipe EXCEPT ![s] = Tail(@)]
  /\ IF captured[s] < CaptureLimit
     THEN captured' = [captured EXCEPT ![s] = @ + 1] /\ UNCHANGED exceeded
     ELSE exceeded' = [exceeded EXCEPT ![s] = TRUE] /\ UNCHANGED captured
  /\ UNCHANGED <<leader, status, helper, wrote, capture, drained, reaped, reply>>

DrainEnds(s) ==
  /\ Draining(s) /\ pipe[s] = <<>> /\ ~GroupAlive
  /\ drained' = [drained EXCEPT ![s] = "ended"]
  /\ UNCHANGED <<groupVars, capture, captured, exceeded, reaped, reply>>

DrainFails(s) ==
  /\ Draining(s)
  /\ drained' = [drained EXCEPT ![s] = "failed"]
  /\ UNCHANGED <<groupVars, capture, captured, exceeded, reaped, reply>>

Reap ==
  /\ capture = "join" /\ ~reaped /\ leader = "dead"
  /\ reaped' = TRUE
  /\ UNCHANGED <<groupVars, capture, captured, exceeded, drained, reply>>

(* Slip: what was kept of a longer output is taken for the whole.          *)
CompletesTruncated ==
  /\ capture = "join" /\ reaped
  /\ \A s \in Streams : drained[s] # "reading"
  /\ capture' = "over"
  /\ reply' = IF status = "ok" /\ \A s \in Streams : drained[s] = "ended"
              THEN "output" ELSE "error"
  /\ UNCHANGED <<groupVars, captured, exceeded, drained, reaped>>

Completes ==
  /\ capture = "join" /\ reaped
  /\ \A s \in Streams : drained[s] # "reading"
  /\ capture' = "over"
  /\ reply' = IF status = "ok" /\ \A s \in Streams : drained[s] = "ended" /\ ~exceeded[s]
              THEN "output" ELSE "error"
  /\ UNCHANGED <<groupVars, captured, exceeded, drained, reaped>>

(* The timeout: force_kill signals the group through child.id(), which is  *)
(* None once the child was reaped; then nobody is signalled.               *)
TimesOut ==
  /\ capture = "join"
  /\ IF reaped THEN UNCHANGED groupVars ELSE Sigkill
  /\ capture' = "over" /\ reply' = "timeout"
  /\ UNCHANGED <<captured, exceeded, drained, reaped>>

CaptureNext ==
  \/ CaptureSpawns \/ CaptureSpawnFails
  \/ \E s \in Streams : Drain(s) \/ DrainEnds(s) \/ DrainFails(s)
  \/ Reap \/ Completes \/ TimesOut
=============================================================================
