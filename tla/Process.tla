------------------------------ MODULE Process ------------------------------
(***************************************************************************)
(* One child under either of its two drivers: drive(), for a job that is   *)
(* streamed and can be cancelled (StreamRun), or drive_capture(), for a    *)
(* command whose output is wanted whole (CaptureRun).  Both share the      *)
(* process group and force_kill.                                           *)
(***************************************************************************)
EXTENDS StreamRun, CaptureRun, Lists

VARIABLE driver   \* "stream" or "capture"

vars == <<groupVars, streamVars, captureVars, driver>>

Init ==
  /\ driver \in {"stream", "capture"}
  /\ GroupInit /\ StreamInit /\ CaptureInit

Next ==
  \/ driver = "stream" /\ StreamNext /\ UNCHANGED <<captureVars, driver>>
  \/ driver = "capture" /\ CaptureNext /\ UNCHANGED <<streamVars, driver>>
  \/ GroupNext /\ UNCHANGED <<streamVars, captureVars, driver>>

Spec == Init /\ [][Next]_vars

(* Fairness.  Tokio polls every future that can make progress, its timers  *)
(* fire, and the holder's loop keeps receiving.  The group is free to run, *)
(* write and ignore SIGTERM for ever.                                      *)
Streaming(A) == driver = "stream" /\ A /\ UNCHANGED <<captureVars, driver>>

Capturing(A) == driver = "capture" /\ A /\ UNCHANGED <<streamVars, driver>>

Fairness ==
  /\ WF_vars(Streaming(Spawns \/ SpawnFails \/ Announce))
  /\ \A s \in Streams : WF_vars(Streaming(ReaderNext(s)))
  /\ WF_vars(Streaming(WaiterNext))
  /\ WF_vars(Streaming(Joined \/ Report \/ Finish))
  /\ WF_vars(Streaming(Receive))
  /\ WF_vars(Capturing(CaptureSpawns \/ CaptureSpawnFails))
  /\ WF_vars(Capturing(TimesOut))

FairSpec == Spec /\ Fairness

-----------------------------------------------------------------------------
(* Properties.                                                             *)

LineNumbers(events, s) ==
  LET lines == Kept(events, {"line"} \X {s} \X Nat)
  IN  [i \in 1 .. Len(lines) |-> lines[i][3]]

InHand(s) == IF hand[s] = 0 THEN <<>> ELSE <<hand[s]>>

Unread(s) == Kept(pipe[s], Nat \ {0})

LinesOnTheirWay ==
  \A s \in Streams :
    (driver = "stream" /\ reader[s] # "failed") =>
      LineNumbers(received \o channel, s) \o InHand(s) \o Unread(s)
        = [n \in 1 .. wrote[s] |-> n]

FinishedComesLast ==
  LET events == received \o channel
  IN  \A i \in 1 .. Len(events) :
        events[i][1] = "finished" =>
          /\ i = Len(events)
          /\ events[i][2] =>
               /\ ~GroupAlive
               /\ \A s \in Streams : Len(LineNumbers(events, s)) = wrote[s]

(* Every line a stream wrote is, in order and once, received, queued, in   *)
(* its reader's hand or in the pipe: backpressure delays lines and drops   *)
(* none, unlike progress reports, and fills no more than the channel.      *)
(* Finished is the last event, and when it says success the whole output   *)
(* of both streams is before it and nobody is left to write any more       *)
(* (process/mod.rs:114, 344-376, 456-474).                                 *)
LinesConserved == LinesOnTheirWay /\ FinishedComesLast /\ Len(channel) <= Capacity

(* Only an explicit cancel() terminates the child, not the drop of the     *)
(* handle; a cancel that was taken leaves nobody of the group, a helper    *)
(* included, and so does a timeout of a capture whose leader was not       *)
(* reaped yet (process/mod.rs:324-332, 479-515).                           *)
TerminationIsWhole ==
  [][/\ waiter = "select" /\ waiter' = "grace" => asked
     /\ waiter = "grace" /\ waiter' = "done" => leader' = "dead" /\ helper' # "live"
     /\ reply' = "timeout" /\ ~reaped => ~GroupAlive']_vars

(* The holder's view is that of RunContract.                               *)
Told ==
  IF HeardFinish
  THEN IF received[Len(received)] = Finished(TRUE) THEN "success" ELSE "failure"
  ELSE IF \E i \in 1 .. Len(received) : received[i] = Started THEN "started" ELSE "nothing"

ChildSeen ==
  IF leader = "unborn" THEN "unborn" ELSE IF LeaderRuns THEN "live" ELSE status

Contract == INSTANCE RunContract WITH child <- ChildSeen, told <- Told

(* The events of drive() implement RunContract, whatever the interleaving  *)
(* of readers, waiter, cancel and exits (process/mod.rs:281-377).          *)
ContractSpec == Contract!Spec

(* A capture is answered with output only if the child succeeded and all   *)
(* of its output was read and kept (process/mod.rs:215-251).               *)
CaptureIsWhole ==
  reply = "output" =>
    /\ status = "ok" /\ ~GroupAlive
    /\ \A s \in Streams : pipe[s] = <<>> /\ captured[s] >= wrote[s]

GroupEndsRunEnds ==
  (driver = "stream" /\ <>[](leader # "unborn" => ~GroupAlive)) => <>HeardFinish

TakenCancelEndsRun == waiter = "grace" ~> HeardFinish

CaptureAnswers == driver = "capture" ~> reply # "none"

(* If the group ends by itself, Finished reaches the holder, through       *)
(* unreadable output and a full channel; a cancel taken while the leader   *)
(* runs ends the run, even if the group would run for ever; and every      *)
(* capture is answered, whatever the child does: the page that asked never *)
(* waits for ever (process/mod.rs:205-227, 344-376, 479-504).              *)
EveryRunEnds == GroupEndsRunEnds /\ TakenCancelEndsRun /\ CaptureAnswers

(* "Cancellation sends SIGTERM and then SIGKILL to the group"              *)
(* (THREAT_MODEL.md:26): a cancel() ends the run.                          *)
CancelEndsRun == asked ~> (driver = "stream" => HeardFinish)
=============================================================================
