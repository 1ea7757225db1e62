----------------------------- MODULE StreamRun -----------------------------
(***************************************************************************)
(* drive() of cascade-core/src/process/mod.rs: the task on the Tokio       *)
(* runtime that runs one child, streams its output as events through a     *)
(* bounded channel, and terminates it on an explicit cancel(); and the     *)
(* holder of the RunHandle on the GTK thread.  After Started, three        *)
(* futures are joined: a reader per pipe, and `waiter`, which waits for    *)
(* the child or for a cancel.  Each await point ends a step.               *)
(***************************************************************************)
EXTENDS ProcessGroup

CONSTANT Capacity   \* EVENT_BUFFER_CAPACITY

ASSUME CapacityAssumption == Capacity \in Nat \ {0}

VARIABLES
  drive,     \* "spawn", "announce", "join", "report", "finish", "over"
  reader,    \* per stream: "idle", "reading", "ended" or "failed"
  hand,      \* per stream: the line its reader is sending, 0 if none
  waiter,    \* "idle", "select", "grace" (SIGTERM sent) or "done"
  channel,   \* the bounded event channel
  received,  \* events the holder took, progress aside
  asked,     \* cancel() was called
  mailbox,   \* the cancel channel, of capacity 1
  held       \* the RunHandle is not dropped

streamVars == <<drive, reader, hand, waiter, channel, received, asked, mailbox, held>>

Started == <<"started">>
Progress == <<"progress">>
Error == <<"error">>
Line(s, n) == <<"line", s, n>>
Finished(ok) == <<"finished", ok>>

StreamInit ==
  /\ drive = "spawn"
  /\ reader = [s \in Streams |-> "idle"]
  /\ hand = [s \in Streams |-> 0]
  /\ waiter = "idle"
  /\ channel = <<>> /\ received = <<>>
  /\ asked = FALSE /\ mailbox = FALSE /\ held = TRUE

(* send().await: the step is taken when there is room.                     *)
Send(e) ==
  /\ Len(channel) < Capacity
  /\ channel' = Append(channel, e)

(* try_send(): lost if the channel is full.                                *)
TrySend(e) == channel' = IF Len(channel) < Capacity THEN Append(channel, e) ELSE channel

-----------------------------------------------------------------------------
(* command.spawn(), then Started, before any reader runs.                  *)

Spawns ==
  /\ drive = "spawn"
  /\ Birth
  /\ drive' = "announce"
  /\ UNCHANGED <<reader, hand, waiter, channel, received, asked, mailbox, held>>

SpawnFails ==
  /\ drive = "spawn"
  /\ drive' = "report"
  /\ UNCHANGED <<groupVars, reader, hand, waiter, channel, received, asked, mailbox, held>>

Announce ==
  /\ drive = "announce"
  /\ Send(Started)
  /\ drive' = "join"
  /\ reader' = [s \in Streams |-> "reading"]
  /\ waiter' = "select"
  /\ UNCHANGED <<groupVars, hand, received, asked, mailbox, held>>

-----------------------------------------------------------------------------
(* stream_lines, flush_line and emit_line, a line at a time.               *)

Reading(s) == reader[s] = "reading" /\ hand[s] = 0

ReadProgress(s) ==
  /\ Reading(s) /\ pipe[s] # <<>> /\ Head(pipe[s]) = 0
  /\ pipe' = [pipe EXCEPT ![s] = Tail(@)]
  /\ TrySend(Progress)
  /\ UNCHANGED <<leader, status, helper, wrote,
                 drive, reader, hand, waiter, received, asked, mailbox, held>>

ReadLine(s) ==
  /\ Reading(s) /\ pipe[s] # <<>> /\ Head(pipe[s]) # 0
  /\ pipe' = [pipe EXCEPT ![s] = Tail(@)]
  /\ hand' = [hand EXCEPT ![s] = Head(pipe[s])]
  /\ UNCHANGED <<leader, status, helper, wrote,
                 drive, reader, waiter, channel, received, asked, mailbox, held>>

SendLine(s) ==
  /\ hand[s] # 0
  /\ Send(Line(s, hand[s]))
  /\ hand' = [hand EXCEPT ![s] = 0]
  /\ UNCHANGED <<groupVars, drive, reader, waiter, received, asked, mailbox, held>>

ReadEnds(s) ==
  /\ Reading(s) /\ pipe[s] = <<>> /\ ~GroupAlive
  /\ reader' = [reader EXCEPT ![s] = "ended"]
  /\ UNCHANGED <<groupVars, drive, hand, waiter, channel, received, asked, mailbox, held>>

ReadFails(s) ==
  /\ Reading(s)
  /\ reader' = [reader EXCEPT ![s] = "failed"]
  /\ UNCHANGED <<groupVars, drive, hand, waiter, channel, received, asked, mailbox, held>>

-----------------------------------------------------------------------------
(* wait_or_cancel: select! between the child and the cancel channel.       *)

SeesExit ==
  /\ waiter = "select" /\ leader = "dead"
  /\ waiter' = "done"
  /\ UNCHANGED <<groupVars, drive, reader, hand, channel, received, asked, mailbox, held>>

TakesCancel ==
  /\ waiter = "select" /\ mailbox
  /\ mailbox' = FALSE
  /\ TrySend(Error)
  /\ Sigterm
  /\ waiter' = "grace"
  /\ UNCHANGED <<drive, reader, hand, received, asked, held>>

(* graceful_terminate: the leader is gone within five seconds, and what is *)
(* left of its group is killed; or force_kill.                             *)
(* Slip: the group is not killed after a leader that obeyed.               *)
GraceObeyedLeaderOnly ==
  /\ waiter = "grace" /\ leader = "dead"
  /\ waiter' = "done"
  /\ UNCHANGED <<groupVars, drive, reader, hand, channel, received, asked, mailbox, held>>

GraceObeyed ==
  /\ waiter = "grace" /\ leader = "dead"
  /\ Sigkill
  /\ waiter' = "done"
  /\ UNCHANGED <<drive, reader, hand, channel, received, asked, mailbox, held>>

GraceOver ==
  /\ waiter = "grace" /\ LeaderRuns
  /\ Sigkill
  /\ waiter' = "done"
  /\ UNCHANGED <<drive, reader, hand, channel, received, asked, mailbox, held>>

-----------------------------------------------------------------------------
(* join! is over; the result is matched and Finished is sent.              *)

OutputFailed == \E s \in Streams : reader[s] = "failed"

(* Slips: the readers are not joined; only readers that reached the end    *)
(* are.                                                                    *)
JoinedWithoutReaders ==
  /\ drive = "join" /\ waiter = "done"
  /\ drive' = IF OutputFailed THEN "report" ELSE "finish"
  /\ UNCHANGED <<groupVars, reader, hand, waiter, channel, received, asked, mailbox, held>>

JoinedOnlyCleanly ==
  /\ drive = "join" /\ waiter = "done"
  /\ \A s \in Streams : reader[s] = "ended"
  /\ drive' = "finish"
  /\ UNCHANGED <<groupVars, reader, hand, waiter, channel, received, asked, mailbox, held>>

Joined ==
  /\ drive = "join" /\ waiter = "done"
  /\ \A s \in Streams : reader[s] \in {"ended", "failed"}
  /\ drive' = IF OutputFailed THEN "report" ELSE "finish"
  /\ UNCHANGED <<groupVars, reader, hand, waiter, channel, received, asked, mailbox, held>>

Report ==
  /\ drive = "report"
  /\ Send(Error)
  /\ drive' = "finish"
  /\ UNCHANGED <<groupVars, reader, hand, waiter, received, asked, mailbox, held>>

(* Slip: success whatever the exit status.                                 *)
FinishAnyStatus ==
  /\ drive = "finish"
  /\ Send(Finished(~OutputFailed /\ leader = "dead"))
  /\ drive' = "over"
  /\ UNCHANGED <<groupVars, reader, hand, waiter, received, asked, mailbox, held>>

Finish ==
  /\ drive = "finish"
  /\ Send(Finished(~OutputFailed /\ status = "ok"))
  /\ drive' = "over"
  /\ UNCHANGED <<groupVars, reader, hand, waiter, received, asked, mailbox, held>>

-----------------------------------------------------------------------------
(* The holder: a loop on events.recv() that breaks at Finished, cancel()   *)
(* at any time, as often as it likes, and the drop of the handle (the      *)
(* loop keeps a clone of the receiver).                                    *)

HeardFinish == \E i \in 1 .. Len(received) : received[i][1] = "finished"

Receive ==
  /\ channel # <<>> /\ ~HeardFinish
  /\ channel' = Tail(channel)
  /\ received' = IF Head(channel) = Progress THEN received ELSE Append(received, Head(channel))
  /\ UNCHANGED <<groupVars, drive, reader, hand, waiter, asked, mailbox, held>>

Cancel ==
  /\ held
  /\ asked' = TRUE
  /\ mailbox' = TRUE
  /\ UNCHANGED <<groupVars, drive, reader, hand, waiter, channel, received, held>>

DropHandle ==
  /\ held
  /\ held' = FALSE
  /\ UNCHANGED <<groupVars, drive, reader, hand, waiter, channel, received, asked, mailbox>>

WaiterNext == SeesExit \/ TakesCancel \/ GraceObeyed \/ GraceOver

ReaderNext(s) ==
  ReadProgress(s) \/ ReadLine(s) \/ SendLine(s) \/ ReadEnds(s) \/ ReadFails(s)

StreamNext ==
  \/ Spawns \/ SpawnFails \/ Announce
  \/ \E s \in Streams : ReaderNext(s)
  \/ WaiterNext
  \/ Joined \/ Report \/ Finish
  \/ Receive \/ Cancel \/ DropHandle
=============================================================================
