----------------------------- MODULE NewJobRun -----------------------------
(***************************************************************************)
(* The New Job page (cascade-gui/src/views/new_job.rs): Start, Dry run and *)
(* Cancel, the confirmation dialog, and the two ways a job runs: a child   *)
(* whose events are streamed, or an rclone RC daemon of its own that is    *)
(* sent the transfer, polled once a second and stopped at the end.  GTK    *)
(* runs one callback at a time; the coroutine of an RC run is cut at each  *)
(* await, and the daemon, the file system and Cancel move in between.      *)
(* Children follow RunContract; captured calls are answered (Process).     *)
(***************************************************************************)
EXTENDS Naturals, Sequences

CONSTANTS
  Forms,         \* what may be in the form
  Destructive,   \* forms whose risk asks for a confirmation
  Remote,        \* forms that rc_eligible accepts (unless a dry run)
  MaxRuns,       \* bound: runs started
  MaxAttempts    \* submissions tried before giving up (20 in the code)

ASSUME NewJobAssumption ==
  /\ Destructive \subseteq Forms /\ Remote \subseteq Forms
  /\ MaxRuns \in Nat \ {0} /\ MaxAttempts \in Nat \ {0}

VARIABLES
  form,       \* the form
  confirm,    \* settings.confirm_destructive
  verdict,    \* what validate_paths says now
  page,       \* where the page's callbacks and coroutine stand
  promised,   \* the warnings shown in the open dialog
  dry,        \* the current run is a dry run
  rows,       \* job_runs.status of each run, in order
  recorded,   \* the current run has a row: start_run did not fail
  lost,       \* runs whose finish_run failed
  child,      \* the streamed child: "none", "live", "ok" or "bad"
  asked,      \* Cancel was clicked in this run
  cancelled,  \* the page's `cancelled` flag, read by the RC coroutine
  daemon,     \* per run: its RC daemon
  jobs,       \* transfers the current daemon accepted: "running", "ok" or "bad"
  watched,    \* the transfer whose id came back, 0 if none
  attempts,   \* submissions left
  call        \* the captured `rclone rc` in flight: its answer

vars == <<form, confirm, verdict, page, promised, dry, rows, recorded, lost, child, asked,
          cancelled, daemon, jobs, watched, attempts, call>>

formVars == <<form, confirm, promised>>
rcVars == <<cancelled, daemon, jobs, watched, attempts, call>>
rowVars == <<rows, recorded, lost>>

RcPages == {"submit", "submitting", "poll", "stats", "status"}
RunPages == RcPages \cup {"cli"}
Warnings == {"clean", "warned"}

Run == Len(rows)

-----------------------------------------------------------------------------
(* The end of a run: finish_run, whose failure is ignored.                 *)

EndRow(st) ==
  \/ rows' = (IF recorded THEN [rows EXCEPT ![Run] = st] ELSE rows) /\ UNCHANGED lost
  \/ rows' = rows /\ lost' = (IF recorded THEN lost \cup {Run} ELSE lost)

StopDaemon(d) == IF d \in {"binding", "serving"} THEN "stopping" ELSE d

(* finalize_rc: the row, then the daemon, whose handle is taken away.      *)
Finalize(st) ==
  /\ EndRow(st)
  /\ daemon' = [daemon EXCEPT ![Run] = StopDaemon(@)]
  /\ page' = "idle" /\ watched' = 0 /\ call' = "none"
  /\ UNCHANGED <<formVars, verdict, dry, recorded, child, asked, cancelled, jobs, attempts>>

-----------------------------------------------------------------------------
(* run(), from prepare_execution on: nothing happens if it or insert_job   *)
(* fails; the run goes on without a row if start_run fails.                *)

NewRow ==
  \/ rows' = Append(rows, "running") /\ recorded' = TRUE
  \/ rows' = Append(rows, "none") /\ recorded' = FALSE

RunCli ==
  /\ NewRow
  /\ page' = "cli"
  /\ child' = "live"
  /\ UNCHANGED <<lost, rcVars>>

(* run_rc: the daemon starts, the paths are looked at again.               *)
RunRc ==
  /\ NewRow
  /\ page' = "submit"
  /\ daemon' = [daemon EXCEPT ![Run + 1] = "binding"]
  /\ cancelled' = FALSE
  /\ jobs' = <<>> /\ watched' = 0 /\ attempts' = MaxAttempts /\ call' = "none"
  /\ UNCHANGED <<lost, child>>

(* The daemon does not start, or the paths changed while it did: the run   *)
(* is failed at once and the daemon, if any, told to stop.                 *)
(* Slip: an early return without finalize_rc.                              *)
RunRcRefusedUnrecorded ==
  /\ page' = "idle"
  /\ NewRow
  /\ \E d \in {"none", "stopping"} : daemon' = [daemon EXCEPT ![Run + 1] = d]
  /\ UNCHANGED <<lost, child, cancelled, jobs, watched, attempts, call>>

RunRcRefused ==
  /\ page' = "idle"
  /\ \/ rows' = Append(rows, "failed") /\ recorded' = TRUE /\ UNCHANGED lost
     \/ rows' = Append(rows, "running") /\ recorded' = TRUE /\ lost' = lost \cup {Run + 1}
     \/ rows' = Append(rows, "none") /\ recorded' = FALSE /\ UNCHANGED lost
  /\ \E d \in {"none", "stopping"} : daemon' = [daemon EXCEPT ![Run + 1] = d]
  /\ UNCHANGED <<child, cancelled, jobs, watched, attempts, call>>

(* Without a safe rclone (security_check) an RC job falls back to the CLI. *)
Launch(dryRun) ==
  /\ Run < MaxRuns
  /\ dry' = dryRun
  /\ asked' = FALSE
  /\ \/ RunCli
     \/ form \in Remote /\ ~dryRun /\ (RunRc \/ RunRcRefused)
  /\ UNCHANGED <<formVars, verdict>>

NeedsDialog == (form \in Destructive /\ confirm) \/ verdict = "warned"

(* on_start: read_spec fails on refused paths.                             *)
StartAsks ==
  /\ page = "idle" /\ verdict # "refused"
  /\ NeedsDialog
  /\ page' = "dialog"
  /\ promised' = verdict
  /\ UNCHANGED <<form, confirm, verdict, dry, rowVars, child, asked, rcVars>>

StartRuns ==
  /\ page = "idle" /\ verdict # "refused"
  /\ ~NeedsDialog
  /\ Launch(FALSE)

DryRun ==
  /\ page = "idle" /\ verdict # "refused"
  /\ Launch(TRUE)

(* The dialog's answers; run() reads the form again, and a live run        *)
(* compares the warnings of the moment with those that were shown.         *)
(* Slip: it does not.                                                      *)
DialogRunsUnchecked ==
  /\ page = "dialog" /\ verdict # "refused"
  /\ Launch(FALSE)

DialogRuns ==
  /\ page = "dialog" /\ verdict = promised
  /\ Launch(FALSE)

DialogDryRuns ==
  /\ page = "dialog" /\ verdict # "refused"
  /\ Launch(TRUE)

(* Cancel, or an answer that is refused: the paths changed, or             *)
(* prepare_execution or insert_job failed.                                 *)
DialogCloses ==
  /\ page = "dialog"
  /\ page' = "idle"
  /\ UNCHANGED <<formVars, verdict, dry, rowVars, child, asked, rcVars>>

(* The dialog is modal; the form can be edited while a job runs.           *)
EditForm(f) ==
  /\ page # "dialog" /\ f # form
  /\ form' = f
  /\ UNCHANGED <<confirm, verdict, page, promised, dry, rowVars, child, asked, rcVars>>

ToggleConfirm ==
  /\ page # "dialog"
  /\ confirm' = ~confirm
  /\ UNCHANGED <<form, verdict, page, promised, dry, rowVars, child, asked, rcVars>>

-----------------------------------------------------------------------------
(* The streamed run.                                                       *)

CliEnds ==
  /\ page = "cli" /\ child \in {"ok", "bad"}
  /\ EndRow(IF child = "ok" THEN "completed" ELSE "failed")
  /\ page' = "idle"
  /\ child' = "none"
  /\ UNCHANGED <<formVars, verdict, dry, recorded, asked, rcVars>>

(* cancel(): the child's handle, or the flag and the daemon.               *)
Cancel ==
  /\ page \in RunPages /\ ~asked
  /\ asked' = TRUE
  /\ IF page = "cli"
     THEN UNCHANGED <<cancelled, daemon>>
     ELSE /\ cancelled' = TRUE
          /\ daemon' = [daemon EXCEPT ![Run] = StopDaemon(@)]
  /\ UNCHANGED <<formVars, verdict, page, dry, rowVars, child, jobs, watched, attempts, call>>

-----------------------------------------------------------------------------
(* The coroutine of an RC run, from one await to the next.                 *)

(* 150 ms passed: give up if cancelled, else submit.                       *)
SubmitTick ==
  /\ page = "submit"
  /\ IF cancelled
     THEN Finalize("failed")
     ELSE /\ page' = "submitting" /\ call' = "sent" /\ attempts' = attempts - 1
          /\ UNCHANGED <<formVars, verdict, dry, rowVars, child, asked, cancelled, daemon, jobs, watched>>

(* The submission's answer: an id, or another try while some are left.     *)
SubmitAnswered ==
  /\ page = "submitting" /\ call \notin {"none", "sent"}
  /\ CASE call = "accepted" ->
            /\ page' = "poll" /\ watched' = Len(jobs) /\ call' = "none"
            /\ UNCHANGED <<formVars, verdict, dry, rowVars, child, asked, cancelled, daemon, jobs, attempts>>
       [] call # "accepted" /\ attempts > 0 ->
            /\ page' = "submit" /\ call' = "none"
            /\ UNCHANGED <<formVars, verdict, dry, rowVars, child, asked, cancelled, daemon, jobs, watched, attempts>>
       [] OTHER -> Finalize("failed")

(* A second passed: end if cancelled, else ask for core/stats.             *)
(* Slip: the flag is only looked at before the submission.                 *)
PollTickUncancelled ==
  /\ page = "poll"
  /\ page' = "stats" /\ call' = "sent"
  /\ UNCHANGED <<formVars, verdict, dry, rowVars, child, asked, cancelled, daemon, jobs, watched, attempts>>

PollTick ==
  /\ page = "poll"
  /\ IF cancelled
     THEN Finalize("failed")
     ELSE /\ page' = "stats" /\ call' = "sent"
          /\ UNCHANGED <<formVars, verdict, dry, rowVars, child, asked, cancelled, daemon, jobs, watched, attempts>>

(* core/stats is only shown, whatever the answer; then job/status.         *)
StatsAnswered ==
  /\ page = "stats" /\ call \notin {"none", "sent"}
  /\ page' = "status" /\ call' = "sent"
  /\ UNCHANGED <<formVars, verdict, dry, rowVars, child, asked, cancelled, daemon, jobs, watched, attempts>>

(* Slip: an error answer ends the run, but not as an error.                *)
StatusAnsweredNoError ==
  /\ page = "status" /\ call \notin {"none", "sent"}
  /\ CASE call \in {"ok", "failed"} -> Finalize("completed")
       [] call = "bad" -> Finalize("failed")
       [] OTHER ->
            /\ page' = "poll" /\ call' = "none"
            /\ UNCHANGED <<formVars, verdict, dry, rowVars, child, asked, cancelled, daemon, jobs, watched, attempts>>

StatusAnswered ==
  /\ page = "status" /\ call \notin {"none", "sent"}
  /\ CASE call = "ok" -> Finalize("completed")
       [] call \in {"bad", "failed"} -> Finalize("failed")
       [] OTHER ->
            /\ page' = "poll" /\ call' = "none"
            /\ UNCHANGED <<formVars, verdict, dry, rowVars, child, asked, cancelled, daemon, jobs, watched, attempts>>

-----------------------------------------------------------------------------
(* The world: the child, the daemon, the captured calls, the file system.  *)

ChildEnds ==
  /\ child = "live"
  /\ child' \in {"ok", "bad"}
  /\ UNCHANGED <<formVars, verdict, page, dry, rowVars, asked, rcVars>>

DaemonBinds(r) ==
  /\ daemon[r] = "binding"
  /\ daemon' = [daemon EXCEPT ![r] = "serving"]
  /\ UNCHANGED <<formVars, verdict, page, dry, rowVars, child, asked, cancelled, jobs, watched, attempts, call>>

(* It ends when told to, or fails; its transfers end with it.              *)
DaemonEnds(r) ==
  /\ daemon[r] \in {"binding", "serving", "stopping"}
  /\ daemon' = [daemon EXCEPT ![r] = "dead"]
  /\ jobs' = (IF r = Run THEN [i \in 1 .. Len(jobs) |-> IF jobs[i] = "running" THEN "bad" ELSE jobs[i]]
              ELSE jobs)
  /\ UNCHANGED <<formVars, verdict, page, dry, rowVars, child, asked, cancelled, watched, attempts, call>>

TransferEnds(i) ==
  /\ jobs[i] = "running" /\ daemon[Run] \in {"serving", "stopping"}
  /\ \E t \in {"ok", "bad"} : jobs' = [jobs EXCEPT ![i] = t]
  /\ UNCHANGED <<formVars, verdict, page, dry, rowVars, child, asked, cancelled, daemon, watched, attempts, call>>

(* A call reaches a serving daemon, one not killed yet included.  The      *)
(* answer to a submission may be lost after the transfer was accepted; the *)
(* answer about a job may be redacted beyond parsing ("garbled").          *)
CallServed ==
  /\ call = "sent" /\ daemon[Run] \in {"serving", "stopping"}
  /\ CASE page = "submitting" ->
            jobs' = Append(jobs, "running") /\ call' \in {"accepted", "failed"}
       [] page = "status" -> call' \in {jobs[watched], "garbled"} /\ UNCHANGED jobs
       [] OTHER -> call' = "ok" /\ UNCHANGED jobs
  /\ UNCHANGED <<formVars, verdict, page, dry, rowVars, child, asked, cancelled, daemon, watched, attempts>>

(* Refused connection, dead daemon, or the capture's own timeout.          *)
CallFails ==
  /\ call = "sent"
  /\ call' = "failed"
  /\ UNCHANGED <<formVars, verdict, page, dry, rowVars, child, asked, cancelled, daemon, jobs, watched, attempts>>

PathsChange(v) ==
  /\ v # verdict
  /\ verdict' = v
  /\ UNCHANGED <<formVars, page, dry, rowVars, child, asked, rcVars>>

-----------------------------------------------------------------------------
Init ==
  /\ form \in Forms /\ confirm \in BOOLEAN /\ verdict \in Warnings \cup {"refused"}
  /\ page = "idle" /\ promised = "clean" /\ dry = FALSE
  /\ rows = <<>> /\ recorded = FALSE /\ lost = {}
  /\ child = "none" /\ asked = FALSE /\ cancelled = FALSE
  /\ daemon = [r \in 1 .. MaxRuns |-> "none"]
  /\ jobs = <<>> /\ watched = 0 /\ attempts = MaxAttempts /\ call = "none"

PageNext ==
  \/ StartAsks \/ StartRuns \/ DryRun
  \/ DialogRuns \/ DialogDryRuns \/ DialogCloses
  \/ \E f \in Forms : EditForm(f)
  \/ ToggleConfirm \/ Cancel

CoroutineNext == SubmitTick \/ SubmitAnswered \/ PollTick \/ StatsAnswered \/ StatusAnswered

WorldNext ==
  \/ ChildEnds
  \/ \E r \in 1 .. MaxRuns : DaemonBinds(r) \/ DaemonEnds(r)
  \/ \E i \in 1 .. Len(jobs) : TransferEnds(i)
  \/ CallServed \/ CallFails
  \/ \E v \in Warnings \cup {"refused"} : PathsChange(v)

Next == PageNext \/ CliEnds \/ CoroutineNext \/ WorldNext

(* Fairness.  The main loop runs its coroutines and timers, and a captured *)
(* call is answered within its timeout (Process!CaptureAnswers).  Nothing  *)
(* is assumed of the streamed child or of the daemon.                      *)
Fairness == WF_vars(CoroutineNext) /\ WF_vars(CallServed \/ CallFails)

Spec == Init /\ [][Next]_vars /\ Fairness

-----------------------------------------------------------------------------
(* Properties.                                                             *)

(* A live run of a destructive job, or on paths with warnings, starts only *)
(* from the dialog that showed those very warnings, however long it stayed *)
(* open while the file system changed (new_job.rs:808-881).                *)
LiveRunsConsented ==
  [][(page \in {"idle", "dialog"} /\ page' \in RunPages /\ ~dry') =>
        \/ page = "dialog" /\ verdict = promised
        \/ verdict = "clean" /\ (form \in Destructive => ~confirm)]_vars

(* A run is recorded completed only if its child exited with 0 or the      *)
(* transfer it watched succeeded: not when the daemon died, a call failed  *)
(* or Cancel raced the last poll (new_job.rs:1116-1177).                   *)
CompletedIsTrue ==
  [][\A r \in 1 .. Len(rows) :
        (rows[r] = "running" /\ rows'[r] = "completed") =>
          child = "ok" \/ (page = "status" /\ jobs[watched] = "ok")]_vars

(* Only the run in progress has a row that says running, unless the write  *)
(* that ended it was lost (new_job.rs:895-904, 1003-1015, 1181-1196).      *)
RunningRowIsCurrent ==
  \A r \in 1 .. Len(rows) :
    rows[r] = "running" => r \in lost \/ (r = Run /\ page \in RunPages)

(* Cancel ends an RC run, whichever await the coroutine was in and         *)
(* whatever the daemon answers (new_job.rs:607-621, 1084-1096, 1116-1121). *)
(* A streamed run ends when its child and the helpers that hold its pipes  *)
(* do, which a cancel does not see to (Process!CancelEndsRun).             *)
CancelEndsRun == asked /\ page \in RcPages ~> page = "idle"
=============================================================================
