-------------------------- MODULE ScheduleInstall --------------------------
(***************************************************************************)
(* The schedule dialog (cascade-gui/src/views/schedule.rs) installing the  *)
(* service and the timer of one job name with write_user_units             *)
(* (cascade-core/src/schedule.rs), and the user's systemd, seen through    *)
(* captured systemctl commands.                                            *)
(*                                                                         *)
(* A click on Create starts a coroutine: disable the timer if its file     *)
(* exists, write both unit files, reload systemd, enable the timer.  It is *)
(* cut at each await.  Closing a dialog does not stop its coroutine, so a  *)
(* second dialog for the same name can be used meanwhile.  A dialog's      *)
(* switches matter when Create is clicked and may be anything then; a      *)
(* click that is refused only writes a message.                            *)
(*                                                                         *)
(* The dashboard (cascade-gui/src/views/dashboard.rs) lists the timers it  *)
(* found when it was last built and deletes one: disable, remove the       *)
(* files, reload.                                                          *)
(***************************************************************************)
EXTENDS Naturals

CONSTANTS
  Dialogs,    \* dialogs presented for jobs of one name
  Dashboard,  \* the dashboard, as the owner of a deletion
  MaxClicks,  \* bound: installations and deletions started in all
  MaxFaults,  \* bound: crashes and logins in all
  None

ASSUME ScheduleAssumption ==
  /\ MaxClicks \in Nat /\ MaxFaults \in Nat
  /\ Dashboard \notin Dialogs
  /\ None \notin {"ok", "err"} \cup [click : Nat, live : BOOLEAN, agreed : BOOLEAN]

VARIABLES
  \* the program
  step,       \* where each coroutine is; "idle" or "scheduled" when over
  row,        \* whether the dashboard shows the timer
  asked,      \* the unit the coroutine installs, as service and as timer
  \* systemd
  reply,      \* the answer to the coroutine's systemctl, None until it has one
  disk,       \* the unit files
  loaded,     \* the units systemd knows
  enabled,    \* the timer starts with the session
  armed,      \* the timer is running
  \* history and bounds
  clicks,     \* installations and deletions so far
  overlapped, \* a click came while another coroutine was under way
  faults

systemdVars == <<disk, loaded, enabled, armed>>
scheduleVars == <<step, row, asked, reply, systemdVars, clicks, overlapped, faults>>

NoUnits == [service |-> None, timer |-> None]
Owners == Dialogs \cup {Dashboard}
Busy == {"stopping", "writing", "reloading", "enabling", "deleting", "cleaning"}

(* The Create button, which is insensitive while its own coroutine runs.   *)
(* The coroutine is polled before the user can click anywhere else.        *)
Click(d, live, consent) ==
  /\ step[d] \notin Busy /\ clicks < MaxClicks
  /\ \A e \in Dialogs : step[e] # "writing"
  /\ live => consent
  /\ clicks' = clicks + 1
  /\ asked' = [asked EXCEPT ![d] = [click |-> clicks', live |-> live, agreed |-> live /\ consent]]
  /\ overlapped' = (overlapped \/ \E e \in Owners : step[e] \in Busy)
  /\ step' = [step EXCEPT ![d] = IF disk.timer = None THEN "writing" ELSE "stopping"]
  /\ UNCHANGED <<row, reply, systemdVars, faults>>

-----------------------------------------------------------------------------
(* The coroutine.                                                          *)

(* The existing timer could not be stopped: nothing is replaced.           *)
(* Slip: an early return that leaves the button insensitive.               *)
StopRefusedStuck(d) ==
  /\ step[d] = "stopping" /\ reply[d] = "err"
  /\ UNCHANGED scheduleVars

StopRefused(d) ==
  /\ step[d] = "stopping" /\ reply[d] = "err"
  /\ step' = [step EXCEPT ![d] = "idle"]
  /\ reply' = [reply EXCEPT ![d] = None]
  /\ UNCHANGED <<row, asked, systemdVars, clicks, overlapped, faults>>

(* There was no timer to stop, or it is stopped.                           *)
(* Slip: the answer to the stop is not looked at.                          *)
MayWriteUnstopped(d) == step[d] = "writing" \/ (step[d] = "stopping" /\ reply[d] # None)

MayWrite(d) == step[d] = "writing" \/ (step[d] = "stopping" /\ reply[d] = "ok")

(* write_user_units: all files are staged before the first is renamed; the *)
(* service is renamed first.  It may fail before either rename, between    *)
(* them, or after both (the notification unit, the directory's fsync).     *)
Renamed(unit) ==
  {disk, [disk EXCEPT !.service = unit], [service |-> unit, timer |-> unit]}

(* Slip: the dry-run switch is read when the files are written.            *)
WrittenFromForm(d) ==
  /\ MayWrite(d)
  /\ \E live \in BOOLEAN :
        disk' = [service |-> [asked[d] EXCEPT !.live = live], timer |-> asked[d]]
  /\ step' = [step EXCEPT ![d] = "reloading"]
  /\ reply' = [reply EXCEPT ![d] = None]
  /\ UNCHANGED <<row, asked, loaded, enabled, armed, clicks, overlapped, faults>>

Written(d) ==
  /\ MayWrite(d)
  /\ \/ /\ disk' = [service |-> asked[d], timer |-> asked[d]]
        /\ step' = [step EXCEPT ![d] = "reloading"]
     \/ /\ disk' \in Renamed(asked[d])
        /\ step' = [step EXCEPT ![d] = "idle"]
  /\ reply' = [reply EXCEPT ![d] = None]
  /\ UNCHANGED <<row, asked, loaded, enabled, armed, clicks, overlapped, faults>>

(* systemctl daemon-reload was answered.                                   *)
Reloaded(d) ==
  /\ step[d] = "reloading" /\ reply[d] # None
  /\ step' = [step EXCEPT ![d] = IF reply[d] = "ok" THEN "enabling" ELSE "idle"]
  /\ reply' = [reply EXCEPT ![d] = None]
  /\ UNCHANGED <<row, asked, systemdVars, clicks, overlapped, faults>>

(* systemctl enable --now was answered.                                    *)
(* Slip: any answer counts as success.                                     *)
EnabledAnyhow(d) ==
  /\ step[d] = "enabling" /\ reply[d] # None
  /\ step' = [step EXCEPT ![d] = "scheduled"]
  /\ reply' = [reply EXCEPT ![d] = None]
  /\ UNCHANGED <<row, asked, systemdVars, clicks, overlapped, faults>>

Enabled(d) ==
  /\ step[d] = "enabling" /\ reply[d] # None
  /\ step' = [step EXCEPT ![d] = IF reply[d] = "ok" THEN "scheduled" ELSE "idle"]
  /\ reply' = [reply EXCEPT ![d] = None]
  /\ UNCHANGED <<row, asked, systemdVars, clicks, overlapped, faults>>

(* delete_timer: the files are removed once the timer is stopped; failures *)
(* to remove them are ignored.  Bound: one deletion at a time.             *)
Removed ==
  {disk, NoUnits, [disk EXCEPT !.timer = None], [disk EXCEPT !.service = None]}

DeleteClick ==
  /\ row /\ step[Dashboard] = "idle" /\ clicks < MaxClicks
  /\ \A d \in Dialogs : step[d] # "writing"
  /\ clicks' = clicks + 1
  /\ overlapped' = (overlapped \/ \E d \in Dialogs : step[d] \in Busy)
  /\ step' = [step EXCEPT ![Dashboard] = "deleting"]
  /\ UNCHANGED <<row, asked, reply, systemdVars, faults>>

(* Slip: the files go whatever systemctl answered.                         *)
DeleteStoppedOrNot ==
  /\ step[Dashboard] = "deleting" /\ reply[Dashboard] # None
  /\ disk' = NoUnits
  /\ step' = [step EXCEPT ![Dashboard] = "cleaning"]
  /\ reply' = [reply EXCEPT ![Dashboard] = None]
  /\ UNCHANGED <<row, asked, loaded, enabled, armed, clicks, overlapped, faults>>

DeleteStopped ==
  /\ step[Dashboard] = "deleting" /\ reply[Dashboard] # None
  /\ \/ /\ reply[Dashboard] = "ok"
        /\ disk' \in Removed
        /\ step' = [step EXCEPT ![Dashboard] = "cleaning"]
        /\ UNCHANGED row
     \/ /\ reply[Dashboard] = "err"
        /\ step' = [step EXCEPT ![Dashboard] = "idle"]
        /\ row' = (disk.timer # None)
        /\ UNCHANGED disk
  /\ reply' = [reply EXCEPT ![Dashboard] = None]
  /\ UNCHANGED <<asked, loaded, enabled, armed, clicks, overlapped, faults>>

DeleteCleaned ==
  /\ step[Dashboard] = "cleaning" /\ reply[Dashboard] # None
  /\ step' = [step EXCEPT ![Dashboard] = "idle"]
  /\ row' = (disk.timer # None)
  /\ reply' = [reply EXCEPT ![Dashboard] = None]
  /\ UNCHANGED <<asked, systemdVars, clicks, overlapped, faults>>

Deletion == DeleteStopped \/ DeleteCleaned

Coroutine(d) == StopRefused(d) \/ Written(d) \/ Reloaded(d) \/ Enabled(d)

-----------------------------------------------------------------------------
(* systemd.  Each command also makes it read the unit files again.  A      *)
(* command answered with an error, or killed by the capture's timeout, may *)
(* have had its effect.                                                    *)
Disables == enabled' = FALSE /\ armed' = FALSE /\ loaded' = disk
Reloads == loaded' = disk /\ UNCHANGED <<enabled, armed>>
Enables == enabled' = TRUE /\ armed' = TRUE /\ loaded' = disk

Effect(command) ==
  \/ command \in {"stopping", "deleting"} /\ Disables
  \/ command \in {"reloading", "cleaning"} /\ Reloads
  \/ command = "enabling" /\ disk.timer # None /\ Enables

Systemctl(d) ==
  /\ step[d] \in Busy \ {"writing"} /\ reply[d] = None
  /\ \/ Effect(step[d]) /\ reply' = [reply EXCEPT ![d] = "ok"]
     \/ Effect(step[d]) /\ reply' = [reply EXCEPT ![d] = "err"]
     \/ UNCHANGED <<loaded, enabled, armed>> /\ reply' = [reply EXCEPT ![d] = "err"]
  /\ UNCHANGED <<step, row, asked, disk, clicks, overlapped, faults>>

(* Another program makes systemd reload.                                   *)
ForeignReload ==
  /\ Reloads
  /\ UNCHANGED <<step, row, asked, reply, disk, clicks, overlapped, faults>>

(* The program stops, possibly between two renames or two removals, and    *)
(* possibly with the whole session: at the next login systemd starts the   *)
(* enabled timers.                                                         *)
(* The program starts again and the dashboard reads the directory.         *)
Crash ==
  /\ faults < MaxFaults
  /\ faults' = faults + 1
  /\ \/ UNCHANGED disk
     \/ \E d \in Dialogs : MayWrite(d) /\ disk' \in Renamed(asked[d])
     \/ step[Dashboard] = "deleting" /\ reply[Dashboard] = "ok" /\ disk' \in Removed
  /\ \/ UNCHANGED <<loaded, armed>>
     \/ loaded' = disk' /\ armed' = (enabled /\ disk'.timer # None)
  /\ step' = [d \in Owners |-> "idle"]
  /\ reply' = [d \in Owners |-> None]
  /\ row' = (disk'.timer # None)
  /\ UNCHANGED <<asked, enabled, clicks, overlapped>>

ScheduleInit ==
  /\ step = [d \in Owners |-> "idle"]
  /\ row = FALSE
  /\ asked = [d \in Dialogs |-> None]
  /\ reply = [d \in Owners |-> None]
  /\ disk = NoUnits /\ loaded = NoUnits /\ enabled = FALSE /\ armed = FALSE
  /\ clicks = 0 /\ overlapped = FALSE /\ faults = 0

ScheduleNext ==
  \/ \E d \in Dialogs, live, consent \in BOOLEAN : Click(d, live, consent)
  \/ DeleteClick \/ Deletion
  \/ \E d \in Dialogs : Coroutine(d)
  \/ \E d \in Owners : Systemctl(d)
  \/ ForeignReload
  \/ Crash

-----------------------------------------------------------------------------
(* A running timer belongs to the service systemd has for it, through      *)
(* failed stops, writes that fail between two renames, crashes there, and  *)
(* logins, unless installations overlapped (schedule.rs of the core,       *)
(* 186-280): a half-replaced pair is never armed.                          *)
ArmedPairMatches ==
  (armed /\ ~overlapped) => loaded.service = loaded.timer /\ loaded.service # None

(* What runs unattended without dry run was agreed to when Create was      *)
(* clicked, whatever became of the form since (schedule.rs:122-143).       *)
LiveWasAgreed ==
  (armed /\ loaded.service # None /\ loaded.service.live) => loaded.service.agreed

(* "Scheduled" means that the timer runs, with what this click asked for   *)
(* (schedule.rs:245-256).                                                  *)
ScheduledIsArmed ==
  [][\A d \in Dialogs : (step[d] = "enabling" /\ step'[d] = "scheduled" /\ ~overlapped) =>
        armed /\ loaded = [service |-> asked[d], timer |-> asked[d]]]_scheduleVars

(* A unit file of an existing timer changes, by an installation or a       *)
(* deletion, only while the timer is stopped, unless two of them overlap.  *)
FilesChangeUnarmed ==
  [][(disk' # disk /\ disk.timer # None /\ ~overlapped) => ~armed]_scheduleVars

(* "Existing timers are stopped before replacement."                       *)
StoppedBeforeReplaced ==
  [][(disk'.timer # disk.timer /\ disk.timer # None) => ~armed]_scheduleVars
=============================================================================
