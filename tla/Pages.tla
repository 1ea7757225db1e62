------------------------------- MODULE Pages -------------------------------
(***************************************************************************)
(* Two pages of the main window (cascade-gui/src/window.rs) that drive     *)
(* captured commands: the remote browser, and the schedule dialog with the *)
(* dashboard.  They share no state but the main loop, so every step of one *)
(* commutes with every step of the other, and a behaviour of the two is a  *)
(* behaviour of each: the user is taken to work on one of them.            *)
(***************************************************************************)
EXTENDS RemoteBrowser, ScheduleInstall

VARIABLE page

vars == <<page, browserVars, scheduleVars>>

Init ==
  /\ page \in {"remotes", "schedule"}
  /\ BrowserInit
  /\ ScheduleInit

Next ==
  \/ page = "remotes" /\ BrowserNext /\ UNCHANGED <<page, scheduleVars>>
  \/ page = "schedule" /\ ScheduleNext /\ UNCHANGED <<page, browserVars>>

Spec == Init /\ [][Next]_vars

(* A capture is answered within its two minutes (CaptureAnswers of the     *)
(* process model) and the main loop polls the coroutine that waits for it. *)
FairSpec ==
  /\ Spec
  /\ \A i \in 1 .. MaxCalls : WF_browserVars(page = "remotes" /\ (Runs(i) \/ Answered(i)))
  /\ \A d \in Dialogs : WF_scheduleVars(page = "schedule" /\ Coroutine(d))
  /\ \A d \in Owners : WF_scheduleVars(page = "schedule" /\ Systemctl(d))
  /\ WF_scheduleVars(page = "schedule" /\ Deletion)

-----------------------------------------------------------------------------
Loading == page = "remotes" /\ status \in {"remotes", "folder"}

LoadingEnds == Loading ~> ~Loading

ButtonReturns == \A d \in Owners : step[d] \in Busy ~> step[d] \notin Busy

(* A load that is announced ends: no path through the answers forgets to   *)
(* replace "Loading …"; and however its commands end, an installation or a *)
(* deletion ends and its button works again (remote_browser.rs:247-302,    *)
(* schedule.rs:205-258, dashboard.rs:228-256).                             *)
WaitsEnd == LoadingEnds /\ ButtonReturns
=============================================================================
