--------------------------- MODULE RemoteBrowser ---------------------------
(***************************************************************************)
(* The remote browser (cascade-gui/src/views/remote_browser.rs): it lists  *)
(* the configured remotes and the folders of one of them.  Every listing,  *)
(* deletion and download is a captured rclone process of its own; nothing  *)
(* cancels one, and their answers come in any order.                       *)
(*                                                                         *)
(* A folder holds one folder and one file, so a place is a remote and a    *)
(* depth.  The list is the set of the places whose entries were appended   *)
(* to it.                                                                  *)
(***************************************************************************)
EXTENDS Lists, FiniteSets

CONSTANTS
  AllRemotes,   \* the remotes there may be, in the order rclone lists them
  MaxDepth,     \* bound: how deep the user descends
  MaxCalls,     \* bound: captured processes in flight
  Nothing

Names == {AllRemotes[i] : i \in DOMAIN AllRemotes}

Places == [remote : Names, depth : Nat]

ASSUME RemoteBrowserAssumption ==
  /\ AllRemotes \in Seq(Names) /\ AllRemotes # <<>>
  /\ MaxDepth \in Nat
  /\ MaxCalls \in Nat \ {0, 1}
  /\ Nothing \notin Places

VARIABLES
  config,     \* the remotes in rclone's configuration
  calls,      \* captures in flight by slot; `out` is Nothing until the process ended
  remotes,    \* the list behind the combo row
  selected,   \* the combo row's position in it, 0 for none
  depth,      \* State::sub
  pathLabel,  \* the place named above the list
  list,       \* the places whose entries the list box holds
  status,     \* "remotes" and "folder" announce a load; "hidden"; "message"
  dialog,     \* the remote the delete dialog asks about
  download    \* the download whose folder chooser is open

browserVars == <<config, calls, remotes, selected, depth, pathLabel, list, status, dialog, download>>

NoDialog == dialog = Nothing /\ download = Nothing

(* A capture, in the first free slot.                                      *)
Free(cs) == {i \in 1 .. MaxCalls : cs[i] = Nothing}

Capture(cs, cmd, arg) ==
  [cs EXCEPT ![CHOOSE i \in Free(cs) : \A k \in Free(cs) : i <= k] =
     [cmd |-> cmd, arg |-> arg, out |-> Nothing]]

(* The bound: the user starts no capture that would leave no slot for      *)
(* those its answer starts (load_remotes ends in up to two reloads).       *)
Leads(cs) == {i \in 1 .. MaxCalls : cs[i] # Nothing /\ cs[i].cmd \in {"listremotes", "delete"}}

MayCapture(slots) == Cardinality(Free(calls)) >= Cardinality(Leads(calls)) + slots

(* Also a bound: one download at a time.                                   *)
Downloading == \E i \in 1 .. MaxCalls : calls[i] # Nothing /\ calls[i].cmd = "copy"

(* current_path(): nothing without a selected remote.                      *)
Place(rs, sel, d) ==
  IF sel \in DOMAIN rs THEN [remote |-> rs[sel], depth |-> d] ELSE Nothing

CurrentPath == Place(remotes, selected, depth)

(* reload(), `times` times in a row, for the place just set.               *)
Reload(place, cs, times) ==
  IF place = Nothing
  THEN calls' = cs /\ UNCHANGED <<pathLabel, status, list>>
  ELSE /\ calls' = IF times = 1 THEN Capture(cs, "lsjson", place)
                   ELSE Capture(Capture(cs, "lsjson", place), "lsjson", place)
       /\ pathLabel' = place
       /\ status' = "folder"
       /\ list' = {}

(* load_remotes(), up to its await.                                        *)
LoadRemotes(cs) ==
  /\ calls' = Capture(cs, "listremotes", Nothing)
  /\ status' = "remotes"

-----------------------------------------------------------------------------
(* The user.                                                               *)

SelectRemote(i) ==
  /\ NoDialog /\ MayCapture(1)
  /\ i # selected
  /\ selected' = i
  /\ depth' = 0
  /\ Reload(Place(remotes, i, 0), calls, 1)
  /\ UNCHANGED <<config, remotes, dialog, download>>

(* Slip: the path is read before it is changed.                            *)
GoUpReloadsFirst ==
  /\ NoDialog /\ CurrentPath # Nothing /\ MayCapture(1)
  /\ depth' = IF depth = 0 THEN 0 ELSE depth - 1
  /\ Reload(CurrentPath, calls, 1)
  /\ UNCHANGED <<config, remotes, selected, dialog, download>>

GoUp ==
  /\ NoDialog /\ CurrentPath # Nothing /\ MayCapture(1)
  /\ depth' = IF depth = 0 THEN 0 ELSE depth - 1
  /\ Reload(Place(remotes, selected, depth'), calls, 1)
  /\ UNCHANGED <<config, remotes, selected, dialog, download>>

Refresh ==
  /\ NoDialog /\ CurrentPath # Nothing /\ MayCapture(1)
  /\ Reload(CurrentPath, calls, 1)
  /\ UNCHANGED <<config, remotes, selected, depth, dialog, download>>

(* A folder row is activated: its name is appended to whatever the current *)
(* path is by now.                                                         *)
Descend ==
  /\ NoDialog /\ list # {} /\ depth < MaxDepth /\ MayCapture(1)
  /\ depth' = depth + 1
  /\ Reload(Place(remotes, selected, depth'), calls, 1)
  /\ UNCHANGED <<config, remotes, selected, dialog, download>>

(* delete_current: the dialog keeps the name it asked about.               *)
AskDelete ==
  /\ NoDialog
  /\ IF CurrentPath = Nothing
     THEN status' = "message" /\ UNCHANGED dialog
     ELSE dialog' = CurrentPath.remote /\ UNCHANGED status
  /\ UNCHANGED <<config, calls, remotes, selected, depth, pathLabel, list, download>>

(* config_delete_args may refuse the name.                                 *)
AnswerDialog ==
  /\ dialog # Nothing
  /\ dialog' = Nothing
  /\ \/ UNCHANGED <<calls, status>>
     \/ status' = "message" /\ UNCHANGED calls
     \/ MayCapture(2) /\ calls' = Capture(calls, "delete", dialog) /\ UNCHANGED status
  /\ UNCHANGED <<config, remotes, selected, depth, pathLabel, list, download>>

(* The add-remote dialog made a remote and calls load_remotes.             *)
RemoteAdded(r) ==
  /\ NoDialog /\ r \notin config /\ MayCapture(2)
  /\ config' = config \cup {r}
  /\ LoadRemotes(calls)
  /\ UNCHANGED <<remotes, selected, depth, pathLabel, list, dialog, download>>

(* A file row is activated: the source is built from the current path.     *)
Download(place) ==
  /\ NoDialog /\ CurrentPath # Nothing /\ ~Downloading
  /\ download' = [clicked |-> place, source |-> CurrentPath]
  /\ UNCHANGED <<config, calls, remotes, selected, depth, pathLabel, list, status, dialog>>

(* The folder chooser is closed, or run_download begins; it may refuse.    *)
ChooseFolder ==
  /\ download # Nothing
  /\ download' = Nothing
  /\ \/ UNCHANGED <<calls, status>>
     \/ status' = "message" /\ UNCHANGED calls
     \/ status' = "message" /\ MayCapture(1) /\ calls' = Capture(calls, "copy", download.source)
  /\ UNCHANGED <<config, remotes, selected, depth, pathLabel, list, dialog>>

-----------------------------------------------------------------------------
(* rclone runs.  A deletion and a list of remotes are made when it runs,   *)
(* which is not when they are answered; a folder's entries and the end of  *)
(* a download may be anything.  <<Nothing>> is a listremotes that failed. *)
Runs(i) ==
  /\ calls[i] # Nothing /\ calls[i].out = Nothing
  /\ \/ /\ calls[i].cmd = "listremotes"
        /\ \E out \in {Kept(AllRemotes, config), <<Nothing>>} :
              calls' = [calls EXCEPT ![i].out = out]
        /\ UNCHANGED config
     \/ /\ calls[i].cmd = "delete"
        /\ \E out \in {"ok", "failed"} :
              /\ calls' = [calls EXCEPT ![i].out = out]
              /\ config' = IF out = "ok" THEN config \ {calls[i].arg} ELSE config
  /\ UNCHANGED <<remotes, selected, depth, pathLabel, list, status, dialog, download>>

(* The coroutines that wait for an answer.                                 *)
HasAnswer(i, cmd) ==
  /\ calls[i] # Nothing /\ calls[i].cmd = cmd
  /\ cmd \in {"listremotes", "delete"} => calls[i].out # Nothing

Rest(i) == [calls EXCEPT ![i] = Nothing]

AnsweredRemotes(i) ==
  /\ HasAnswer(i, "listremotes")
  /\ \/ /\ calls[i].out = <<Nothing>>
        /\ status' = "message"
        /\ calls' = Rest(i)
        /\ UNCHANGED <<remotes, selected, depth, pathLabel, list>>
     \/ /\ calls[i].out = <<>>
        /\ remotes' = <<>> /\ selected' = 0
        /\ depth' = IF selected = 0 THEN depth ELSE 0
        /\ list' = {} /\ pathLabel' = Nothing /\ status' = "message"
        /\ calls' = Rest(i)
     \/ /\ calls[i].out \notin {<<Nothing>>, <<>>}
        /\ remotes' = calls[i].out /\ selected' = 1 /\ depth' = 0
        \* set_model notifies when the selection moves, and may notify when it does not
        /\ \/ Reload(Place(remotes', 1, 0), Rest(i), 2)
           \/ selected = 1 /\ Reload(Place(remotes', 1, 0), Rest(i), 1)
  /\ UNCHANGED <<config, dialog, download>>

AnsweredFolder(i) ==
  /\ HasAnswer(i, "lsjson")
  /\ calls' = Rest(i)
  /\ \/ list' = list \cup {calls[i].arg} /\ status' = "hidden"
     \/ status' = "message" /\ UNCHANGED list
  /\ UNCHANGED <<config, remotes, selected, depth, pathLabel, dialog, download>>

AnsweredDelete(i) ==
  /\ HasAnswer(i, "delete")
  /\ IF calls[i].out = "ok"
     THEN LoadRemotes(Rest(i))
     ELSE status' = "message" /\ calls' = Rest(i)
  /\ UNCHANGED <<config, remotes, selected, depth, pathLabel, list, dialog, download>>

AnsweredCopy(i) ==
  /\ HasAnswer(i, "copy")
  /\ status' = "message" /\ calls' = Rest(i)
  /\ UNCHANGED <<config, remotes, selected, depth, pathLabel, list, dialog, download>>

Answered(i) == AnsweredRemotes(i) \/ AnsweredFolder(i) \/ AnsweredDelete(i) \/ AnsweredCopy(i)

(* RemoteBrowserView::new loads the remotes.                               *)
BrowserInit ==
  /\ config \in SUBSET Names
  /\ calls = Capture([i \in 1 .. MaxCalls |-> Nothing], "listremotes", Nothing)
  /\ remotes = <<>> /\ selected = 0 /\ depth = 0
  /\ pathLabel = Nothing /\ list = {} /\ status = "remotes"
  /\ dialog = Nothing /\ download = Nothing

BrowserNext ==
  \/ \E i \in DOMAIN remotes : SelectRemote(i)
  \/ GoUp \/ Refresh \/ Descend
  \/ AskDelete \/ AnswerDialog
  \/ \E i \in DOMAIN AllRemotes : RemoteAdded(AllRemotes[i])
  \/ \E place \in list : Download(place)
  \/ ChooseFolder
  \/ \E i \in 1 .. MaxCalls : Runs(i) \/ Answered(i)

-----------------------------------------------------------------------------
(* What "Use as Source" and "Use as Destination" send is the place named   *)
(* above the list, through every order of answers, deletions and additions *)
(* (remote_browser.rs:192-201, 247-302).                                   *)
PickSendsWhatIsNamed == pathLabel = CurrentPath

(* "Click a file (or its download button) to save it locally": the file    *)
(* saved is the one clicked (remote_browser.rs:346, 368).                  *)
DownloadsWhatIsClicked == download # Nothing => download.source = download.clicked
=============================================================================
