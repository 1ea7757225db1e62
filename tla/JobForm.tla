------------------------------- MODULE JobForm -------------------------------
(***************************************************************************)
(* The New Job form as the editor of one job: its rows (views/new_job.rs), *)
(* the command preview, the dialogs that stand before a run and before the *)
(* queue, and the ways a stored job comes back into the rows: a profile, a *)
(* run of the history, an assistant scenario.  The symbolic links on the   *)
(* way of a local path belong to other programs and may be turned while a  *)
(* dialog waits, while a job is queued, and between two looks of a launch. *)
(*                                                                         *)
(* The rows are kept as the job they spell; the custom-flags row is a      *)
(* sequence of flags as they are typed, quotes included.                   *)
(***************************************************************************)
EXTENDS JobSafety

CONSTANTS
  Sources, Destinations,  \* endpoints the user types or picks
  Backups,                \* backup directories the user types
  CustomFlags,            \* what the user types in the custom-flags row
  Toggled,                \* the typed options whose rows are used
  MaxEdits,               \* bound: how many rows the user changes
  LinksBefore, LinksAfter,\* the symbolic links, and after one was turned
  Demo,                   \* the path of the demo directory in the data directory
  NoJob

ASSUME JobFormAssumption ==
  /\ MaxEdits \in Nat
  /\ Demo \in Seq(STRING)
  /\ Toggled \subseteq TypedOptions

(* What the rows take: texts of any kind, and flags whose quoted words are *)
(* flags without quotes.                                                   *)
ASSUME TypedAssumption ==
  Sources \cup Destinations \cup Backups
    \subseteq [kind : {"local", "rclone", "ssh", "backend", "empty", "malformed"},
               host : STRING, path : Seq(STRING)]

PlainFlags == [no : BOOLEAN, key : STRING, tail : {<< >>}]
QuotedFlags == [no : BOOLEAN, key : STRING, tail : Seq(PlainFlags)]

ASSUME FlagsAssumption == CustomFlags \subseteq Seq(QuotedFlags)

(* A link that is turned stays a link; no path a link leads to passes      *)
(* through a link or has one below it, before or after; and no link is     *)
(* below the current directory, where a tool looks for a text like ":x:y". *)
ASSUME LinksAssumption ==
  /\ DOMAIN LinksBefore = DOMAIN LinksAfter
  /\ \A l \in DOMAIN LinksBefore :
       /\ l \in Seq(STRING) /\ l # << >> /\ l[1] # "cwd"
       /\ \A target \in {LinksBefore[l], LinksAfter[l]} :
            /\ target \in Seq(STRING)
            /\ \A k \in DOMAIN LinksBefore : ~Inside(target, k) /\ ~Inside(k, target)

VARIABLES
  form,     \* the rows
  edits,    \* how many were changed
  shown,    \* the preview and the risk label
  links,    \* the symbolic links of the moment
  dialog,   \* the job and the warnings the open dialog names
  queued,   \* a job in the queue with the warnings accepted for it
  ran,      \* the command that was started
  profile,  \* the saved profile
  loaded    \* the stored job that was last put into the rows

formVars == <<form, edits, shown, links, dialog, queued, ran, profile, loaded>>

DemoEndpoint(name) == [kind |-> "local", host |-> "", path |-> Append(Demo, name)]
EmptyEndpoint == [kind |-> "empty", host |-> "", path |-> << >>]

(* The rows as build leaves them: a copy between the demo directories, or  *)
(* no places when the program's own directories are not private.           *)
Prefill(pathsReady) ==
  [tool |-> "rsync", op |-> "copy",
   source |-> IF pathsReady THEN DemoEndpoint("src") ELSE EmptyEndpoint,
   destination |-> IF pathsReady THEN DemoEndpoint("dst") ELSE EmptyEndpoint,
   delete |-> FALSE, dry |-> FALSE, typed |-> {}, backup |-> NoBackup, flags |-> << >>]

(* read_spec: what the rows say, or why they say nothing.                  *)
Unreadable(f, ls) ==
  \/ f.source.kind = "empty" \/ f.destination.kind = "empty"
  \/ ~FlagsAccepted(f.tool, f.flags)
  \/ PathsRefused(f, ls)

Readable == ~Unreadable(form, links)

(* refresh_preview and set_risk.  The preview of a job that cannot be      *)
(* built is the error.                                                     *)
View(f, ls) ==
  IF Unreadable(f, ls) THEN [preview |-> <<"unreadable">>, risk |-> "none", red |-> FALSE]
  ELSE [preview |-> IF CannotPrepare(f, ls) THEN <<"error">> ELSE <<Resolved(f, ls), Tokens(f)>>,
        risk |-> Risk(f),
        red |-> Risk(f) = "destructive" \/ PathWarnings(f, ls) # {}]

(* Every row refreshes the preview when it changes.                        *)
SetRows(f) ==
  /\ form' = f
  /\ shown' = View(f, links)

-----------------------------------------------------------------------------
(* The user's edits.  Bound: none once a job left the form.                *)

Editing ==
  /\ dialog = NoJob /\ queued = NoJob /\ ran = NoJob /\ profile = NoJob
  /\ edits < MaxEdits

EditRows(f) ==
  /\ Editing
  /\ f # form
  /\ SetRows(f)
  /\ edits' = edits + 1
  /\ loaded' = NoJob
  /\ UNCHANGED <<links, dialog, queued, ran, profile>>

ChooseTool(t) == EditRows([form EXCEPT !.tool = t])
ChooseOp(op) == EditRows([form EXCEPT !.op = op])
TypeSource(e) == EditRows([form EXCEPT !.source = e])
TypeDestination(e) == EditRows([form EXCEPT !.destination = e])
SwitchDelete == EditRows([form EXCEPT !.delete = ~@])
ToggleOption(o) == EditRows([form EXCEPT !.typed = SymDiff(@, {o})])
TypeBackup(b) == EditRows([form EXCEPT !.backup = b])
TypeFlags(fs) == EditRows([form EXCEPT !.flags = fs])

(* select_rclone_if_remote: a picked remote drives the tool row.           *)
ToolFor(t, e) == IF e.kind = "rclone" THEN "rclone" ELSE t

PickSource(e) == EditRows([form EXCEPT !.source = e, !.tool = ToolFor(@, e)])
PickDestination(e) == EditRows([form EXCEPT !.destination = e, !.tool = ToolFor(@, e)])

-----------------------------------------------------------------------------
(* A stored job comes back.  The rows of the options are set one by one;   *)
(* the flags are joined with spaces, which loses the quotes.               *)

Unquoted(fs) ==
  FlattenSeq([i \in 1 .. Len(fs) |-> <<[fs[i] EXCEPT !.tail = << >>]>> \o fs[i].tail])

(* Slip: the Resync row keeps what it had.                                 *)
ApplySpecKeepingResync(f, s) ==
  [s EXCEPT !.dry = FALSE, !.flags = Unquoted(@),
            !.typed = (@ \ {"resync"}) \cup (f.typed \cap {"resync"})]

ApplySpec(f, s) == [s EXCEPT !.dry = FALSE, !.flags = Unquoted(@)]

LoadSpec(s) ==
  /\ SetRows(ApplySpec(form, s))
  /\ loaded' = s

(* The assistant's scenarios as to_spec fills them in.  Bound: a scenario, *)
(* which fills every row, counts as two edits.                             *)
Scenarios ==
  {[tool |-> "rsync", op |-> "copy", delete |-> FALSE, typed |-> {}],
   [tool |-> "rsync", op |-> "copy", delete |-> FALSE, typed |-> {"exclude"}],
   [tool |-> "rclone", op |-> "copy", delete |-> FALSE, typed |-> {}],
   [tool |-> "rsync", op |-> "sync", delete |-> TRUE, typed |-> {}],
   [tool |-> "rclone", op |-> "sync", delete |-> TRUE, typed |-> {}]}

ToSpec(sc, src, dst) ==
  [tool |-> sc.tool, op |-> sc.op, source |-> src, destination |-> dst, delete |-> sc.delete,
   dry |-> FALSE, typed |-> sc.typed, backup |-> NoBackup, flags |-> << >>]

OpenScenario(sc, src, dst) ==
  /\ Editing
  /\ edits' = edits + 2 /\ edits' <= MaxEdits
  /\ LoadSpec(ToSpec(sc, src, dst))
  /\ UNCHANGED <<links, dialog, queued, ran, profile>>

(* save_profile refuses what must not be kept.                             *)
Storable(s, ls) == ~HoldsSecret(s) /\ ~PathsRefused(s, ls)

SaveProfile ==
  /\ Readable /\ Storable(form, links)
  /\ dialog = NoJob /\ queued = NoJob /\ ran = NoJob /\ profile = NoJob
  /\ profile' = form
  /\ UNCHANGED <<form, edits, shown, links, dialog, queued, ran, loaded>>

DeleteProfile ==
  /\ profile # NoJob /\ dialog = NoJob
  /\ profile' = NoJob
  /\ UNCHANGED <<form, edits, shown, links, dialog, queued, ran, loaded>>

LoadProfile ==
  /\ profile # NoJob /\ loaded = NoJob
  /\ LoadSpec(profile)
  /\ UNCHANGED <<edits, links, dialog, queued, ran, profile>>

(* "Re-run": the job insert_job recorded is the resolved one.              *)
Rerun ==
  /\ ran # NoJob /\ loaded = NoJob
  /\ LoadSpec(ran.spec)
  /\ UNCHANGED <<edits, links, dialog, queued, ran, profile>>

(* The program is started again: the form is new, what was stored stays.   *)
Reopen ==
  /\ dialog = NoJob /\ queued = NoJob
  /\ \E pathsReady \in BOOLEAN : SetRows(Prefill(pathsReady))
  /\ loaded' = NoJob
  /\ UNCHANGED <<edits, links, dialog, queued, ran, profile>>

-----------------------------------------------------------------------------
(* The gate.  `confirm` is the setting confirm_destructive of the moment.  *)

NeedsDialog(confirm) ==
  (Risk(form) = "destructive" /\ confirm) \/ PathWarnings(form, links) # {}

(* A launch looks at the links several times: it judges the paths (1),     *)
(* prepares the job, which checks them once more (2), and resolves the     *)
(* source (3), the destination (4) and the backup directory (5).  Another  *)
(* program may turn the link before look `turn`; 6 is none of them.  One   *)
(* call of validate_paths is one look.                                     *)
Turns == 1 .. 6

Look(turn, i) == IF i < turn THEN links ELSE LinksAfter

(* path_warnings: paths that are refused give no warning.                  *)
WarningsOrNone(s, ls) == IF PathsRefused(s, ls) THEN {} ELSE PathWarnings(s, ls)

(* prepare_execution.  What it starts runs with the places of the last     *)
(* looks, which nobody compares with those that were judged.               *)
Prepared(s, agreed, asked, confirm, turn) ==
  IF \/ CannotPrepare(s, Look(turn, 2))
     \/ CannotResolve(s.tool, Look(turn, 3), s.source)
     \/ CannotResolve(s.tool, Look(turn, 4), s.destination)
     \/ s.backup # NoBackup /\ CannotResolve(s.tool, Look(turn, 5), s.backup)
  THEN NoJob
  ELSE [spec |-> ResolvedBy(s, Look(turn, 3), Look(turn, 4), Look(turn, 5)),
        agreed |-> agreed, asked |-> asked, confirm |-> confirm,
        turned |-> turn \in 2 .. 5 /\ links # LinksAfter]

(* run and QueueView::launch: the paths are judged again, and a verdict    *)
(* other than the accepted one starts nothing.                             *)
Launched(s, warnings, asked, confirm, turn) ==
  IF WarningsOrNone(s, Look(turn, 1)) = warnings
  THEN Prepared(s, warnings, asked, confirm, turn) ELSE NoJob

(* run: a changed verdict refreshes the preview.                           *)
Run(warnings, asked, confirm, turn) ==
  /\ links' = Look(turn, 5)
  /\ ran' = IF Readable THEN Launched(form, warnings, asked, confirm, turn) ELSE NoJob
  /\ shown' = IF Readable /\ WarningsOrNone(form, Look(turn, 1)) # warnings
              THEN View(form, links') ELSE shown

Ready == dialog = NoJob /\ queued = NoJob /\ ran = NoJob /\ profile = NoJob /\ Readable

(* on_start and add_to_queue.                                              *)
OnStart(confirm, turn) ==
  /\ Ready
  /\ IF NeedsDialog(confirm)
     THEN /\ dialog' = [of |-> "start", spec |-> form, warnings |-> PathWarnings(form, links)]
          /\ UNCHANGED <<ran, shown, links>>
     ELSE /\ Run({}, FALSE, confirm, turn)
          /\ UNCHANGED dialog
  /\ loaded' = NoJob
  /\ UNCHANGED <<form, edits, queued, profile>>

AddToQueue(confirm) ==
  /\ Ready
  /\ IF NeedsDialog(confirm)
     THEN /\ dialog' = [of |-> "queue", spec |-> form, warnings |-> PathWarnings(form, links)]
          /\ UNCHANGED queued
     ELSE /\ queued' = [spec |-> form, warnings |-> {}, asked |-> FALSE, confirm |-> confirm]
          /\ UNCHANGED dialog
  /\ loaded' = NoJob
  /\ UNCHANGED <<form, edits, shown, links, ran, profile>>

(* The answers: "Run anyway" reads the rows again, "Dry-run first" runs    *)
(* them dry whatever the warnings, "Add to queue", and none.               *)
RunAnyway(turn) ==
  /\ dialog # NoJob /\ dialog.of = "start"
  /\ Run(dialog.warnings, TRUE, TRUE, turn)
  /\ dialog' = NoJob
  /\ UNCHANGED <<form, edits, queued, profile, loaded>>

DryLaunched(asked, turn) ==
  IF Readable THEN Prepared([form EXCEPT !.dry = TRUE], {}, asked, TRUE, turn) ELSE NoJob

DryRunFirst(turn) ==
  /\ dialog # NoJob /\ dialog.of = "start"
  /\ links' = Look(turn, 5)
  /\ ran' = DryLaunched(TRUE, turn)
  /\ dialog' = NoJob
  /\ UNCHANGED <<form, edits, shown, queued, profile, loaded>>

(* The button of its own asks nothing.                                     *)
DryRun(turn) ==
  /\ Ready
  /\ links' = Look(turn, 5)
  /\ ran' = DryLaunched(FALSE, turn)
  /\ loaded' = NoJob
  /\ UNCHANGED <<form, edits, shown, dialog, queued, profile>>

AddAnyway ==
  /\ dialog # NoJob /\ dialog.of = "queue"
  /\ queued' = [spec |-> dialog.spec, warnings |-> dialog.warnings, asked |-> TRUE, confirm |-> TRUE]
  /\ dialog' = NoJob
  /\ UNCHANGED <<form, edits, shown, links, ran, profile, loaded>>

Dismiss ==
  /\ dialog # NoJob
  /\ dialog' = NoJob
  /\ UNCHANGED <<form, edits, shown, links, queued, ran, profile, loaded>>

LaunchQueued(turn) ==
  /\ queued # NoJob
  /\ links' = Look(turn, 5)
  /\ ran' = IF PathsRefused(queued.spec, Look(turn, 1)) THEN NoJob
            ELSE Launched(queued.spec, queued.warnings, queued.asked, queued.confirm, turn)
  /\ queued' = NoJob
  /\ UNCHANGED <<form, edits, shown, dialog, profile, loaded>>

(* Another program turns a link while the job waits.                       *)
TurnLink ==
  /\ dialog # NoJob \/ queued # NoJob \/ ran # NoJob
  /\ links = LinksBefore
  /\ links' = LinksAfter
  /\ UNCHANGED <<form, edits, shown, dialog, queued, ran, profile, loaded>>

-----------------------------------------------------------------------------
FormInit ==
  /\ form \in {Prefill(pathsReady) : pathsReady \in BOOLEAN} /\ edits = 0
  /\ links = LinksBefore
  /\ shown = View(form, LinksBefore)
  /\ dialog = NoJob /\ queued = NoJob /\ ran = NoJob
  /\ profile = NoJob /\ loaded = NoJob

FormNext ==
  \/ \E t \in Tools : ChooseTool(t)
  \/ \E op \in OpKinds : ChooseOp(op)
  \/ \E e \in Sources : TypeSource(e) \/ PickSource(e)
  \/ \E e \in Destinations : TypeDestination(e) \/ PickDestination(e)
  \/ SwitchDelete
  \/ \E o \in Toggled : ToggleOption(o)
  \/ \E b \in Backups : TypeBackup(b)
  \/ \E fs \in CustomFlags : TypeFlags(fs)
  \/ \E sc \in Scenarios, src \in Sources, dst \in Destinations : OpenScenario(sc, src, dst)
  \/ SaveProfile \/ LoadProfile \/ DeleteProfile \/ Rerun \/ Reopen
  \/ \E confirm \in BOOLEAN : AddToQueue(confirm) \/ \E turn \in Turns : OnStart(confirm, turn)
  \/ \E turn \in Turns : RunAnyway(turn) \/ DryRunFirst(turn) \/ DryRun(turn) \/ LaunchQueued(turn)
  \/ AddAnyway \/ Dismiss \/ TurnLink

FormSpec == FormInit /\ [][FormNext]_formVars

-----------------------------------------------------------------------------
(* The options of a tool that have a row.                                  *)
Rows(tool) == Supported(tool, "bisync") \cup {"backup-dir", "dry-run"}

(* The rows a custom flag names by another name than theirs.               *)
Renamed(s) ==
  {Means(s.tool, s.flags[i].key) : i \in {j \in DOMAIN s.flags :
                                            Means(s.tool, s.flags[j].key) # s.flags[j].key}}

(* The command line as the tool reads it, and the RC payload, mean the     *)
(* rows: no custom flag gives or takes back an option that has a row, a    *)
(* dry run stays dry, and the preview is of the rows of the moment.  The   *)
(* exception is a row an accepted flag names by a name flags.rs does not   *)
(* know, rsync's Checksum and Compress (--no-c, --compress-choice=none).   *)
(* (flags.rs:33-102, spec.rs:277-318, rc.rs:83-138, new_job.rs:706-724)    *)
CommandMeansForm ==
  /\ links = LinksBefore => shown = View(form, links)
  /\ Readable =>
       \A dry \in BOOLEAN :
          LET s == [form EXCEPT !.dry = dry]
          IN  /\ (Effective(Tokens(s)) \cap Rows(s.tool)) \ Renamed(s) = Asked(s) \ Renamed(s)
              /\ Renamed(s) \subseteq IF s.tool = "rsync" THEN {"checksum", "compress"} ELSE {}
              /\ RcEligible(s) => RcOptions(s) = Asked(s)

(* Two places of which one holds the other.                                *)
Nested(a, b) ==
  /\ a.kind = b.kind /\ a.host = b.host
  /\ Inside(a.path, b.path) \/ Inside(b.path, a.path)

BackendRoot(e) == e.kind = "backend" /\ e.path = << >>

(* A command that is not dry, on two places of which one holds the other,  *)
(* was started only after a dialog that warned of it, whatever the links   *)
(* on the way and whenever one was turned before the launch judged them.   *)
(* Two exceptions: the root of an on-the-fly backend is not seen, and a    *)
(* link turned after the verdict, while the launch resolves the places,    *)
(* is not noticed (path.rs:68-87 and 177-179, spec.rs:104-164 and 249-262, *)
(* new_job.rs:865-889, queue.rs:306-333).                                  *)
ContainmentIsWarned ==
  ran # NoJob /\ ~ran.spec.dry =>
    /\ ran.agreed # {} => ran.asked
    /\ Nested(ran.spec.source, ran.spec.destination) /\ ~ran.turned
         => \/ \E w \in ran.agreed : w.label = "overlap" \/ w.text.what = "root"
            \/ BackendRoot(ran.spec.source) \/ BackendRoot(ran.spec.destination)

(* A stored job comes back as the job it was, and Re-run means the places  *)
(* the run had, through whatever link they were named; a flag that needs   *)
(* quotes is the exception (new_job.rs:560-596, job_details.rs:160-171).   *)
StoredJobReturns ==
  loaded # NoJob /\ (\A i \in DOMAIN loaded.flags : loaded.flags[i].tail = << >>) =>
    /\ Tokens(form) = Tokens([loaded EXCEPT !.dry = FALSE])
    /\ Resolved(form, links) = Resolved([loaded EXCEPT !.dry = FALSE], links)
    /\ ran # NoJob => Resolved(form, links) = [ran.spec EXCEPT !.dry = FALSE]

RsyncCopyDeletes(s) == s.tool = "rsync" /\ s.op = "copy" /\ s.delete

RsyncForces(s) == s.tool = "rsync" /\ \E i \in DOMAIN s.flags : s.flags[i].key = "force"

Removes(r) == MayRemove(r.spec.tool, r.spec.op, Effective(Tokens(r.spec)))

(* With the confirmation switched on, a command that started unasked       *)
(* removes nothing, flags included.  Two exceptions, both rsync's: "copy"  *)
(* with the delete switch, and the custom flag --force, which no check     *)
(* knows (spec.rs:183-207, destructive.rs:45-60, flags.rs:88-94,           *)
(* new_job.rs:761-825).                                                    *)
UnaskedIsHarmless ==
  ran # NoJob /\ ~ran.asked /\ ran.confirm /\ ~RsyncCopyDeletes(ran.spec) /\ ~RsyncForces(ran.spec)
    => ~Removes(ran)

(* "Opt-in and destructive — gated by the destructive-op confirmation      *)
(* flow" (rsync/command.rs:17-18), said of rsync's delete option: with the *)
(* confirmation switched on, no command that has it starts unasked.        *)
DeletionIsConfirmed ==
  ran # NoJob /\ ~ran.asked /\ ran.confirm /\ ran.spec.tool = "rsync" =>
    LET options == Effective(Tokens(ran.spec))
    IN  "delete" \in options => "dry-run" \in options
=============================================================================
