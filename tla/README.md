# Cascade: a verification project

TLA+ models of Cascade (a GTK front end for rclone and rsync), the TLC runs that
check them and TLAPS proofs about them. Paths below are relative to
`src/crates/`; `core` is `cascade-core/src`, `gui` is `cascade-gui/src`.

## 1. Inventory

Cascade is one process. GTK callbacks and `glib` futures run one at a time on the
main thread; children are driven by tasks on a shared Tokio runtime, which talk to
the main thread through bounded channels; everything durable is in one SQLite
database.

| component | state it keeps | operations | talks to | hard part |
|---|---|---|---|---|
| `Queue<T>` (`core/job/queue.rs`) | cap, slots in use, pending items | enqueue, set_max, start_ready, complete, remove, move_up/down | the queue page | slot accounting under a moving cap |
| Queue page (`gui/views/queue.rs`) | rows, items and their flags, a `Queue<u64>`, pause | add, pause, remove, move, cancel, clear, launch, end of run, restore | store, settings, process runner | nested pumps, four refusals, saved copy in step, stops |
| Store (`core/storage`) | tables jobs, job_runs, run_logs, profiles, queue_items, settings | one SQL statement or transaction per call | all pages | any call may fail; it outlives the program |
| Job state machine (`core/job/state.rs`) | a status | can_transition_to | (unused by the pages) | does the program obey it? |
| Process runner (`core/process/mod.rs`) | per child: a drive task, two readers, a wait-or-cancel, two channels | spawn, cancel, capture | children, pages | cancel against exit, backpressure, helpers that outlive the leader, timeouts |
| New Job page (`gui/views/new_job.rs`) | the form, the run in progress, the RC daemon | start, dry run, confirm, cancel, queue | runner, RC daemon, store | stale confirmation, retries, cancel at any await |
| RC daemon (`core/rclone/rcd.rs`, `rc.rs`) | a child that accepts transfers | start, call, stop | New Job page, dashboard | late answers, death while polled |
| Start-up (`gui/app.rs`, `ctx.rs`, `core/storage/mod.rs`) | the store of a process, what its clean-up found, the windows of the primary | open, migrate, fail interrupted runs, purge credentials, activate, restore | other processes over the same file | two starts at once, a kill inside a migration, a second window |
| Settings (`core/settings.rs`) | max_parallel, confirm_destructive | load, save | queue and New Job pages | they change between two callbacks |
| Mounts page (`gui/views/mounts.rs`, `core/rclone/mount.rs`) | one row, run and timer per mount | mount, timer, unmount, end of the run | runner, `fusermount`, the kernel | timer and unmount answers against the end; two mounts on one place |
| Schedule dialog (`gui/views/schedule.rs`, `core/schedule.rs`) | unit files, one coroutine per click | stop, write, reload, enable | captures, systemd | partial failure, two dialogs at once |
| Dashboard (`gui/views/dashboard.rs`) | the timers it listed, RC toggle | delete timer, toggle | captures, systemd | late answers |
| Remote browser (`gui/views/remote_browser.rs`) | remotes, selection, path, list | select, up, descend, refresh, add, delete, download | captures | answers out of order |
| New Job form (`gui/views/new_job.rs`, `profiles.rs`, `job_details.rs`, `core/assistant.rs`) | rows, preview, risk label, dialogs | edit, pick, save/load/delete profile, Re-run, scenario, Start, Dry run, Add to queue | job safety, store, queue | paths judged twice with time between; stored jobs coming back into used rows |
| Job safety (`core/job/spec.rs`, `security/path.rs`, `flags.rs`, `destructive.rs`, both `command.rs`, `rc.rs`) | none | validate_paths, risk, build_args | form, queue, mounts | links, containment, last flag wins, tool-dependent deletion |
| Sanitizer, run logs (`security/sanitize.rs`, `core/logs/mod.rs`) | a redactor per stream and per log, log files, temporary files | redact_line, write_line, sanitize_existing_logs | runner, start-up | keys cut by a death, a start that rewrites a live log |
| Detection, parsers, remote configuration | none | pure | callers | boundary cases of texts |

What makes each correct, in one line: the queue hands every item out once, in order
and under the cap; the page's rows, queue, saved queue and history agree and a
launched job is never run again; a running timer has the service it was made with;
the browser acts on the folder it names; the runner loses no line, tells the truth once at
the end and leaves nobody behind; the New Job page runs only what was confirmed
and records what happened; the command that runs means the rows of the form, and
what removes files or mixes a place with itself was agreed to; a mount that runs has
a row; no log holds a key and none loses another line; a start of the program gets
the database, leaves the rows of runs true and shows no old credential.

`PROJECT.json` lists every component, also those without a module, and the hazards
at their lines.

## 2. Modules

```
JobQueue ──► JobScheduler ─────────┐                     JobLifecycle
    └──────► QueueView ── implements ──────────────────────┘
Lists ─────► JobSafety ──► JobForm ┤
                  └──────► Mounts ─┤
Lists ─────────────────► RunLog ───┼─► Parts
                          Startup ─┘
ProcessGroup ──► StreamRun ──┐                           RunContract
            └──► CaptureRun ─┴─► Process ── implements ─────┘
NewJobRun   (uses what Process shows of children and captures)
RemoteBrowser ───┐
ScheduleInstall ─┴─► Pages   (likewise)

proofs: Lists_proofs ──► JobScheduler_proofs, JobForm_proofs ──► Parts_proofs
             └─────────► Process_proofs, Pages_proofs, QueueView_proofs
        NewJobRun_proofs
```

* **Lists** is what is left of a list when some of it is looked at (`Kept`): the rows
  that `clear_finished` keeps, the lines in a channel, the options a builder pushes. It
  is a recursive function over the prefixes, because nothing can be proved about
  `SelectSeq`.

* **JobQueue** has one operator per method of `Queue<T>`, from the queue before the
  call to the queue after; `start_ready`'s loop is given in closed form (how many
  items fit, which ones, the queue that is left).
* **JobScheduler** is the protocol around it: a client that enqueues an item it does
  not hold, completes an item once for each time it was handed out, and edits pending
  items, while the settings screen moves the cap. `active` is the client's ledger.
* **QueueView** is the page with the two tables it writes, the settings it reads, its
  children, the stop of the application at any step and the next start. A callback
  that pumps is its first step plus two steps per launched job (`BeginLaunch`, up to
  and including its `persist()`; then `RefuseLaunch` or `StartRun`), because
  `launch()` pumps again from inside the loop when it refuses a job and because the
  application may die between the two. `ready` is the list being launched, the jobs
  of a nested call in front. No other callback runs until it is empty. `verdict` is
  what `validate_paths` says, `ack` the warnings the user accepted; a spec is reduced
  to whether it holds a secret and whether its paths may change verdict.
  `StoreMayFail` lets any statement on the database fail; each failure does what the
  code does with it (logged, ignored, or a refusal).
* **JobLifecycle** is `can_transition_to` as a specification of every job. The pages
  never use the Rust type; `QueueView!StatusOf` maps the history row, or without one
  the place of the job in the queue, to a status.
* **ProcessGroup** is the child: a leader, one helper that inherits its pipes, exits,
  signals. It is external except for the signals sent.
* **StreamRun** is `drive()`: the task, a reader per pipe, the wait-or-cancel branch,
  the bounded event channel and the holder of the `RunHandle`. A step ends at each
  await. Progress reports are `try_send`, lines are `send().await`.
* **CaptureRun** is `drive_capture()`: wait and readers joined inside one timeout.
* **Process** lets one child be driven by either and states the properties;
  **RunContract** is what a reader of the events may rely on.
* **NewJobRun** is Start, Dry run, the dialog and Cancel of the New Job page, the
  streamed run and the RC run, whose coroutine is cut at each await (`page`). A
  captured `rclone rc` call is `call`: sent, then answered, failed or lost.

* **RemoteBrowser** is that page; a place is a remote and a depth, a folder holds one
  folder and one file. Each captured command is a slot of `calls`; answers come in any
  order and none is cancelled. `CurrentPath` is computed as the code does, from the
  position in the combo row, so that a changed list of remotes can change its meaning.
* **ScheduleInstall** is the installation of the units of one job name, cut at each
  `systemctl`, by two dialogs (closing one does not stop its coroutine), the deletion
  of the timer from the dashboard, and systemd: the files on disk, the units it has
  loaded, whether the timer is enabled and running. Each command makes systemd read the
  files, may fail with or without its effect, and any other program may make it reload.
  `write_user_units` fails or dies before, between or after its renames.
* **Pages** puts the two under one specification; they share nothing but the main loop.
* **JobSafety** has no state: `validate_paths` with every helper of `path.rs`, the
  checks of custom flags, `risk`, `prepare_execution` and the three builders of
  commands, as operators on a job and the symbolic links of the moment. An endpoint is a
  kind, a host and a sequence of components; a flag is its name as it is typed, its
  `no-` and the words that only quotes hold together. What `flags.rs` compares are those
  names; what a tool does with them is `Means` (rsync's other names of a row's option),
  `Effective` (the last token about an option holds) and `MayRemove`, which are external
  and know more names than the code does.
* **JobForm** is the form: every row, the preview and the risk label that follow each
  change, the gate of Start and of Add to queue, the dialogs, the second look at the
  paths when the run or the queued job begins, and the ways back into the rows
  (profile, scenario, Re-run, a new start). `TurnLink` is another program turning a
  symbolic link while a dialog or a queued job waits; a link may also be turned between
  any two looks of one launch (`Look`, `Turns`): each `validate_paths` is one look, the
  verdict is the first, and the places that run are those of the last. `ran` is the
  command that began, with what was agreed and asked, and whether a link was turned
  after the verdict. It gives `validate_paths` and `prepare_execution` what
  `QueueView` and `NewJobRun` abstract as `verdict` and consent.
* **Mounts** is the mounts page: `DoMount`, the timer, the watcher of the run's events,
  the unmount button and its capture; rclone's look at the place, its mount and its
  death, the stack of mounts on a place, and `fusermount` are its environment. A place
  may be reached by two spellings.
* **RunLog** is the path of a line from a child's stream through the reader's redactor,
  the channel and the log's own redactor to the file, while other starts of the program
  rewrite the directory's logs through temporary files and may fail or be killed at each
  step. A line of more than 64 KiB loses its end, and with it a marker of a key there
  (`CutMarkers`), before any redactor sees it.
* **Startup** is `AppCtx::new` cut at each database access, run by several processes
  over one file: `current_version` outside of any transaction, the migration's write
  lock, the in-memory fallback, `fail_interrupted_runs`, the two halves of the purge,
  and the activation that makes a primary or another window of it. The disk may refuse
  an access at each of them (`Refused`): `OpenFails` is every error of `Paths::ensure`
  and `Store::open`, the commit of the migration included, `FinishFails` a failing
  `finish_run`. Its windows add, remove and launch jobs; `ProcessEnds` kills anybody
  anywhere.
* **Parts** puts the five of these that share no state under one specification: a
  behaviour is one of a single part, chosen at the start among `Shown`. The others
  rest, so that nothing is multiplied; each part keeps its full specification
  (`Spec`, `FormSpec`, `MountsSpec`, `LogSpec`, `StartupSpec`), and that `PartsSpec`
  implements each of them is itself proved.

Operators named in a comment as a *slip* are plausible mistakes, each in front of the
definition it replaces in a mutant run; no specification uses them.

## 3. Runs

| run | asks | bounds |
|---|---|---|
| `parts` | queue: types, slots, no duplicates, FIFO, slots filled; form: `CommandMeansForm`, `ContainmentIsWarned`, `StoredJobReturns`, `UnaskedIsHarmless`; mounts: `RunningHasRow`, `MountRowEnds`; logs: `NoKeyMaterial`, `OnlyKeysSwallowed`, `LiveLogKept`; start-up: `LoneStartOpensStore`, `RunRowsTrue`, `NoSecretsServed` | 4 items, caps 0..3 (0 is clamped); 3 edits, of which a scenario is 2, one link turned; 2 mounts, 2 unmounts in flight; 3 lines on 2 streams, channel of 1, 2 further starts; 2 processes, 3 starts, 2 runs, 2 windows, 1 refused access |
| `deletion_asked` (violated) | what may delete is confirmed first | the form of `parts` |
| `two_windows` (violated) | the saved queue holds what is pending | the start-up of `parts` |
| `queue_view` | `SlotsAccounted`, `CopiesAgree` (rows, queue, saved queue), `RunRowsFollowItems`, `NoStall`, `StartsUnderCap`, `NothingUnattended`, `JobLifecycle` | 3 jobs, cap 1..2, one of them with changing paths, one stop |
| `queue_view_live` | `QueueMoves`: waiting jobs start, cancelled ones leave, with a failing database | 2 jobs, one with a secret and one with changing paths, one stop |
| `queue_stop` (violated) | the queue survives a stop | 2 jobs, two stops |
| `process` | `LinesConserved`, `CaptureIsWhole`, `TerminationIsWhole`, `RunContract`, `EveryRunEnds` | channel of 2, pipes of 1, two numbered lines and any number of progress reports |
| `process_cancel` (violated) | cancel() ends the run | no numbered lines |
| `new_job_run` | `RunningRowIsCurrent`, `LiveRunsConsented`, `CompletedIsTrue`, `CancelEndsRun` | 2 runs, 2 submissions, one local and one remote destructive form |
| `pages` | browser: sends what it names; schedules: matched pair, consent, truthful "Scheduled", files change only while stopped; both: waits end | 2 remotes, depth 1, 3 captures; 2 dialogs, 3 clicks, 1 crash |
| `browser_download` (violated) | a click on a file downloads that file | 2 captures |
| `schedule_overlap` (violated) | a timer is stopped before its files are replaced | 2 clicks |

Some properties name the cases they leave out, each at the code that leaves it open:

* `CommandMeansForm`: rsync's Checksum and Compress rows, when an accepted flag names
  them by a name `flags.rs` does not know;
* `UnaskedIsHarmless`: rsync's copy with the delete switch (`deletion_asked`) and its
  `--force`;
* `ContainmentIsWarned`: a link turned after the launch's verdict, and the root of an
  on-the-fly backend;
* `NoKeyMaterial` and `OnlyKeysSwallowed`: a key whose marker is beyond 64 KiB of its
  line (`MarkerCutOff`); `LiveLogKept`: a log with a cut line;
* `LoneStartOpensStore`: a start to which the disk refused an access;
* `RunRowsTrue` is about ends that `finish_run` could write, `NoSecretsServed` about a
  file that could be read and written;
* `StoredJobReturns`: a flag that needs quotes.

Four properties have several clauses, one per way to fail: `CopiesAgree` (rows against
queue, queue against saved queue), `QueueMoves` (a waiting job, a cancelled one),
`LinesConserved` (lines on their way, Finished last, room in the channel) and
`EveryRunEnds` (the group ends, a cancel is taken, a capture is asked for).

Why these bounds are enough. Three jobs and two slots give a job that runs, one that
is refused and one that waits, in every order, and a nested pump inside a list of two;
a fourth only repeats one of these parts. A job is added once, since a second copy is
another job to the code. One stop reaches restore from every state; the two-stop case
is `queue_stop`. A channel of two is full, half full and empty while both readers hold
a line. Two RC runs show what the first leaves to the second (flag, daemon, row); two
submissions show one lost answer and its retry and the last attempt failing.
In `parts`, three edits reach every pair of rows that interact and a third that undoes
one (a flag that takes back a row's option; a backup directory inside the destination
through a link); the places are one source of each kind and every way to name a place
inside it, around it or nowhere near it. Two mounts meet on one place or do not, and
two unmounts give an answer about the other mount's row. Three lines are a
whole key on one stream, or one that is cut there while the other goes on; a channel of one is full or empty; two further
starts are one that is killed and one that meets its temporary file. Two processes are
enough to overlap in every pair of steps, and the third start is one after a kill.
Three captures are a deletion or addition with the two listings its answer starts, or
two late listings and a newer one. Three clicks give an installation to be replaced and
two that overlap, or an installation, its deletion and a new one; the properties on
matching pairs and on unarmed files are stated for histories without overlap
(`overlapped`), `schedule_overlap` is what happens with one.

`CHECK_DEADLOCK FALSE` is set for `Process` and `Parts` only: a run that is over, a
log whose child ended and a form whose job left take no step.

### What the violated runs show

* `queue_stop`: `enqueue()` persists, and the restore loop calls it per job
  (`gui/views/queue.rs:137-139`). After its first turn `queue_items` holds one job; a
  stop there loses the others. Saving once after the loop would do.
* `deletion_asked`: `JobSpec::risk` hands the delete switch to `classify`, which looks
  at it for Sync only, so an rsync Copy with "Delete extra files at destination" is
  Caution; Start and Add to queue ask for Destructive only, and `rsync -a --delete`
  runs at the first click. `UnaskedIsHarmless` holds with that one job taken out.
* `two_windows`: a second activation (another start of the program) builds a window
  with a queue of its own from the same table; each window's `persist()` replaces the
  table by its own jobs, and both may launch the restored one.
* `process_cancel`: the leader exits, `wait_or_cancel` is done, a helper holds the
  pipes; from then on nobody reads the cancel channel and `Finished` waits for the
  helper.
* `browser_download`: two listings are in flight; the older one's entries are appended
  under the newer path, and `download` joins the clicked name to that path.
* `schedule_overlap`: the second dialog's `disable` is answered, the first one's
  `enable` takes effect, the second one writes its files under the running timer.
  Asking again after the write, or one coroutine per timer name, would do.

More disagreements follow from what the models show, without a run of their own.

* `persist()` only logs a failing `queue_replace`, and `launch()` starts the job
  nevertheless; a crash then brings it back as pending, against `queue.rs:29-30`
  (`CopiesAgree` asks for agreement where writes succeed).
* A capture that times out after its leader was reaped leaves a helper alive, since
  `force_kill` asks the reaped child for its pid and gets `None`, against
  `THREAT_MODEL.md:26` (`TerminationIsWhole` speaks of leaders not reaped).
* `validate_extra` compares long names after taking one `no-` off, so rsync's `--no-c`,
  `--no-z`, `--zc` and `--compress-choice=none` pass; custom flags come last and
  undo the Checksum or the Compress row, against `flags.rs:27-28`, which says that flags
  that override application safety controls are refused (`Renamed` in
  `CommandMeansForm`).
* rsync's `--force` deletes a directory with its contents where a file replaces it. It
  passes `validate_extra`, and `has_dangerous_flags` does not look for it, so a Copy
  with it starts unasked, against `spec.rs:192-194` (`RsyncForces` in
  `UnaskedIsHarmless`).
* A launch looks at the paths again for every step it takes and compares the warnings
  once. `path.rs:177-179` and the residual risks of `THREAT_MODEL.md` say that the
  window is narrowed, not closed, and that is what `ContainmentIsWarned` states.

## 4. Fairness

* Queue page: launches of a pump and the restore loop run on (they are loops of one
  callback); the consumer task of an ended child is woken (GTK polls ready futures).
  Nothing is assumed of the user, of stops, or of children: `QueueMoves` has "every
  transfer ends" and "a cancelled child ends" as explicit antecedents, one per clause,
  and `process_cancel` shows that the code does not give the second (a helper outliving
  its leader).
* Process: Tokio polls futures that can move, its timers fire, and the holder keeps
  receiving (every consumer in the code loops to `Finished`). The group may run, write
  and ignore SIGTERM for ever.
* New Job: coroutines and timers run; a captured call is answered, which is
  `CaptureAnswers`, a clause of the process model's `EveryRunEnds`. Nothing is assumed of streamed children,
  daemons or transfers, so `CancelEndsRun` is about RC runs; a streamed run that is
  cancelled ends when `process_cancel` allows it to.
* Parts: the watcher of a mount is a task of the main loop, which polls it when the run's
  channel has an event. Neither `fusermount` nor rclone has to do anything.
* Pages: a capture is answered (`CaptureAnswers`), and the coroutine that waits for it
  is polled. Nothing is assumed of the user, of other programs or of crashes.

## 5. Proofs

Every safety invariant and every action property that a passing run checks is a
theorem, and so are the two refinements (`RunContract`, `JobLifecycle`). Each is for
every value of the constants; the assumptions are the named `ASSUME`s of the modules,
which TLC evaluates in the runs.

| module | theorems | invariant |
|---|---|---|
| `JobScheduler_proofs` | `TypeCorrect`, `SlotsNeverLeak`, `NeverHandedOutTwice`, `CapAlwaysHolds`, `StartsInOrder`, `StartingFillsSlots` | `IInv` |
| `QueueView_proofs` | `QueueHangsTogether`, `NoSlotIsLost`, `QueueNeverStalls`, `NoStartBeyondTheCap`, `NothingStartsUnattended`; `StoreFollows`, `CopiesStayInOrder`, `HistoryFollowsItems`, `QueueObeysLifecycle` | `QueueIInv`, `StoreIInv` |
| `NewJobRun_proofs` | `RunIsTheCurrentOne`, `OnlyTheCurrentRowRuns`, `LiveRunsAreConsented`, `CompletedMeansSuccess` | `NewJobIInv` |
| `JobForm_proofs` | `CommandIsTheForm`, `ContainmentWasWarned`, `StoredJobsReturn`, `UnaskedRunsAreHarmless` | `FormIInv` |
| `Process_proofs` | `RunsImplementTheContract`, `OutputIsWhole`, `TerminationsAreWhole`, `LinesAreConserved` | `StreamIInv`, `CaptureIInv`, `LinesIInv` |
| `Pages_proofs` | `SchedulesKeepOrder`, `ArmedPairAlwaysMatches`, `UnattendedWasAgreed`, `ScheduledIsAlwaysArmed`, `FilesOnlyChangeUnarmed`; `PickIsWhatIsNamed` | `ScheduleIInv`, `BrowserIInv` |
| `Parts_proofs` | mounts: `RunningMountsHaveRows`, `GoneRowsStayAway`; logs: `SecretsStayInTheReader`, `OnlyLinesOfKeysAreLost`, `LiveLogsAreKept`; start-up: `LoneStartsOpenTheStore`, `RowsOfRunsAreTrue`, `OldSecretsAreNotServed`; `PartsKeepTheirPromises` | `MountsIInv`, `LogIInv`, `StartupIInv` |
| `Lists_proofs` | lemmas only | |

* **Queue.** `CapHolds` is not inductive alone: a step of `Start` is bounded by the
  queue's own cap, so `queue.max <= MaxCap` goes with it. `SlotsAccounted` needs
  `NoDuplicates`: `running` grows by the number of items taken, `active` by the number of
  *distinct* items not already in it, and the two agree only because pending positions
  hold distinct items that are not active. The lemma on `Start` counts the image of an
  injective prefix of `pending`. The action properties follow from `IInv` at the step.
* **Queue page.** One callback edits the queue, the rows and the items several times
  before its step ends, so the invariant (`Ledger`) is a predicate of a queue, a list of
  ready jobs, rows and items, kept by each edit: the pending jobs are the last rows of
  the box in the queue's order, a job waits exactly while it is pending or ready and
  never both, and every slot is a launched job or a ready one. `NoStall` needs which
  callbacks still owe a pump. `StoreIInv` is about a database that accepts its writes
  (`CopiesAgree` and `RunRowsFollowItems` say so themselves): a job that is waiting has
  no run, which is what makes the run rows and the saved queue functions of the items.
  `QueueObeysLifecycle` has `~StoreMayFail` as its hypothesis, the value the run that
  checks it gives: with a failing statement a removed job's row stays and brings it back.
* **New Job run.** Only the current row may say running: that needs which stages of the
  coroutine have a row, that the daemon's transfer being watched is the one its answer
  named, and that an answer of success is final.
* **New Job form.** The command means the rows because of two facts about a command line
  of any length: an option that only its builder may push is in force exactly when it is
  pushed (`EffectiveOf`), and an accepted custom flag means an option that has a row only
  if it is one of rsync's other names of Checksum and Compress (`FlagsLeaveRows`). That
  containment is warned of is not inductive: `Launched` compares the warnings of its
  first look with those agreed to, the places a run gets are those of its last, and the
  two looks see the same links unless one was turned between them, which the command
  remembers. `ContainmentSeen` says that places of which one holds the other after
  resolution are warned of at the look that resolves them, whatever their spelling. What a
  link leads to has no link on it, so resolving again, with any links, changes nothing
  (`ResolvedJob`); this is why Re-run means the places the run had. `OneAtATime` carries
  an agreement from the dialog to the queue to the run.
* **Start-up.** That a lone start to which nothing was refused has the file needs
  `Meetings`: two processes that are starting have met, and a version that was read and
  is outdated was overtaken by one of them or misread; besides, the write lock is held
  by a process that is migrating. That no credential is shown needs `Purges`: nothing adds one, so what a purge
  of the file has found contains whatever is left in it, from its reading on. The row of
  a run is true because `finish_run` writes by id and `fail_interrupted_runs` touches
  running rows only.
* **Mounts.** `RunningHasRow` needs that ids are given out in order, that only a process
  that ended was heard to have ended, and that the row of one that was heard is gone.
* **Logs.** A redactor is inside a key exactly when the lines it took are
  (`RedactorKnowsTheKey`); the log's redactor sees both streams mixed, but only what the
  readers left, which holds no key, so it swallows nothing. That is `LogIInv`, which
  holds until a marker is cut off; what stays true afterwards is kept apart: the older
  file may be shown once a pass has succeeded (`OldLogState`), and the live file is the
  writer's until one with a cut line is replaced (`LiveState`), because a key whose
  first marker was cut off comes after the mark of that line.
* **Process.** The refinement `Spec => ContractSpec` is one lemma for the child and one
  for what the holder was told. It needs that nothing moves before `Started` is sent,
  that `Started` is the first event of a child that exists and no event of another, and
  that a `Finished` in the channel is of a child that is gone and says its status. A
  capture's output is whole because, until the limit is passed, what was written is no
  more than what was kept plus what is in the pipe, and the answer comes when both
  pipes have ended. Lines are conserved because the numbers delivered, in the channel, in
  a reader's hand and in the pipe, in this order, are 1, 2, ... without a gap, and
  because nothing follows `Finished` into the channel.
* **Pages.** Of a dialog the invariant says which steps were taken and what its staged
  files are; of the timer, the files and what systemd loaded, what they may be while
  some dialog is at each step, for histories without overlap. The browser's page hands
  on what its row names because the label is written in the step that changes the row.
* **Parts.** Every step is a step of one part and stutters in the others, so what is
  proved of each part's specification holds of `PartsSpec`, the one that is
  model-checked.

What the assumptions say of the program's surroundings. `OldLogsAssumption`: a key in an
older log has its first line (a log that was cut in the middle of a key by another
program is not recognised by any line-wise redactor), and its markers are within the
  first 64 KiB of their lines. `TypedAssumption` and
`FlagsAssumption` are types: any texts, any flags. `LinksAssumption`: no path a link
leads to passes through a link or has one below it, before and after the turn, which is
what `canonicalize` returns for one link per path; a turned link stays a link; and none
is below the current directory, where rsync would look for a text like `:x:y`.

Induction over data is done without the library's induction theorems: a set of numbers
that holds 0 and the successor of each of its elements is `Nat`, because its complement
has no least element (`NatInductionSet`, `IntervalInduction` in `Lists_proofs`). From it
come the existence and the values of the recursive functions in the models: `Kept`,
`RedactedUpTo`, and the library's `FlattenSeq`.

Only model-checked are the liveness properties, `QueueMoves`, `EveryRunEnds`,
`CancelEndsRun`, `WaitsEnd` and `MountRowEnds`: they rest on fairness, hence on
`ENABLED`, which the provers do not handle.

## 6. Not modelled, and the plan

Texts (subtitles, previews, log lines), values of options, redaction patterns and
parsing are left out where no property is about them.

* Job safety: the length limit, control characters and encodings are one kind of
  endpoint; a leading "/" of a remote path is left out, and a root of a remote that
  contains the other place is seen by its own warning, not by `check_overlap`. The root
  of an on-the-fly backend (`:backend:`) has no warning in the code; `ContainmentIsWarned`
  names it as its exception. A pattern with a comma becomes several when a stored job is
  reloaded. `CommandMeansForm` is about the options in force, not about what other
  options make of them (rsync's or rclone's `--size-only` beside Checksum, a `--filter`
  before the patterns). An error of `canonicalize` between two looks is the refusal of
  the later one.
* Logs: severity counts, `read_log_tail`, and pruning by age. A live log that holds a
  line of more than 64 KiB is renamed by another start; `LiveLogKept` names it as its
  exception. With the in-memory store, run ids begin again at 1, and
  `LogWriter::create_new` fails on a file that exists.
* Runner: `child.wait()` is taken not to fail; a pid reused between the reap and the
  final SIGKILL.
* New Job: RC credentials, payload texts and version parsing.
* Schedules: the grammar and quoting of unit texts. The notification unit that
  `write_user_units` may write third is the same for every job and is left out, save
  that its failure comes after both renames. Of the dashboard only the timers are
  modelled; a second click on a timer's trash button while its deletion is under way is
  not.
* Add-remote's form, history's list, the log viewer, detection of the tools, the parsers
  of progress and dry runs: texts without state of their own.

What would come next: the settings that move between two callbacks of the New Job page
and the queue are one variable each in two modules, and the history page is not modelled;
a composition of `QueueView` with two windows would turn `two_windows` into a statement
of what the second window may still promise. A stop between `persist()` and `insert_job`
(`gui/views/queue.rs:304`) loses a job from both tables and has no property: the page
promises nothing about it.
