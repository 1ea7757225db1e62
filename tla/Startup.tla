------------------------------- MODULE Startup -------------------------------
(***************************************************************************)
(* The start of the program over a database that outlives it (app.rs,      *)
(* ctx.rs, storage/mod.rs, storage/repo.rs), and the windows of the        *)
(* process that is left: AppCtx::new opens, migrates and cleans the store  *)
(* before the process learns whether another one is running; then it       *)
(* becomes the primary instance, or has the primary build one more window  *)
(* on the primary's own context and ends.                                  *)
(*                                                                         *)
(* The stores are the file, "disk", and an in-memory one per process.      *)
(***************************************************************************)
EXTENDS Naturals, Sequences, SequencesExt, FiniteSets

CONSTANTS
  Processes,   \* the processes that may run
  QueueJobs,   \* what is queued
  MaxRuns,     \* bound: runs started
  MaxWindows,  \* bound: windows of the primary
  MaxStartups, \* bound: starts of the program
  MaxFailures, \* bound: accesses the disk refuses
  NoProcess

ASSUME StartupAssumption ==
  /\ {MaxRuns, MaxWindows, MaxStartups} \subseteq Nat \ {0}
  /\ MaxFailures \in Nat
  /\ NoProcess \notin Processes
  /\ Processes \cap {"none", "disk"} = {}

Target == 2   \* schema::MIGRATIONS.len()
Tables == {"jobs", "profiles", "queue_items", "job_runs", "settings", "run_logs"}

VARIABLES
  version,      \* the row of schema_version, 0 without one
  tables,       \* how many of the migrations the file holds
  lock,         \* the process in a migration's write transaction
  secrets,      \* the tables of the file with legacy rows that hold credentials
  saved,        \* the queue_items of each store
  runs,         \* the rows of job_runs, and what the program was told of each run
  stage,        \* how far each process is
  store,        \* the store it has: "none", "disk" or itself (in memory)
  readVersion,  \* what it read from schema_version
  found,        \* what its purge has found
  met,          \* another process was starting meanwhile
  refused,      \* the disk refused an access of its start
  primary,      \* the primary instance
  windows,      \* the pending jobs of each of its windows
  startups, failures, \* how many so far
  unpurged      \* a purge failed

startupVars == <<version, tables, lock, secrets, saved, runs, stage, store, readVersion, found,
                 met, refused, primary, windows, startups, failures, unpurged>>

Starting(p) == stage[p] \notin {"off", "running"}

Runs == 1 .. MaxRuns
NoRun == [status |-> "absent", told |-> "nothing", in |-> "none"]

(* The disk refuses p an access: an unsafe or unreadable directory, a full *)
(* or failing disk.                                                        *)
Refused(p) ==
  /\ failures < MaxFailures
  /\ failures' = failures + 1
  /\ refused' = [refused EXCEPT ![p] = TRUE]

-----------------------------------------------------------------------------
(* AppCtx::new.  Whoever starts meets those that are starting.             *)
StartProcess(p) ==
  /\ stage[p] = "off" /\ startups < MaxStartups
  /\ startups' = startups + 1
  /\ stage' = [stage EXCEPT ![p] = "opening"]
  /\ met' = [q \in Processes |-> IF q = p THEN \E o \in Processes : Starting(o)
                                 ELSE met[q] \/ Starting(q)]
  /\ UNCHANGED <<version, tables, lock, secrets, saved, runs, store, readVersion, found, refused,
                 primary, windows, failures, unpurged>>

(* The process has its store, the file or one in memory.                   *)
Opened(p, s) ==
  /\ stage' = [stage EXCEPT ![p] = "open"]
  /\ store' = [store EXCEPT ![p] = s]
  /\ readVersion' = [readVersion EXCEPT ![p] = 0]

(* current_version, outside of any transaction; an error reads as 0.       *)
OpenStore(p) ==
  /\ stage[p] = "opening"
  /\ \E read \in {0, version} :
        /\ IF read = version THEN UNCHANGED <<failures, refused>> ELSE Refused(p)
        /\ IF read >= Target THEN Opened(p, "disk")
           ELSE /\ stage' = [stage EXCEPT ![p] = "behind"]
                /\ readVersion' = [readVersion EXCEPT ![p] = read]
                /\ UNCHANGED store
  /\ UNCHANGED <<version, tables, lock, secrets, saved, runs, found, met, primary, windows,
                 startups, unpurged>>

(* Paths::ensure or Store::open fails, at the latest in migrate, whose     *)
(* transaction is then rolled back: the process goes on in memory.         *)
OpenFails(p) ==
  /\ stage[p] \in {"opening", "behind", "migrating"}
  /\ Refused(p)
  /\ Opened(p, p)
  /\ lock' = IF lock = p THEN NoProcess ELSE lock
  /\ UNCHANGED <<version, tables, secrets, saved, runs, found, met, primary, windows, startups,
                 unpurged>>

(* Slip: without a transaction, what was created stays.                    *)
TablesInMigrationAtOnce(p) == tables + 1

TablesInMigration(p) == tables

(* The first statement of the migration takes the write lock; a table that *)
(* is there already, or a lock that another keeps for too long, makes it   *)
(* fail, and the process goes on in memory.                                *)
MigrationBegins(p) ==
  /\ stage[p] = "behind"
  /\ IF lock # NoProcess \/ tables > readVersion[p]
     THEN /\ Opened(p, p)
          /\ UNCHANGED <<tables, lock>>
     ELSE /\ stage' = [stage EXCEPT ![p] = "migrating"]
          /\ tables' = TablesInMigration(p)
          /\ lock' = p
          /\ UNCHANGED <<store, readVersion>>
  /\ UNCHANGED <<version, secrets, saved, runs, found, met, refused, primary, windows, startups,
                 failures, unpurged>>

MigrationCommits(p) ==
  /\ stage[p] = "migrating"
  /\ version' = Target /\ tables' = Target
  /\ lock' = NoProcess
  /\ Opened(p, "disk")
  /\ UNCHANGED <<secrets, saved, runs, found, met, refused, primary, windows, startups, failures,
                 unpurged>>

(* fail_interrupted_runs, whoever started the run; its failure is a        *)
(* warning.  A new store in memory has no rows.                            *)
FailInterruptedRuns(p) ==
  /\ stage[p] = "open"
  /\ stage' = [stage EXCEPT ![p] = "purging"]
  /\ \/ /\ runs' = [r \in Runs |-> IF /\ store[p] = "disk" /\ runs[r].in = "disk"
                                     /\ runs[r].status = "running"
                                  THEN [runs[r] EXCEPT !.status = "failed"] ELSE runs[r]]
        /\ UNCHANGED <<failures, refused>>
     \/ store[p] = "disk" /\ Refused(p) /\ UNCHANGED runs
  /\ UNCHANGED <<version, tables, lock, secrets, saved, store, readVersion, found, met, primary,
                 windows, startups, unpurged>>

(* Slip: the runs' previews are left.                                      *)
PurgedTablesButRuns == Tables \ {"job_runs"}

PurgedTables == Tables

(* purge_embedded_secrets reads all tables, then writes in a transaction.  *)
PurgeReads(p) ==
  /\ stage[p] = "purging"
  /\ stage' = [stage EXCEPT ![p] = "purge"]
  /\ found' = [found EXCEPT ![p] = IF store[p] = "disk" THEN secrets \cap PurgedTables ELSE {}]
  /\ UNCHANGED <<version, tables, lock, secrets, saved, runs, store, readVersion, met, refused, primary,
                 windows, startups, failures, unpurged>>

PurgeWrites(p) ==
  /\ stage[p] = "purge"
  /\ stage' = [stage EXCEPT ![p] = "ready"]
  /\ secrets' = secrets \ found[p]
  /\ found' = [found EXCEPT ![p] = {}]
  /\ UNCHANGED <<version, tables, lock, saved, runs, store, readVersion, met, refused, primary,
                 windows, startups, failures, unpurged>>

(* A table cannot be read, the file not be written, or the vacuum after    *)
(* the commit not be made: a warning, and the start goes on.               *)
PurgeFails(p) ==
  /\ stage[p] = "purging" \/ (stage[p] = "purge" /\ found[p] # {})
  /\ store[p] = "disk" /\ Refused(p)
  /\ unpurged' = TRUE
  /\ secrets' \in {secrets, secrets \ found[p]}
  /\ stage' = [stage EXCEPT ![p] = "ready"]
  /\ found' = [found EXCEPT ![p] = {}]
  /\ UNCHANGED <<version, tables, lock, saved, runs, store, readVersion, met, primary,
                 windows, startups>>

(* QueueView::new restores what queue_list returns, rows with credentials  *)
(* left out, and persists what it restored.                                *)
Restored(p) == saved[store[p]]

(* A process that ends takes what was its own with it.                     *)
Ended(p) ==
  /\ stage' = [stage EXCEPT ![p] = "off"]
  /\ store' = [store EXCEPT ![p] = "none"]
  /\ met' = [met EXCEPT ![p] = FALSE]
  /\ refused' = [refused EXCEPT ![p] = FALSE]
  /\ saved' = [saved EXCEPT ![p] = << >>]

(* app.run: the first process to get here is the primary; a later one has  *)
(* it build another window, and ends.                                      *)
Activates(p) ==
  /\ stage[p] = "ready"
  /\ IF primary = NoProcess
     THEN /\ primary' = p
          /\ windows' = <<Restored(p)>>
          /\ stage' = [stage EXCEPT ![p] = "running"]
          /\ UNCHANGED <<store, met, refused, saved>>
     ELSE /\ Len(windows) < MaxWindows
          /\ windows' = Append(windows, Restored(primary))
          /\ Ended(p)
          /\ UNCHANGED primary
  /\ UNCHANGED <<version, tables, lock, secrets, runs, readVersion, found, startups, failures,
                 unpurged>>

-----------------------------------------------------------------------------
(* The windows' queues.  Each persists its own pending jobs.               *)

SetPending(w, pending) ==
  /\ windows' = [windows EXCEPT ![w] = pending]
  /\ saved' = [saved EXCEPT ![store[primary]] = pending]

AddJob(w, j) ==
  /\ w \in DOMAIN windows /\ Len(windows[w]) < Cardinality(QueueJobs)
  /\ j \notin ToSet(windows[w])
  /\ SetPending(w, Append(windows[w], j))
  /\ UNCHANGED <<version, tables, lock, secrets, runs, stage, store, readVersion, found, met, refused,
                 primary, startups, failures, unpurged>>

RemoveJob(w) ==
  /\ w \in DOMAIN windows /\ windows[w] # << >>
  /\ SetPending(w, Front(windows[w]))
  /\ UNCHANGED <<version, tables, lock, secrets, runs, stage, store, readVersion, found, met, refused,
                 primary, startups, failures, unpurged>>

(* launch: insert_job and start_run.                                       *)
LaunchJob(w) ==
  /\ w \in DOMAIN windows /\ windows[w] # << >>
  /\ \E r \in Runs :
        /\ runs[r] = NoRun /\ \A q \in 1 .. r - 1 : runs[q] # NoRun
        /\ runs' = [runs EXCEPT ![r] = [status |-> "running", told |-> "live", in |-> store[primary]]]
  /\ SetPending(w, Tail(windows[w]))
  /\ UNCHANGED <<version, tables, lock, secrets, stage, store, readVersion, found, met, refused, primary,
                 startups, failures, unpurged>>

(* Slip: only a row that still says "running" is finished.                 *)
FinishedRowIfRunning(row, status) ==
  [row EXCEPT !.told = status, !.status = IF @ = "running" THEN status ELSE @]

(* finish_run, by the run's id.                                            *)
FinishedRow(row, status) == [row EXCEPT !.told = status, !.status = status]

RunEnds(r, status) ==
  /\ runs[r].told = "live"
  /\ runs' = [runs EXCEPT ![r] = FinishedRow(@, status)]
  /\ UNCHANGED <<version, tables, lock, secrets, saved, stage, store, readVersion, found, met, refused,
                 primary, windows, startups, failures, unpurged>>

(* finish_run fails, and the row stays as it is.                           *)
FinishFails(r) ==
  /\ runs[r].told = "live" /\ runs[r].in = "disk" /\ failures < MaxFailures
  /\ failures' = failures + 1
  /\ runs' = [runs EXCEPT ![r].told = "nothing"]
  /\ UNCHANGED <<version, tables, lock, secrets, saved, stage, store, readVersion, found, met,
                 refused, primary, windows, startups, unpurged>>

(* A process ends or is killed, wherever it is: its transaction is rolled  *)
(* back, and the ends of its runs are heard by nobody.                     *)
ProcessEnds(p) ==
  /\ stage[p] # "off"
  /\ Ended(p)
  /\ readVersion' = [readVersion EXCEPT ![p] = 0]
  /\ found' = [found EXCEPT ![p] = {}]
  /\ lock' = IF lock = p THEN NoProcess ELSE lock
  /\ IF primary = p
     THEN /\ primary' = NoProcess /\ windows' = << >>
          /\ runs' = [r \in Runs |-> IF runs[r].told = "live"
                                     THEN [runs[r] EXCEPT !.told = "nothing"] ELSE runs[r]]
     ELSE UNCHANGED <<primary, windows, runs>>
  /\ UNCHANGED <<version, tables, secrets, startups, failures, unpurged>>

-----------------------------------------------------------------------------
StartupInit ==
  /\ version \in 0 .. Target /\ tables = version
  /\ lock = NoProcess
  /\ secrets \in IF version = 0 THEN {{}} ELSE {{}, Tables}
  /\ \E q \in {<< >>} \cup {<<j>> : j \in QueueJobs} :
        /\ version < Target => q = << >>
        /\ saved = [s \in Processes \cup {"disk"} |-> IF s = "disk" THEN q ELSE << >>]
  /\ \E orphan \in {NoRun, [NoRun EXCEPT !.status = "running", !.in = "disk"]} :
        /\ version = 0 => orphan = NoRun
        /\ runs = [r \in Runs |-> IF r = 1 THEN orphan ELSE NoRun]
  /\ stage = [p \in Processes |-> "off"]
  /\ store = [p \in Processes |-> "none"]
  /\ readVersion = [p \in Processes |-> 0]
  /\ found = [p \in Processes |-> {}]
  /\ met = [p \in Processes |-> FALSE]
  /\ refused = [p \in Processes |-> FALSE]
  /\ primary = NoProcess /\ windows = << >>
  /\ startups = 0 /\ failures = 0 /\ unpurged = FALSE

StartupNext ==
  \/ \E p \in Processes :
        \/ StartProcess(p) \/ OpenStore(p) \/ OpenFails(p)
        \/ MigrationBegins(p) \/ MigrationCommits(p)
        \/ FailInterruptedRuns(p) \/ PurgeReads(p) \/ PurgeWrites(p) \/ PurgeFails(p)
        \/ Activates(p) \/ ProcessEnds(p)
  \/ \E w \in 1 .. MaxWindows : (\E j \in QueueJobs : AddJob(w, j)) \/ RemoveJob(w) \/ LaunchJob(w)
  \/ \E r \in Runs : FinishFails(r) \/ \E status \in {"completed", "failed"} : RunEnds(r, status)

StartupSpec == StartupInit /\ [][StartupNext]_startupVars

-----------------------------------------------------------------------------
(* A process that meets no other start, and whom the disk refuses nothing  *)
(* while it starts, gets the database, wherever earlier ones were killed:  *)
(* the in-memory store is for those that open the same old file at once    *)
(* and for failing accesses (storage/mod.rs:24-92, ctx.rs:29-46).          *)
LoneStartOpensStore == \A p \in Processes : store[p] = p => met[p] \/ refused[p]

(* Of a run whose end finish_run wrote, the row says that end, though      *)
(* another start called the run interrupted while it was going on          *)
(* (repo.rs:117-144, ctx.rs:47).                                           *)
RunRowsTrue ==
  \A r \in Runs : runs[r].told \in {"completed", "failed"} => runs[r].status = runs[r].told

(* list_profiles, queue_list and job_spec_for_run leave out what holds a   *)
(* credential; history, settings and log paths are read as they are.       *)
ReadUnfiltered == {"job_runs", "settings", "run_logs"}

(* No window shows a row with a credential of an earlier version, in       *)
(* whatever order several starts clean the file, unless it could not be    *)
(* read or written (repo.rs:149-306, ctx.rs:51-57).                        *)
NoSecretsServed ==
  primary # NoProcess /\ store[primary] = "disk" /\ ~unpurged => secrets \cap ReadUnfiltered = {}

(* "Called on every queue mutation so the on-disk copy always mirrors the  *)
(* still-pending jobs" (repo.rs:418-419).                                  *)
SavedMirrorsPending ==
  primary # NoProcess =>
    \A w \in DOMAIN windows : ToSet(windows[w]) \subseteq ToSet(saved[store[primary]])
=============================================================================
