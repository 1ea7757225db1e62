----------------------------- MODULE QueueView -----------------------------
(***************************************************************************)
(* The queue page (cascade-gui/src/views/queue.rs) with the store tables   *)
(* it writes (queue_items and job_runs), the settings it reads, the child  *)
(* processes it starts, and the application stopping at any point and      *)
(* starting again.                                                         *)
(*                                                                         *)
(* GTK runs one callback at a time.  A callback that pumps the queue is    *)
(* modelled as its first step, which ends with the list `ready` that       *)
(* start_ready returned, and then two steps per launched job: the job is   *)
(* marked and dropped from the store (BeginLaunch), then refused or        *)
(* started.  launch() calls pump() again when a job is refused, from       *)
(* inside `for id in ready`, so the jobs of the nested call go in front of *)
(* the rest of the list.  No other callback begins until the list is       *)
(* empty, but children exit, the file system changes and the application   *)
(* dies between any two steps.                                             *)
(***************************************************************************)
EXTENDS JobQueue, Lists, FiniteSets

CONSTANTS
  Jobs,             \* jobs the user may add, each at most once
  Secret,           \* jobs whose spec embeds a credential
  Volatile,         \* jobs whose paths may change verdict while they wait
  MaxParallelJobs,  \* the largest parallelism the settings allow
  MaxStops,         \* bound: how often the application stops
  StoreMayFail,     \* whether a statement on the database may fail
  None

ASSUME QueueViewAssumption ==
  /\ Secret \subseteq Jobs
  /\ Volatile \subseteq Jobs
  /\ MaxParallelJobs \in Nat \ {0}
  /\ MaxStops \in Nat
  /\ StoreMayFail \in BOOLEAN
  /\ None \notin Jobs

VARIABLES
  \* the database, which outlives the application
  saved,        \* queue_items: a set of [spec, position] rows
  runs,         \* job_runs: "none", "running", "completed" or "failed" by job
  maxParallel,  \* settings.max_parallel
  \* the outside world
  verdict,      \* what validate_paths says of the job's paths now
  proc,         \* the job's child: "none", "live", "exited0" or "exited1"
  stops,        \* how often the application stopped so far
  \* the application's memory
  phase,        \* "down", "restoring" or "up"
  restoring,    \* rows loaded by queue_list and not re-enqueued yet
  rows,         \* the ListBox: job rows in visual order
  item,         \* its Item: "absent", "waiting", "launched" or "done"
  ack,          \* the path warnings the user acknowledged for the job
  queue,        \* the Queue<u64>
  paused,       \* the pause toggle
  ready,        \* jobs taken by start_ready in the callback in progress
  launching,    \* the job inside launch(), past its persist()
  cancelling,   \* jobs whose cancel was requested
  unrecorded,   \* launched jobs whose run_id is -1
  \* history, read by no action's guard but the first
  added,        \* jobs ever added
  released      \* jobs the user let run in this session

storeVars == <<saved, runs, maxParallel>>
worldVars == <<verdict, proc, stops>>
viewVars == <<rows, item, ack, queue, paused, ready, launching, cancelling, unrecorded>>
vars == <<storeVars, worldVars, phase, restoring, viewVars, added, released>>

Verdicts == {"clean", "warned", "refused"}
Warnings == {"clean", "warned"}

-----------------------------------------------------------------------------
(* persist(): the waiting jobs without a secret and with acceptable paths, *)
(* in visual order, replace the whole queue_items table in a transaction.  *)
(* A failing transaction leaves the table as it was and is only logged.    *)

RowIndex(rws, j) == CHOOSE i \in 1 .. Len(rws) : rws[i] = j

(* Slip: the `launched` flag is not looked at.                             *)
PersistableLaunched(it) ==
  {j \in Jobs \ Secret : it[j] \in {"waiting", "launched"} /\ verdict[j] # "refused"}

Persistable(it) ==
  {j \in Jobs \ Secret : it[j] = "waiting" /\ verdict[j] # "refused"}

(* queue_replace: position is the rank of the job among those persisted.   *)
QueueItems(rws, it) ==
  {[spec |-> j,
    position |-> Cardinality({k \in Persistable(it) : RowIndex(rws, k) < RowIndex(rws, j)})] :
      j \in Persistable(it)}

Persist(rws, it) ==
  \/ saved' = QueueItems(rws, it)
  \/ StoreMayFail /\ saved' = saved

(* pump(): nothing while paused; else the jobs start_ready hands out are   *)
(* launched before those left of an enclosing pump.                        *)
(* Slip: the cap is not read again from the settings.                      *)
PumpOldCap(q, rest, isPaused) ==
  IF isPaused
  THEN queue' = q /\ ready' = rest
  ELSE queue' = StartReady(q) /\ ready' = Started(q) \o rest

Pump(q, rest, isPaused) ==
  IF isPaused
  THEN queue' = q /\ ready' = rest
  ELSE LET capped == SetMax(q, maxParallel)
       IN  queue' = StartReady(capped) /\ ready' = Started(capped) \o rest

(* The main loop is between two callbacks.                                 *)
Idle == phase = "up" /\ ready = <<>> /\ launching = None

-----------------------------------------------------------------------------
(* The user's callbacks.                                                   *)

(* add_to_queue, confirm_enqueue and QueueView::enqueue.  The warnings the *)
(* user accepts are those of the moment the form was read; the dialog may  *)
(* stay open while the paths change, so for a Volatile job they are any.   *)
AddToQueue(j, w) ==
  /\ Idle
  /\ j \notin added
  /\ j \in Volatile \/ w = verdict[j]
  /\ rows' = Append(rows, j)
  /\ item' = [item EXCEPT ![j] = "waiting"]
  /\ ack' = [ack EXCEPT ![j] = w]
  /\ Persist(rows', item')
  /\ Pump(Enqueue(queue, j), <<>>, paused)
  /\ added' = added \cup {j}
  /\ released' = released \cup {j}
  /\ UNCHANGED <<runs, maxParallel, worldVars, phase, restoring, paused, launching, cancelling, unrecorded>>

(* The pause button; resuming pumps.                                       *)
TogglePause ==
  /\ Idle
  /\ paused' = ~paused
  /\ IF paused
     THEN /\ Pump(queue, <<>>, FALSE)
          /\ released' = released \cup {j \in Jobs : item[j] = "waiting"}
     ELSE UNCHANGED <<queue, ready, released>>
  /\ UNCHANGED <<storeVars, worldVars, phase, restoring, rows, item, ack, launching, cancelling, unrecorded, added>>

(* remove_item: only a job the queue still holds.                          *)
RemoveItem(j) ==
  /\ Idle
  /\ IsPending(queue, j)
  /\ queue' = RemovePending(queue, j)
  /\ rows' = RemoveAt(rows, RowIndex(rows, j))
  /\ item' = [item EXCEPT ![j] = "absent"]
  /\ Persist(rows', item')
  /\ UNCHANGED <<runs, maxParallel, worldVars, phase, restoring, ack, paused, ready,
                 launching, cancelling, unrecorded, added, released>>

(* move_item: the queue and the list box move in step.                     *)
MoveItemUp(j) ==
  /\ Idle
  /\ CanMoveUp(queue, j)
  /\ queue' = MoveUp(queue, j)
  /\ rows' = Swap(rows, RowIndex(rows, j), RowIndex(rows, j) - 1)
  /\ Persist(rows', item)
  /\ UNCHANGED <<runs, maxParallel, worldVars, phase, restoring, item, ack, paused, ready,
                 launching, cancelling, unrecorded, added, released>>

MoveItemDown(j) ==
  /\ Idle
  /\ CanMoveDown(queue, j)
  /\ queue' = MoveDown(queue, j)
  /\ rows' = Swap(rows, RowIndex(rows, j), RowIndex(rows, j) + 1)
  /\ Persist(rows', item)
  /\ UNCHANGED <<runs, maxParallel, worldVars, phase, restoring, item, ack, paused, ready,
                 launching, cancelling, unrecorded, added, released>>

(* cancel_item: only a job with a RunHandle.                               *)
CancelItem(j) ==
  /\ Idle
  /\ item[j] = "launched"
  /\ cancelling' = cancelling \cup {j}
  /\ UNCHANGED <<storeVars, worldVars, phase, restoring, rows, item, ack, queue, paused,
                 ready, launching, unrecorded, added, released>>

ClearFinished ==
  /\ Idle
  /\ \E j \in Jobs : item[j] = "done"
  /\ rows' = Kept(rows, {j \in Jobs : item[j] # "done"})
  /\ item' = [j \in Jobs |-> IF item[j] = "done" THEN "absent" ELSE item[j]]
  /\ UNCHANGED <<storeVars, worldVars, phase, restoring, ack, queue, paused, ready,
                 launching, cancelling, unrecorded, added, released>>

(* The settings screen: takes effect at the next pump.                     *)
ChangeParallel(n) ==
  /\ Idle
  /\ n # maxParallel
  /\ maxParallel' = n
  /\ UNCHANGED <<saved, runs, worldVars, phase, restoring, viewVars, added, released>>

-----------------------------------------------------------------------------
(* launch(id), for the next job of `for id in ready`.                      *)

(* The job is marked launched and dropped from the persisted queue.        *)
(* Slip: marked, but the store is not told.                                *)
BeginLaunchUnsaved ==
  /\ phase = "up" /\ launching = None /\ ready # <<>>
  /\ launching' = Head(ready)
  /\ ready' = Tail(ready)
  /\ item' = [item EXCEPT ![Head(ready)] = "launched"]
  /\ UNCHANGED <<storeVars, worldVars, phase, restoring, rows, ack, queue, paused,
                 cancelling, unrecorded, added, released>>

BeginLaunch ==
  /\ phase = "up" /\ launching = None /\ ready # <<>>
  /\ launching' = Head(ready)
  /\ ready' = Tail(ready)
  /\ item' = [item EXCEPT ![Head(ready)] = "launched"]
  /\ Persist(rows, item')
  /\ UNCHANGED <<runs, maxParallel, worldVars, phase, restoring, rows, ack, queue, paused,
                 cancelling, unrecorded, added, released>>

(* validate_paths, the acknowledged warnings, prepare_execution and        *)
(* insert_job all let the job through.                                     *)
Launchable(j) == verdict[j] = ack[j] /\ j \notin Secret

(* Any of the four refuses: the slot is given back and pump() is nested.   *)
(* Slip: an early return that forgets complete().                          *)
RefuseLaunchKeepsSlot ==
  /\ launching # None
  /\ ~Launchable(launching) \/ StoreMayFail
  /\ item' = [item EXCEPT ![launching] = "done"]
  /\ launching' = None
  /\ Pump(queue, ready, paused)
  /\ UNCHANGED <<storeVars, worldVars, phase, restoring, rows, ack, paused, cancelling,
                 unrecorded, added, released>>

RefuseLaunch ==
  /\ launching # None
  /\ ~Launchable(launching) \/ StoreMayFail
  /\ item' = [item EXCEPT ![launching] = "done"]
  /\ launching' = None
  /\ Pump(Complete(queue), ready, paused)
  /\ UNCHANGED <<storeVars, worldVars, phase, restoring, rows, ack, paused, cancelling,
                 unrecorded, added, released>>

(* insert_job, start_run and spawn.  start_run(..).unwrap_or(-1): the run  *)
(* goes on without a row when the insertion fails.                         *)
StartRun ==
  /\ launching # None
  /\ Launchable(launching)
  /\ \/ runs' = [runs EXCEPT ![launching] = "running"] /\ unrecorded' = unrecorded \ {launching}
     \/ StoreMayFail /\ runs' = runs /\ unrecorded' = unrecorded \cup {launching}
  /\ proc' = [proc EXCEPT ![launching] = "live"]
  /\ launching' = None
  /\ UNCHANGED <<saved, maxParallel, verdict, stops, phase, restoring, rows, item, ack, queue,
                 paused, ready, cancelling, added, released>>

(* The consumer task receives Finished: finish_run, mark_done, complete    *)
(* and pump in one go.  A cancelled child is recorded by its exit status   *)
(* like any other.                                                         *)
(* Slip: the end of a run does not pump.                                   *)
RunEndsWithoutPump(j) ==
  /\ Idle
  /\ item[j] = "launched" /\ proc[j] \in {"exited0", "exited1"}
  /\ runs' = [runs EXCEPT ![j] = IF proc[j] = "exited0" THEN "completed" ELSE "failed"]
  /\ item' = [item EXCEPT ![j] = "done"]
  /\ queue' = Complete(queue)
  /\ UNCHANGED <<saved, maxParallel, worldVars, phase, restoring, rows, ack, paused,
                 ready, launching, cancelling, unrecorded, added, released>>

RunEnds(j) ==
  /\ Idle
  /\ item[j] = "launched" /\ proc[j] \in {"exited0", "exited1"}
  /\ \/ /\ j \notin unrecorded
        /\ runs' = [runs EXCEPT ![j] = IF proc[j] = "exited0" THEN "completed" ELSE "failed"]
     \/ (j \in unrecorded \/ StoreMayFail) /\ runs' = runs
  /\ item' = [item EXCEPT ![j] = "done"]
  /\ Pump(Complete(queue), <<>>, paused)
  /\ UNCHANGED <<saved, maxParallel, worldVars, phase, restoring, rows, ack, paused,
                 launching, cancelling, unrecorded, added, released>>

-----------------------------------------------------------------------------
(* The world.                                                              *)

ChildExits(j) ==
  /\ proc[j] = "live"
  /\ \E p \in {"exited0", "exited1"} : proc' = [proc EXCEPT ![j] = p]
  /\ UNCHANGED <<storeVars, verdict, stops, phase, restoring, viewVars, added, released>>

PathsChange(j) ==
  /\ j \in Volatile
  /\ \E v \in Verdicts \ {verdict[j]} : verdict' = [verdict EXCEPT ![j] = v]
  /\ UNCHANGED <<storeVars, proc, stops, phase, restoring, viewVars, added, released>>

-----------------------------------------------------------------------------
(* The application stops (a crash, or a quit: no handler runs on either)   *)
(* and starts again.  Children live on in process groups of their own.     *)

EmptyView ==
  /\ rows' = <<>>
  /\ item' = [j \in Jobs |-> "absent"]
  /\ ack' = [j \in Jobs |-> "clean"]
  /\ queue' = NewQueue(maxParallel)
  /\ ready' = <<>>
  /\ launching' = None
  /\ cancelling' = {} /\ unrecorded' = {}
  /\ released' = {}

Stop ==
  /\ phase # "down" /\ stops < MaxStops
  /\ stops' = stops + 1
  /\ phase' = "down"
  /\ restoring' = {}
  /\ paused' = FALSE
  /\ EmptyView
  /\ UNCHANGED <<storeVars, verdict, proc, added>>

(* AppCtx::new fails the interrupted runs; QueueView::new loads the queue  *)
(* (an empty one if the query fails) and pauses it if anything is in it.   *)
(* Slips: the restored queue is not paused; the runs are left alone.       *)
BootUnpaused ==
  /\ phase = "down"
  /\ runs' = [j \in Jobs |-> IF runs[j] = "running" THEN "failed" ELSE runs[j]]
  /\ restoring' = saved
  /\ paused' = FALSE
  /\ phase' = IF restoring' = {} THEN "up" ELSE "restoring"
  /\ EmptyView
  /\ UNCHANGED <<saved, maxParallel, worldVars, added>>

BootKeepsRuns ==
  /\ phase = "down"
  /\ restoring' = saved
  /\ paused' = (restoring' # {})
  /\ phase' = IF restoring' = {} THEN "up" ELSE "restoring"
  /\ EmptyView
  /\ UNCHANGED <<saved, runs, maxParallel, worldVars, added>>

Boot ==
  /\ phase = "down"
  /\ \/ runs' = [j \in Jobs |-> IF runs[j] = "running" THEN "failed" ELSE runs[j]]
     \/ StoreMayFail /\ runs' = runs
  /\ \/ restoring' = saved
     \/ StoreMayFail /\ restoring' = {}
  /\ paused' = (restoring' # {})
  /\ phase' = IF restoring' = {} THEN "up" ELSE "restoring"
  /\ EmptyView
  /\ UNCHANGED <<saved, maxParallel, worldVars, added>>

(* One turn of `for spec in restored`: enqueue(spec, None), which persists *)
(* what has been restored so far; its pump() is suppressed.                *)
RestoreOne ==
  /\ phase = "restoring"
  /\ \E r \in restoring :
        /\ \A o \in restoring : r.position <= o.position
        /\ rows' = Append(rows, r.spec)
        /\ item' = [item EXCEPT ![r.spec] = "waiting"]
        /\ ack' = [ack EXCEPT ![r.spec] = "clean"]
        /\ Persist(rows', item')
        /\ Pump(Enqueue(queue, r.spec), <<>>, paused)
        /\ restoring' = restoring \ {r}
        /\ phase' = IF restoring = {r} THEN "up" ELSE "restoring"
  /\ UNCHANGED <<runs, maxParallel, worldVars, paused, launching, cancelling, unrecorded, added, released>>

Init ==
  /\ saved = {}
  /\ runs = [j \in Jobs |-> "none"]
  /\ maxParallel \in 1 .. MaxParallelJobs
  /\ verdict \in [Jobs -> Verdicts] /\ \A j \in Jobs \ Volatile : verdict[j] = "clean"
  /\ proc = [j \in Jobs |-> "none"]
  /\ stops = 0
  /\ phase = "up" /\ restoring = {}
  /\ rows = <<>>
  /\ item = [j \in Jobs |-> "absent"]
  /\ ack = [j \in Jobs |-> "clean"]
  /\ queue = NewQueue(maxParallel)
  /\ paused = FALSE /\ ready = <<>> /\ launching = None /\ cancelling = {} /\ unrecorded = {}
  /\ added = {} /\ released = {}

UserNext ==
  \/ \E j \in Jobs, w \in Warnings : AddToQueue(j, w)
  \/ TogglePause
  \/ \E j \in Jobs : RemoveItem(j) \/ MoveItemUp(j) \/ MoveItemDown(j) \/ CancelItem(j)
  \/ ClearFinished
  \/ \E n \in 1 .. MaxParallelJobs : ChangeParallel(n)

LaunchNext == BeginLaunch \/ RefuseLaunch \/ StartRun

WorldNext == \E j \in Jobs : ChildExits(j) \/ PathsChange(j)

Next ==
  \/ UserNext
  \/ LaunchNext
  \/ \E j \in Jobs : RunEnds(j)
  \/ WorldNext
  \/ Stop \/ Boot \/ RestoreOne

Spec == Init /\ [][Next]_vars

(* Fairness.  The GTK main loop returns to every ready callback: the       *)
(* launches of a pump run to the end of the loop, and the consumer task of *)
(* a finished run is woken.  Nothing is assumed of the user or of the      *)
(* children.                                                               *)
Fairness ==
  /\ WF_vars(LaunchNext)
  /\ WF_vars(RestoreOne)
  /\ \A j \in Jobs : WF_vars(RunEnds(j))

FairSpec == Spec /\ Fairness

-----------------------------------------------------------------------------
(* Properties.                                                             *)

(* Every slot in use is a job launched and not done, or one the callback   *)
(* in progress is about to launch: no error path of launch() (four early   *)
(* returns, each with its own complete() and nested pump) and no end of a  *)
(* run leaks a slot or frees one twice (queue.rs:289-345, 424-426).        *)
SlotsAccounted ==
  queue.running = Cardinality({j \in Jobs : item[j] = "launched"}) + Len(ready)

RowsFollowQueue ==
  LET waiting == Kept(rows, {j \in Jobs : item[j] = "waiting"})
      pending == Kept(waiting, {j \in Jobs : \A i \in 1 .. Len(ready) : ready[i] # j})
  IN  /\ pending = queue.pending
      /\ Len(waiting) = Len(ready) + Len(pending)

SavedFollowsQueue ==
  (phase = "up" /\ ~StoreMayFail) =>
    /\ \A r \in saved : item[r.spec] = "waiting" /\ r.spec \notin Secret
    /\ \A r, o \in saved :
          r.position < o.position <=> RowIndex(rows, r.spec) < RowIndex(rows, o.spec)
    /\ \A j \in Jobs \ (Secret \cup Volatile) :
          item[j] = "waiting" => \E r \in saved : r.spec = j

(* The order the user sees is the order jobs start in: the rows of waiting *)
(* jobs are those of the jobs being launched, then the pending ones, in    *)
(* the queue's order, through reordering, removal and clearing.  With a    *)
(* database that accepts its writes, the saved queue mirrors the pending   *)
(* one in the same order, without launched jobs, and without jobs that     *)
(* hold a secret (queue.rs:223-243, 257-287, 447-461; repo.rs:418-440).    *)
CopiesAgree == RowsFollowQueue /\ SavedFollowsQueue

(* A job the history shows as running is one this session launched and     *)
(* has not finished, and conversely: nothing is left running by a crash,   *)
(* a refused launch or a cancel (queue.rs:349-353, 410-414; repo.rs:136).  *)
RunRowsFollowItems ==
  (phase = "up" /\ ~StoreMayFail) =>
    \A j \in Jobs : runs[j] = "running" <=> item[j] = "launched" /\ launching # j

(* An unpaused queue never sits on a free slot of its cap between two      *)
(* callbacks, so the next RunEnds finds the pending jobs (queue.rs:245).   *)
NoStall ==
  (Idle /\ ~paused) => queue.pending = <<>> \/ queue.running >= queue.max

(* Whenever a callback hands out a job, in the place of one it completed   *)
(* too, and however its pumps nest, the jobs in flight are within the      *)
(* parallelism the settings hold at that moment (249-251).                 *)
StartsUnderCap ==
  [][ToSet(ready') \subseteq ToSet(ready) \/ queue'.running <= maxParallel']_vars

(* A job read back from disk runs only after the user resumes the queue in *)
(* this session (queue.rs:131-141), and a job whose paths need a warning   *)
(* only if the user accepted that very warning in this session.            *)
NothingUnattended ==
  [][\A j \in Jobs : (proc[j] # "live" /\ proc'[j] = "live") =>
        j \in released /\ verdict[j] = ack[j]]_vars

(* A job's life as the state machine of job/state.rs names it.  A job that *)
(* left the queue without a run counts as cancelled.                       *)
InQueue(j) ==
  IF phase = "down"
  THEN \E r \in saved : r.spec = j
  ELSE item[j] = "waiting" \/ launching = j \/ \E r \in restoring : r.spec = j

StatusOf(j) ==
  IF j \notin added THEN "absent"
  ELSE IF runs[j] # "none" THEN runs[j]
  ELSE IF InQueue(j) THEN "pending" ELSE "cancelled"

Lifecycle == INSTANCE JobLifecycle WITH status <- [j \in Jobs |-> StatusOf(j)]

(* The queue obeys that state machine across stops and restarts: a run     *)
(* that ended, and a job once launched, is never run again (state.rs:3-4). *)
LifecycleSpec == Lifecycle!Spec

(* The on-disk copy holds every pending job when the application stops, so *)
(* the queue survives the restart.                                         *)
QueueSurvivesStop ==
  [][phase' = "down" /\ phase # "down" =>
       \A j \in Jobs \ (Secret \cup Volatile) :
          (StatusOf(j) = "pending" /\ launching # j) => \E r \in saved' : r.spec = j]_vars

WaitingJobsStart ==
  (\A j \in Jobs : []<>(proc[j] # "live")) =>
    \A j \in Jobs : []<>(item[j] # "waiting" \/ paused \/ phase # "up")

CancelFreesSlot ==
  (\A j \in Jobs : j \in cancelling ~> proc[j] # "live") =>
    \A j \in Jobs : j \in cancelling ~> item[j] # "launched"

(* If every transfer ends, a waiting job is launched or removed, unless    *)
(* the queue stays paused or the application down: only a callback pumps,  *)
(* no timer does, so a wake-up missed is missed for good.  If cancels end  *)
(* the children they are sent to (they may not: Process!CancelEndsRun), a  *)
(* cancelled job leaves its slot, whether or not its run was recorded and  *)
(* however long the others go on (queue.rs:245-255, 410-438).              *)
QueueMoves == WaitingJobsStart /\ CancelFreesSlot
=============================================================================
