--------------------------- MODULE NewJobRun_proofs ---------------------------
(***************************************************************************)
(* Proofs about NewJobRun for every set of forms, any number of runs and   *)
(* of submissions.  The invariant says what a page that runs a job knows   *)
(* of it: whether its row exists, and which of the daemon's transfers is   *)
(* the one whose answer ends the run.                                      *)
(***************************************************************************)
EXTENDS NewJobRun, TLAPS

RowStates == {"none", "running", "completed", "failed"}
TransferStates == {"running", "ok", "bad"}
Answers == TransferStates \cup {"none", "sent", "accepted", "failed", "garbled"}

RunTypes ==
  /\ verdict \in Warnings \cup {"refused"}
  /\ page \in RunPages \cup {"idle", "dialog"}
  /\ rows \in Seq(RowStates) /\ Run <= MaxRuns
  /\ recorded \in BOOLEAN
  /\ jobs \in Seq(TransferStates) /\ watched \in Nat
  /\ call \in Answers

(* A page that runs a job has a run; without a row for it, nothing says    *)
(* that it is running.                                                     *)
RunHasItsRow ==
  page \in RunPages => /\ Run # 0
                       /\ rows[Run] = "running" => recorded

(* Once an id came back, it is that of a transfer the daemon accepted.     *)
WatchedWasAccepted ==
  /\ (page = "submitting" /\ call = "accepted") => jobs # <<>>
  /\ page \in {"poll", "stats", "status"} => watched \in 1 .. Len(jobs)

(* A transfer that was said to have succeeded did, and did not fail since. *)
OkIsFinal == (page = "status" /\ call = "ok") => jobs[watched] = "ok"

NewJobIInv ==
  RunTypes /\ RunHasItsRow /\ WatchedWasAccepted /\ OkIsFinal /\ RunningRowIsCurrent

(* The page starts idle, with no run.                                      *)
LEMMA NewJobInit == Init => NewJobIInv
<1> SUFFICES ASSUME Init PROVE NewJobIInv
  OBVIOUS
<1>1. page = "idle" /\ rows = <<>> /\ jobs = <<>> /\ watched = 0 /\ call = "none" /\ recorded = FALSE
  BY DEF Init
<1>2. Len(rows) = 0 /\ rows \in Seq(RowStates) /\ jobs \in Seq(TransferStates)
  BY <1>1
<1>3. RunTypes
  <2>1. Run <= MaxRuns
    BY <1>2, NewJobAssumption DEF Run
  <2>2. verdict \in Warnings \cup {"refused"}
    BY DEF Init
  <2> QED BY <1>1, <1>2, <2>1, <2>2 DEF RunTypes, Answers
<1> QED BY <1>1, <1>2, <1>3
           DEF NewJobIInv, RunHasItsRow, WatchedWasAccepted, OkIsFinal, RunningRowIsCurrent, RunPages, RcPages

(* What finish_run leaves: only the row of the current run changes, and it *)
(* says "running" afterwards only if the write was lost.                   *)
LEMMA EndRowKeeps ==
  ASSUME NewJobIInv, page \in RunPages, NEW st \in {"completed", "failed"}, EndRow(st)
  PROVE  /\ rows' \in Seq(RowStates) /\ Len(rows') = Len(rows)
         /\ lost \subseteq lost'
         /\ \A r \in 1 .. Len(rows) : r # Len(rows) => rows'[r] = rows[r]
         /\ rows'[Len(rows)] \in {rows[Len(rows)], st}
         /\ rows'[Len(rows)] = "running" => Len(rows) \in lost'
<1>1. Len(rows) \in 1 .. Len(rows) /\ rows \in Seq(RowStates) /\ recorded \in BOOLEAN
      /\ (rows[Len(rows)] = "running" => recorded)
  BY DEF NewJobIInv, RunTypes, RunHasItsRow, Run
<1>2. CASE rows' = (IF recorded THEN [rows EXCEPT ![Run] = st] ELSE rows) /\ UNCHANGED lost
  <2>1. CASE recorded
    BY <1>1, <1>2, <2>1 DEF Run, RowStates
  <2>2. CASE ~recorded
    BY <1>1, <1>2, <2>2
  <2> QED BY <2>1, <2>2
<1>3. CASE rows' = rows /\ lost' = (IF recorded THEN lost \cup {Run} ELSE lost)
  <2>1. CASE recorded
    <3>1. lost' = lost \cup {Len(rows)}
      BY <1>3, <2>1 DEF Run
    <3> QED BY <1>1, <1>3, <3>1
  <2>2. CASE ~recorded
    BY <1>1, <1>3, <2>2
  <2> QED BY <2>1, <2>2
<1> QED BY <1>2, <1>3 DEF EndRow

(* The rows after a run ended: none says "running" but a lost one.         *)
LEMMA EndRowIsLast ==
  ASSUME NewJobIInv, page \in RunPages, NEW st \in {"completed", "failed"}, EndRow(st)
  PROVE  \A r \in 1 .. Len(rows') : rows'[r] = "running" => r \in lost'
<1> SUFFICES ASSUME NEW r \in 1 .. Len(rows'), rows'[r] = "running"
             PROVE  r \in lost'
  OBVIOUS
<1>1. Len(rows') = Len(rows) /\ lost \subseteq lost'
  BY EndRowKeeps
<1>2. CASE r = Len(rows)
  BY <1>2, EndRowKeeps
<1>3. CASE r # Len(rows)
  <2>1. rows[r] = "running"
    BY <1>1, <1>3, EndRowKeeps
  <2> QED BY <1>1, <1>3, <2>1 DEF NewJobIInv, RunningRowIsCurrent, Run
<1> QED BY <1>2, <1>3

(* finalize_rc.                                                            *)
LEMMA FinalizeKeeps ==
  ASSUME NewJobIInv, page \in RunPages, NEW st \in {"completed", "failed"}, Finalize(st)
  PROVE  NewJobIInv'
<1>1. EndRow(st) /\ page' = "idle" /\ watched' = 0 /\ call' = "none"
      /\ UNCHANGED <<verdict, recorded, jobs>>
  BY DEF Finalize
<1>2. RunTypes'
  BY <1>1, EndRowKeeps DEF NewJobIInv, RunTypes, Run, Answers
<1>3. RunningRowIsCurrent'
  BY <1>1, EndRowIsLast DEF RunningRowIsCurrent
<1> QED BY <1>1, <1>2, <1>3 DEF NewJobIInv, RunHasItsRow, WatchedWasAccepted, OkIsFinal, RunPages, RcPages

(* A new row: those before it are over, or lost.                           *)
LEMMA NewRowKeeps ==
  ASSUME NewJobIInv, page \in {"idle", "dialog"}, Run < MaxRuns, NEW row \in RowStates,
         rows' = Append(rows, row), lost \subseteq lost'
  PROVE  /\ rows' \in Seq(RowStates) /\ Len(rows') = Len(rows) + 1 /\ Len(rows') <= MaxRuns
         /\ rows'[Len(rows')] = row
         /\ \A r \in 1 .. Len(rows') : (rows'[r] = "running" /\ r # Len(rows')) => r \in lost'
<1>1. rows \in Seq(RowStates) /\ Len(rows) \in Nat /\ Len(rows) < MaxRuns /\ MaxRuns \in Nat
  BY NewJobAssumption DEF NewJobIInv, RunTypes, Run
<1>2. rows' \in Seq(RowStates) /\ Len(rows') = Len(rows) + 1 /\ Len(rows') <= MaxRuns
  BY <1>1
<1>3. rows'[Len(rows')] = row
  BY <1>1, <1>2
<1>4. ASSUME NEW r \in 1 .. Len(rows'), rows'[r] = "running", r # Len(rows')
      PROVE  r \in lost'
  <2>1. r \in 1 .. Len(rows) /\ rows[r] = "running"
    BY <1>1, <1>2, <1>4
  <2> QED BY <2>1 DEF NewJobIInv, RunningRowIsCurrent, RunPages, RcPages
<1> QED BY <1>2, <1>3, <1>4

(* run(), whether it starts a child, a daemon, or is refused.              *)
LEMMA LaunchKeeps ==
  ASSUME NewJobIInv, page \in {"idle", "dialog"}, NEW d, Launch(d)
  PROVE  NewJobIInv'
<1>1. Run < MaxRuns /\ verdict' = verdict
  BY DEF Launch
<1>2. /\ jobs \in Seq(TransferStates) /\ watched \in Nat /\ call \in Answers
      /\ verdict \in Warnings \cup {"refused"} /\ Len(rows) \in Nat
  BY DEF NewJobIInv, RunTypes
<1>3. CASE RunCli
  <2>1. page' = "cli" /\ UNCHANGED <<lost, jobs, watched, call>> /\ NewRow
    BY <1>3 DEF RunCli, rcVars
  <2>2. PICK row \in {"running", "none"} : rows' = Append(rows, row) /\ (row = "running" => recorded') /\ recorded' \in BOOLEAN
    BY <2>1 DEF NewRow
  <2>3. /\ rows' \in Seq(RowStates) /\ Len(rows') = Len(rows) + 1 /\ Len(rows') <= MaxRuns
        /\ rows'[Len(rows')] = row
        /\ \A r \in 1 .. Len(rows') : (rows'[r] = "running" /\ r # Len(rows')) => r \in lost'
    BY <1>1, <1>2, <2>1, <2>2, NewRowKeeps DEF RowStates
  <2>4. RunTypes'
    BY <1>1, <1>2, <2>1, <2>2, <2>3 DEF RunTypes, Run, RunPages
  <2>5. RunHasItsRow'
    BY <1>2, <2>2, <2>3 DEF RunHasItsRow, Run
  <2>6. RunningRowIsCurrent'
    BY <2>1, <2>3 DEF RunningRowIsCurrent, Run, RunPages
  <2> QED BY <2>1, <2>4, <2>5, <2>6 DEF NewJobIInv, WatchedWasAccepted, OkIsFinal
<1>4. CASE RunRc
  <2>1. page' = "submit" /\ lost' = lost /\ jobs' = <<>> /\ watched' = 0 /\ call' = "none" /\ NewRow
    BY <1>4 DEF RunRc
  <2>2. PICK row \in {"running", "none"} : rows' = Append(rows, row) /\ (row = "running" => recorded') /\ recorded' \in BOOLEAN
    BY <2>1 DEF NewRow
  <2>3. /\ rows' \in Seq(RowStates) /\ Len(rows') = Len(rows) + 1 /\ Len(rows') <= MaxRuns
        /\ rows'[Len(rows')] = row
        /\ \A r \in 1 .. Len(rows') : (rows'[r] = "running" /\ r # Len(rows')) => r \in lost'
    BY <1>1, <1>2, <2>1, <2>2, NewRowKeeps DEF RowStates
  <2>4. RunTypes'
    BY <1>1, <1>2, <2>1, <2>2, <2>3 DEF RunTypes, Run, RunPages, RcPages, Answers
  <2>5. RunHasItsRow'
    BY <1>2, <2>2, <2>3 DEF RunHasItsRow, Run
  <2>6. RunningRowIsCurrent'
    BY <2>1, <2>3 DEF RunningRowIsCurrent, Run, RunPages, RcPages
  <2> QED BY <2>1, <2>4, <2>5, <2>6 DEF NewJobIInv, WatchedWasAccepted, OkIsFinal
<1>5. CASE RunRcRefused
  <2>1. page' = "idle" /\ UNCHANGED <<jobs, watched, call>>
    BY <1>5 DEF RunRcRefused
  <2>2. PICK row \in {"failed", "running", "none"} :
          /\ rows' = Append(rows, row) /\ recorded' \in BOOLEAN
          /\ lost' = (IF row = "running" THEN lost \cup {Run + 1} ELSE lost)
    BY <1>5 DEF RunRcRefused
  <2>3. lost \subseteq lost'
    BY <2>2
  <2>4. /\ rows' \in Seq(RowStates) /\ Len(rows') = Len(rows) + 1 /\ Len(rows') <= MaxRuns
        /\ rows'[Len(rows')] = row
        /\ \A r \in 1 .. Len(rows') : (rows'[r] = "running" /\ r # Len(rows')) => r \in lost'
    BY <1>1, <1>2, <2>2, <2>3, NewRowKeeps DEF RowStates
  <2>5. RunTypes'
    BY <1>1, <1>2, <2>1, <2>2, <2>3, <2>4 DEF RunTypes, Run
  <2>6. RunningRowIsCurrent'
    BY <1>2, <2>2, <2>4 DEF RunningRowIsCurrent, Run
  <2> QED BY <2>1, <2>5, <2>6 DEF NewJobIInv, RunHasItsRow, WatchedWasAccepted, OkIsFinal, RunPages, RcPages
<1> QED BY <1>3, <1>4, <1>5 DEF Launch

(* Steps that leave the run and its transfers alone.                       *)
LEMMA PageOnlyKeeps ==
  ASSUME NewJobIInv, UNCHANGED <<rows, recorded, lost, jobs, watched, call, page>>,
         verdict' \in Warnings \cup {"refused"}
  PROVE  NewJobIInv'
BY DEF NewJobIInv, RunTypes, RunHasItsRow, WatchedWasAccepted, OkIsFinal, RunningRowIsCurrent, Run

LEMMA PageNextKeeps == NewJobIInv /\ PageNext => NewJobIInv'
<1> SUFFICES ASSUME NewJobIInv, PageNext PROVE NewJobIInv'
  OBVIOUS
<1> USE DEF rowVars, rcVars, formVars
<1>1. CASE StartAsks
  BY <1>1 DEF StartAsks, NewJobIInv, RunTypes, RunHasItsRow, WatchedWasAccepted, OkIsFinal,
              RunningRowIsCurrent, Run, RunPages, RcPages
<1>2. CASE StartRuns
  BY <1>2, LaunchKeeps DEF StartRuns
<1>3. CASE DryRun
  BY <1>3, LaunchKeeps DEF DryRun
<1>4. CASE DialogRuns
  BY <1>4, LaunchKeeps DEF DialogRuns
<1>5. CASE DialogDryRuns
  BY <1>5, LaunchKeeps DEF DialogDryRuns
<1>6. CASE DialogCloses
  BY <1>6 DEF DialogCloses, NewJobIInv, RunTypes, RunHasItsRow, WatchedWasAccepted, OkIsFinal,
              RunningRowIsCurrent, Run, RunPages, RcPages
<1>7. CASE \E f \in Forms : EditForm(f)
  BY <1>7, PageOnlyKeeps DEF EditForm, NewJobIInv, RunTypes
<1>8. CASE ToggleConfirm
  BY <1>8, PageOnlyKeeps DEF ToggleConfirm, NewJobIInv, RunTypes
<1>9. CASE Cancel
  <2>1. UNCHANGED <<rows, recorded, lost, jobs, watched, call, page, verdict>>
    BY <1>9 DEF Cancel
  <2> QED BY <2>1, PageOnlyKeeps DEF NewJobIInv, RunTypes
<1> QED BY <1>1, <1>2, <1>3, <1>4, <1>5, <1>6, <1>7, <1>8, <1>9 DEF PageNext

(* The end of a streamed run.                                              *)
LEMMA CliEndsKeeps == NewJobIInv /\ CliEnds => NewJobIInv'
<1> SUFFICES ASSUME NewJobIInv, CliEnds PROVE NewJobIInv'
  OBVIOUS
<1> DEFINE st == IF child = "ok" THEN "completed" ELSE "failed"
<1>1. /\ st \in {"completed", "failed"} /\ EndRow(st) /\ page = "cli" /\ page' = "idle"
      /\ UNCHANGED <<verdict, recorded, jobs, watched, call>>
  BY DEF CliEnds, rcVars
<1> HIDE DEF st
<1>2. page \in RunPages
  BY <1>1 DEF RunPages
<1>3. RunTypes'
  BY <1>1, <1>2, EndRowKeeps DEF NewJobIInv, RunTypes, Run
<1>4. RunningRowIsCurrent'
  BY <1>1, <1>2, EndRowIsLast DEF RunningRowIsCurrent
<1> QED BY <1>1, <1>3, <1>4 DEF NewJobIInv, RunHasItsRow, WatchedWasAccepted, OkIsFinal, RunPages, RcPages

(* The coroutine moves to another of its pages, with the rows as they were. *)
LEMMA RcPageKeeps ==
  ASSUME NewJobIInv, page \in RcPages, page' \in RcPages, call' \in Answers, watched' \in Nat,
         UNCHANGED <<verdict, rows, recorded, lost, jobs>>, WatchedWasAccepted', OkIsFinal'
  PROVE  NewJobIInv'
BY DEF NewJobIInv, RunTypes, RunHasItsRow, RunningRowIsCurrent, Run, RunPages

LEMMA CoroutineKeeps == NewJobIInv /\ CoroutineNext => NewJobIInv'
<1> SUFFICES ASSUME NewJobIInv, CoroutineNext PROVE NewJobIInv'
  OBVIOUS
<1> USE DEF rowVars
<1>1. CASE SubmitTick
  <2>1. page = "submit"
    BY <1>1 DEF SubmitTick
  <2>2. CASE cancelled
    BY <1>1, <2>1, <2>2, FinalizeKeeps DEF SubmitTick, RunPages, RcPages
  <2>3. CASE ~cancelled
    <3>1. page' = "submitting" /\ call' = "sent" /\ UNCHANGED <<verdict, rows, recorded, lost, jobs, watched>>
      BY <1>1, <2>3 DEF SubmitTick
    <3> QED BY <2>1, <3>1, RcPageKeeps
               DEF RcPages, Answers, WatchedWasAccepted, OkIsFinal, NewJobIInv, RunTypes
  <2> QED BY <2>2, <2>3
<1>2. CASE SubmitAnswered
  <2>1. page = "submitting"
    BY <1>2 DEF SubmitAnswered
  <2>2. CASE call = "accepted"
    <3>1. page' = "poll" /\ watched' = Len(jobs) /\ call' = "none" /\ UNCHANGED <<verdict, rows, recorded, lost, jobs>>
      BY <1>2, <2>2 DEF SubmitAnswered
    <3>2. jobs \in Seq(TransferStates) /\ jobs # <<>>
      BY <2>1, <2>2 DEF NewJobIInv, RunTypes, WatchedWasAccepted
    <3>3. watched' \in 1 .. Len(jobs)
      BY <3>1, <3>2
    <3> QED BY <2>1, <3>1, <3>3, RcPageKeeps DEF RcPages, Answers, WatchedWasAccepted, OkIsFinal
  <2>3. CASE call # "accepted" /\ attempts > 0
    <3>1. page' = "submit" /\ call' = "none" /\ UNCHANGED <<verdict, rows, recorded, lost, jobs, watched>>
      BY <1>2, <2>3 DEF SubmitAnswered
    <3> QED BY <2>1, <3>1, RcPageKeeps
               DEF RcPages, Answers, WatchedWasAccepted, OkIsFinal, NewJobIInv, RunTypes
  <2>4. CASE call # "accepted" /\ ~(attempts > 0)
    BY <1>2, <2>1, <2>4, FinalizeKeeps DEF SubmitAnswered, RunPages, RcPages
  <2> QED BY <2>2, <2>3, <2>4
<1>3. CASE PollTick
  <2>1. page = "poll"
    BY <1>3 DEF PollTick
  <2>2. CASE cancelled
    BY <1>3, <2>1, <2>2, FinalizeKeeps DEF PollTick, RunPages, RcPages
  <2>3. CASE ~cancelled
    <3>1. page' = "stats" /\ call' = "sent" /\ UNCHANGED <<verdict, rows, recorded, lost, jobs, watched>>
      BY <1>3, <2>3 DEF PollTick
    <3> QED BY <2>1, <3>1, RcPageKeeps
               DEF RcPages, Answers, WatchedWasAccepted, OkIsFinal, NewJobIInv, RunTypes
  <2> QED BY <2>2, <2>3
<1>4. CASE StatsAnswered
  <2>1. /\ page = "stats" /\ page' = "status" /\ call' = "sent"
        /\ UNCHANGED <<verdict, rows, recorded, lost, jobs, watched>>
    BY <1>4 DEF StatsAnswered
  <2> QED BY <2>1, RcPageKeeps
             DEF RcPages, Answers, WatchedWasAccepted, OkIsFinal, NewJobIInv, RunTypes
<1>5. CASE StatusAnswered
  <2>1. page = "status"
    BY <1>5 DEF StatusAnswered
  <2>2. CASE call \in {"ok", "bad", "failed"}
    BY <1>5, <2>1, <2>2, FinalizeKeeps DEF StatusAnswered, RunPages, RcPages
  <2>3. CASE call \notin {"ok", "bad", "failed"}
    <3>1. page' = "poll" /\ call' = "none" /\ UNCHANGED <<verdict, rows, recorded, lost, jobs, watched>>
      BY <1>5, <2>3 DEF StatusAnswered
    <3> QED BY <2>1, <3>1, RcPageKeeps
               DEF RcPages, Answers, WatchedWasAccepted, OkIsFinal, NewJobIInv, RunTypes
  <2> QED BY <2>2, <2>3
<1> QED BY <1>1, <1>2, <1>3, <1>4, <1>5 DEF CoroutineNext

(* The daemon's side: transfers only begin, and end once; an answer comes, *)
(* and the page is where it was.                                           *)
LEMMA WorldKeepsPage ==
  ASSUME NewJobIInv, UNCHANGED <<verdict, page, rows, recorded, lost, watched>>,
         jobs' \in Seq(TransferStates), call' \in Answers, Len(jobs') >= Len(jobs),
         (page = "submitting" /\ call' = "accepted") => jobs' # <<>>, OkIsFinal'
  PROVE  NewJobIInv'
<1>1. Len(jobs) \in Nat /\ Len(jobs') \in Nat
  BY DEF NewJobIInv, RunTypes
<1>2. WatchedWasAccepted'
  BY <1>1 DEF NewJobIInv, WatchedWasAccepted
<1> QED BY <1>2 DEF NewJobIInv, RunTypes, RunHasItsRow, RunningRowIsCurrent, Run

LEMMA WorldKeeps == NewJobIInv /\ WorldNext => NewJobIInv'
<1> SUFFICES ASSUME NewJobIInv, WorldNext PROVE NewJobIInv'
  OBVIOUS
<1> USE DEF rowVars, rcVars, formVars
<1>a. jobs \in Seq(TransferStates) /\ Len(jobs) \in Nat /\ call \in Answers
      /\ verdict \in Warnings \cup {"refused"}
  BY DEF NewJobIInv, RunTypes
<1>b. page = "submitting" /\ call = "accepted" => jobs # <<>>
  BY DEF NewJobIInv, WatchedWasAccepted
<1>c. page = "status" /\ call = "ok" => watched \in 1 .. Len(jobs) /\ jobs[watched] = "ok"
  BY DEF NewJobIInv, WatchedWasAccepted, OkIsFinal
<1>1. CASE ChildEnds
  BY <1>1, <1>a, PageOnlyKeeps DEF ChildEnds
<1>2. ASSUME NEW r \in 1 .. MaxRuns, DaemonBinds(r) PROVE NewJobIInv'
  BY <1>2, <1>a, PageOnlyKeeps DEF DaemonBinds
<1>3. ASSUME NEW r \in 1 .. MaxRuns, DaemonEnds(r) PROVE NewJobIInv'
  <2>1. UNCHANGED <<verdict, page, rows, recorded, lost, watched, call>>
    BY <1>3 DEF DaemonEnds
  <2> DEFINE ended == [i \in 1 .. Len(jobs) |-> IF jobs[i] = "running" THEN "bad" ELSE jobs[i]]
  <2>2. jobs' = ended \/ jobs' = jobs
    BY <1>3 DEF DaemonEnds
  <2>3. /\ ended \in Seq(TransferStates) /\ Len(ended) = Len(jobs)
        /\ \A i \in 1 .. Len(jobs) : jobs[i] = "ok" => ended[i] = "ok"
    <3>1. \A i \in 1 .. Len(jobs) : ended[i] \in TransferStates
      BY <1>a DEF TransferStates
    <3> QED BY <1>a, <3>1
  <2> HIDE DEF ended
  <2>4. jobs' \in Seq(TransferStates) /\ Len(jobs') = Len(jobs)
    BY <1>a, <2>2, <2>3
  <2>5. OkIsFinal'
    BY <1>c, <2>1, <2>2, <2>3 DEF OkIsFinal
  <2>6. (page = "submitting" /\ call' = "accepted") => jobs' # <<>>
    <3>1. Len(jobs') = 0 => Len(jobs) = 0
      BY <2>4
    <3>2. Len(jobs) = 0 => jobs = <<>>
      BY <1>a
    <3> QED BY <1>b, <2>1, <3>1, <3>2
  <2> QED BY <1>a, <2>1, <2>4, <2>5, <2>6, WorldKeepsPage
<1>4. ASSUME NEW i \in 1 .. Len(jobs), TransferEnds(i) PROVE NewJobIInv'
  <2>1. UNCHANGED <<verdict, page, rows, recorded, lost, watched, call>> /\ jobs[i] = "running"
    BY <1>4 DEF TransferEnds
  <2>2. PICK t \in {"ok", "bad"} : jobs' = [jobs EXCEPT ![i] = t]
    BY <1>4 DEF TransferEnds
  <2>3. /\ jobs' \in Seq(TransferStates) /\ Len(jobs') = Len(jobs)
        /\ \A k \in 1 .. Len(jobs) : k # i => jobs'[k] = jobs[k]
    BY <1>a, <2>2 DEF TransferStates
  <2>4. OkIsFinal'
    BY <1>c, <2>1, <2>3 DEF OkIsFinal
  <2>5. (page = "submitting" /\ call' = "accepted") => jobs' # <<>>
    <3>1. Len(jobs') = 0 => Len(jobs) = 0
      BY <2>3
    <3>2. Len(jobs) = 0 => jobs = <<>>
      BY <1>a
    <3> QED BY <1>b, <2>1, <3>1, <3>2
  <2> QED BY <1>a, <2>1, <2>3, <2>4, <2>5, WorldKeepsPage
<1>5. CASE CallServed
  <2>1. UNCHANGED <<verdict, page, rows, recorded, lost, watched>>
    BY <1>5 DEF CallServed
  <2>2. CASE page = "submitting"
    <3>1. jobs' = Append(jobs, "running") /\ call' \in {"accepted", "failed"}
      BY <1>5, <2>2 DEF CallServed
    <3>2. jobs' \in Seq(TransferStates) /\ Len(jobs') = Len(jobs) + 1 /\ jobs' # <<>>
      BY <1>a, <3>1 DEF TransferStates
    <3> QED BY <1>a, <2>1, <2>2, <3>1, <3>2, WorldKeepsPage DEF OkIsFinal, Answers
  <2>3. CASE page = "status"
    <3>1. call' \in {jobs[watched], "garbled"} /\ jobs' = jobs
      BY <1>5, <2>3 DEF CallServed
    <3>2. watched \in 1 .. Len(jobs)
      BY <2>3 DEF NewJobIInv, WatchedWasAccepted
    <3>3. call' \in Answers
      BY <1>a, <3>1, <3>2 DEF Answers
    <3>4. OkIsFinal'
      BY <2>1, <3>1 DEF OkIsFinal
    <3> QED BY <1>a, <2>1, <2>3, <3>1, <3>3, <3>4, WorldKeepsPage
  <2>4. CASE page \notin {"submitting", "status"}
    <3>1. call' = "ok" /\ jobs' = jobs
      BY <1>5, <2>4 DEF CallServed
    <3> QED BY <1>a, <2>1, <2>4, <3>1, WorldKeepsPage DEF OkIsFinal, Answers, TransferStates
  <2> QED BY <2>2, <2>3, <2>4
<1>6. CASE CallFails
  <2>1. call' = "failed" /\ UNCHANGED <<verdict, page, rows, recorded, lost, watched, jobs>>
    BY <1>6 DEF CallFails
  <2> QED BY <1>a, <2>1, WorldKeepsPage DEF OkIsFinal, Answers
<1>7. CASE \E v \in Warnings \cup {"refused"} : PathsChange(v)
  BY <1>7, PageOnlyKeeps DEF PathsChange
<1> QED BY <1>1, <1>2, <1>3, <1>4, <1>5, <1>6, <1>7 DEF WorldNext

(* The invariant holds in every reachable state.                           *)
THEOREM RunIsTheCurrentOne == Spec => []NewJobIInv
<1>1. NewJobIInv /\ UNCHANGED vars => NewJobIInv'
  BY PageOnlyKeeps DEF vars, NewJobIInv, RunTypes
<1>2. NewJobIInv /\ [Next]_vars => NewJobIInv'
  BY <1>1, PageNextKeeps, CliEndsKeeps, CoroutineKeeps, WorldKeeps DEF Next
<1> QED BY <1>2, NewJobInit, PTL DEF Spec

(* Only the run in progress says "running", however many runs there were   *)
(* and whichever of their writes were lost (new_job.rs:895-904, 1181-1196). *)
THEOREM OnlyTheCurrentRowRuns == Spec => []RunningRowIsCurrent
<1>1. NewJobIInv => RunningRowIsCurrent
  BY DEF NewJobIInv
<1> QED BY <1>1, RunIsTheCurrentOne, PTL

(* Outside the callbacks that start a job the page does not come to run    *)
(* one.                                                                    *)
LEMMA OnlyLaunchesRun ==
  ASSUME NewJobIInv, page \in {"idle", "dialog"}, page' \in RunPages, Next
  PROVE  StartRuns \/ DryRun \/ DialogRuns \/ DialogDryRuns
<1> USE DEF RunPages, RcPages
<1>1. ~(StartAsks \/ DialogCloses \/ ToggleConfirm \/ Cancel \/ \E f \in Forms : EditForm(f))
  BY DEF StartAsks, DialogCloses, ToggleConfirm, Cancel, EditForm
<1>2. ~CliEnds /\ ~CoroutineNext
  BY DEF CliEnds, CoroutineNext, SubmitTick, SubmitAnswered, PollTick, StatsAnswered, StatusAnswered
<1>3. ~WorldNext
  BY DEF WorldNext, ChildEnds, DaemonBinds, DaemonEnds, TransferEnds, CallServed, CallFails, PathsChange
<1> QED BY <1>1, <1>2, <1>3 DEF Next, PageNext

(* A live run has the consent its form and its paths called for at the     *)
(* moment it starts, not when they were last looked at                     *)
(* (new_job.rs:808-881).                                                   *)
THEOREM LiveRunsAreConsented == Spec => LiveRunsConsented
<1> DEFINE Consented ==
      (page \in {"idle", "dialog"} /\ page' \in RunPages /\ ~dry') =>
        \/ page = "dialog" /\ verdict = promised
        \/ verdict = "clean" /\ (form \in Destructive => ~confirm)
<1>1. NewJobIInv /\ [Next]_vars => [Consented]_vars
  <2> SUFFICES ASSUME NewJobIInv, Next, page \in {"idle", "dialog"}, page' \in RunPages, ~dry'
               PROVE  \/ page = "dialog" /\ verdict = promised
                      \/ verdict = "clean" /\ (form \in Destructive => ~confirm)
    OBVIOUS
  <2>1. CASE StartRuns
    BY <2>1 DEF StartRuns, NeedsDialog, NewJobIInv, RunTypes, Warnings
  <2>2. CASE DialogRuns
    BY <2>2 DEF DialogRuns
  <2>3. ~DryRun /\ ~DialogDryRuns
    BY DEF DryRun, DialogDryRuns, Launch
  <2> QED BY <2>1, <2>2, <2>3, OnlyLaunchesRun
<1> QED BY <1>1, RunIsTheCurrentOne, PTL DEF Spec, LiveRunsConsented

(* Of the rows that exist, a step touches at most that of the current run, *)
(* and makes it say completed only on the word of its child or transfer.   *)
LEMMA CompletionHasAReason ==
  ASSUME NewJobIInv, Next, NEW r \in 1 .. Len(rows), rows[r] = "running", rows'[r] = "completed"
  PROVE  child = "ok" \/ (page = "status" /\ jobs[watched] = "ok")
<1> USE DEF rowVars
<1>1. ASSUME NEW st \in {"completed", "failed"}, page \in RunPages, EndRow(st) PROVE st = "completed"
  BY <1>1, EndRowKeeps
<1>2. ASSUME NEW st \in {"completed", "failed"}, page \in RunPages, Finalize(st) PROVE st = "completed"
  BY <1>1, <1>2 DEF Finalize
<1>3. ASSUME NEW x, rows' = Append(rows, x) PROVE FALSE
  BY <1>3 DEF NewJobIInv, RunTypes
<1>4. ~Launch(TRUE) /\ ~Launch(FALSE)
  BY <1>3 DEF Launch, RunCli, RunRc, RunRcRefused, NewRow
<1>5. ~PageNext
  BY <1>4 DEF PageNext, StartAsks, StartRuns, DryRun, DialogRuns, DialogDryRuns, DialogCloses,
              EditForm, ToggleConfirm, Cancel
<1>6. ~WorldNext
  BY DEF WorldNext, ChildEnds, DaemonBinds, DaemonEnds, TransferEnds, CallServed, CallFails, PathsChange
<1>7. ASSUME CliEnds PROVE child = "ok"
  BY <1>1, <1>7 DEF CliEnds, RunPages
<1>8. ASSUME CoroutineNext PROVE page = "status" /\ call = "ok"
  <2>1. ~Finalize("failed") \/ page \notin RunPages
    BY <1>2
  <2>2. ~SubmitTick /\ ~SubmitAnswered /\ ~PollTick /\ ~StatsAnswered
    BY <2>1 DEF SubmitTick, SubmitAnswered, PollTick, StatsAnswered, RunPages, RcPages
  <2>3. StatusAnswered
    BY <1>8, <2>2 DEF CoroutineNext
  <2> QED BY <2>1, <2>3 DEF StatusAnswered, RunPages, RcPages
<1> QED BY <1>5, <1>6, <1>7, <1>8 DEF Next, NewJobIInv, OkIsFinal

(* A run said to have completed did: a child that exited with 0, or the    *)
(* very transfer that was watched (new_job.rs:1116-1177).                  *)
THEOREM CompletedMeansSuccess == Spec => CompletedIsTrue
<1>1. NewJobIInv /\ [Next]_vars =>
        [\A r \in 1 .. Len(rows) : (rows[r] = "running" /\ rows'[r] = "completed") =>
            child = "ok" \/ (page = "status" /\ jobs[watched] = "ok")]_vars
  BY CompletionHasAReason
<1> QED BY <1>1, RunIsTheCurrentOne, PTL DEF Spec, CompletedIsTrue
=============================================================================
