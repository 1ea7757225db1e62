---------------------------- MODULE Process_proofs ----------------------------
(***************************************************************************)
(* Proofs about Process for every capacity of the channel and the pipes    *)
(* and any number of lines: the events of a streamed run implement         *)
(* RunContract, no line is lost or overtaken on its way, a termination is   *)
(* whole, and so is a capture that is answered with output.                *)
(***************************************************************************)
EXTENDS Process, Lists_proofs

Finishes == {"finished"} \X BOOLEAN

Events == {Started, Progress, Error} \cup ({"line"} \X Streams \X Nat) \cup Finishes

(* Every event that is sent is one of these.                               *)
LEMMA EventsOfTheRun ==
  /\ Started \in Events /\ Progress \in Events /\ Error \in Events
  /\ \A s \in Streams, n \in Nat : Line(s, n) \in Events
  /\ \A b \in BOOLEAN : Finished(b) \in Finishes
<1>1. Started \in Events /\ Progress \in Events /\ Error \in Events
  BY DEF Events
<1>2. ASSUME NEW s \in Streams, NEW n \in Nat PROVE Line(s, n) \in Events
  BY DEF Events, Line
<1>3. ASSUME NEW b \in BOOLEAN PROVE Finished(b) \in Finishes
  BY DEF Finishes, Finished
<1> QED BY <1>1, <1>2, <1>3

(* What the holder looks at tells the events apart.                        *)
LEMMA EventKinds ==
  /\ \A e \in Events : e[1] = "finished" <=> e \in Finishes
  /\ Started \notin Finishes /\ Progress \notin Finishes /\ Error \notin Finishes
  /\ \A s \in Streams, n \in Nat : Line(s, n) \notin Finishes /\ Line(s, n) # Started
  /\ Started # Progress /\ Started # Error
<1>1. Started[1] = "started" /\ Progress[1] = "progress" /\ Error[1] = "error"
  BY DEF Started, Progress, Error
<1>2. ASSUME NEW s \in Streams, NEW n \in Nat PROVE Line(s, n)[1] = "line"
  BY DEF Line
<1>3. \A e \in Finishes : e[1] = "finished"
  BY DEF Finishes
<1>4. \A e \in {"line"} \X Streams \X Nat : e[1] = "line"
  OBVIOUS
<1>5. ASSUME NEW e \in Events, e[1] = "finished" PROVE e \in Finishes
  BY <1>1, <1>4, <1>5 DEF Events
<1> QED BY <1>1, <1>2, <1>3, <1>5

-----------------------------------------------------------------------------
GroupTypes ==
  /\ leader \in {"unborn", "live", "asked", "dead"}
  /\ status \in {"none", "ok", "bad"}
  /\ status # "none" <=> leader = "dead"
  /\ pipe \in [Streams -> Seq(Nat)]
  /\ wrote \in [Streams -> Nat]

StreamTypes ==
  /\ hand \in [Streams -> Nat]
  /\ received \in Seq(Events)
  /\ channel \in Seq(Events)

FirstIsStarted ==
  \/ received # << >> /\ received[1] = Started
  \/ received = << >> /\ channel # << >> /\ channel[1] = Started

(* Before Started is sent nothing else moves.                              *)
Quiet ==
  /\ received = << >> /\ channel = << >> /\ waiter = "idle"
  /\ \A s \in Streams : reader[s] = "idle" /\ hand[s] = 0

(* How far the task of the run is, against the life of its child.          *)
StreamPlace ==
  /\ driver \in {"stream", "capture"}
  /\ driver = "capture" => drive = "spawn"
  /\ drive \in {"spawn", "announce", "join", "report", "finish", "over"}
  /\ (IF driver = "stream" THEN drive = "spawn" ELSE capture = "spawn") => leader = "unborn"
  /\ drive \in {"announce", "join"} => leader # "unborn"
  /\ drive \in {"spawn", "announce"} => Quiet
  /\ drive \in {"report", "finish", "over"} => leader \in {"unborn", "dead"}
  /\ waiter = "done" => leader = "dead"
  /\ mailbox => asked

(* Of a child that exists Started is the first event, of no other it is    *)
(* one, and Finished in the channel is true of a child that is gone.       *)
EventsInOrder ==
  /\ leader # "unborn" /\ drive \notin {"spawn", "announce"} => FirstIsStarted
  /\ leader = "unborn" =>
       /\ \A i \in 1 .. Len(received) : received[i] # Started
       /\ \A i \in 1 .. Len(channel) : channel[i] # Started
  /\ \A i \in 1 .. Len(channel) : channel[i] \in Finishes =>
       /\ leader \in {"unborn", "dead"}
       /\ channel[i][2] => status = "ok"

StreamIInv == GroupTypes /\ StreamTypes /\ StreamPlace /\ EventsInOrder

-----------------------------------------------------------------------------
(* A run starts with no child, no event and nothing under way.             *)
LEMMA StreamInitIInv == Init => StreamIInv
<1> SUFFICES ASSUME Init PROVE StreamIInv
  OBVIOUS
<1> USE DEF Init, GroupInit, StreamInit
<1>1. GroupTypes
  BY DEF GroupTypes, Streams
<1>2. StreamTypes
  BY DEF StreamTypes
<1>3. StreamPlace
  BY DEF StreamPlace, Quiet, CaptureInit
<1>4. EventsInOrder
  BY DEF EventsInOrder
<1> QED BY <1>1, <1>2, <1>3, <1>4 DEF StreamIInv

(* The types, step by step of the group and of the drivers.                *)
LEMMA GroupTypesStep == GroupTypes /\ StreamPlace /\ Next => GroupTypes'
<1> SUFFICES ASSUME GroupTypes, StreamPlace, Next PROVE GroupTypes'
  OBVIOUS
<1> USE DEF GroupTypes
<1>1. CASE UNCHANGED groupVars
  BY <1>1 DEF groupVars
<1>2. CASE GroupNext
  <2>1. ASSUME NEW s \in Streams, WriteLine(s) PROVE GroupTypes'
    <3>1. wrote' = [wrote EXCEPT ![s] = wrote[s] + 1] /\ UNCHANGED <<leader, status>>
          /\ pipe' = [pipe EXCEPT ![s] = Append(pipe[s], wrote'[s])]
      BY <2>1 DEF WriteLine
    <3>2. wrote' \in [Streams -> Nat]
      BY <3>1
    <3> QED BY <3>1, <3>2
  <2>2. ASSUME NEW s \in Streams, WriteProgress(s) PROVE GroupTypes'
    BY <2>2 DEF WriteProgress
  <2>3. CASE Fork
    BY <2>3 DEF Fork
  <2>4. CASE LeaderExits
    BY <2>4 DEF LeaderExits, LeaderRuns
  <2>5. CASE HelperExits
    BY <2>5 DEF HelperExits
  <2> QED BY <1>2, <2>1, <2>2, <2>3, <2>4, <2>5 DEF GroupNext
<1>3. CASE Birth /\ status = "none"
  BY <1>3 DEF Birth
<1>4. CASE Sigterm
  BY <1>4 DEF Sigterm
<1>5. CASE Sigkill
  BY <1>5 DEF Sigkill, LeaderRuns
<1>6. ASSUME NEW s \in Streams, pipe[s] # << >>, pipe' = [pipe EXCEPT ![s] = Tail(@)],
             UNCHANGED <<leader, status, wrote>>
      PROVE  GroupTypes'
  BY <1>6
<1>7. CASE driver = "stream" /\ StreamNext
  <2>1. CASE Spawns
    BY <1>3, <1>7, <2>1 DEF Spawns, StreamPlace
  <2>2. CASE SpawnFails \/ Announce \/ SeesExit \/ Joined \/ Report \/ Finish \/ Receive
             \/ Cancel \/ DropHandle
    BY <1>1, <2>2 DEF SpawnFails, Announce, SeesExit, Joined, Report, Finish, Receive, Cancel,
                      DropHandle
  <2>3. CASE TakesCancel
    BY <1>4, <2>3 DEF TakesCancel
  <2>4. CASE GraceObeyed \/ GraceOver
    BY <1>5, <2>4 DEF GraceObeyed, GraceOver
  <2>5. ASSUME NEW s \in Streams, ReadProgress(s) \/ ReadLine(s) PROVE GroupTypes'
    BY <1>6, <2>5 DEF ReadProgress, ReadLine
  <2>6. ASSUME NEW s \in Streams, SendLine(s) \/ ReadEnds(s) \/ ReadFails(s) PROVE GroupTypes'
    BY <1>1, <2>6 DEF SendLine, ReadEnds, ReadFails
  <2> QED BY <1>7, <2>1, <2>2, <2>3, <2>4, <2>5, <2>6 DEF StreamNext, WaiterNext, ReaderNext
<1>8. CASE driver = "capture" /\ CaptureNext
  <2>1. CASE CaptureSpawns
    BY <1>3, <1>8, <2>1 DEF CaptureSpawns, StreamPlace
  <2>2. CASE CaptureSpawnFails \/ Reap \/ Completes
    BY <1>1, <2>2 DEF CaptureSpawnFails, Reap, Completes
  <2>3. CASE TimesOut
    BY <1>1, <1>5, <2>3 DEF TimesOut
  <2>4. ASSUME NEW s \in Streams, Drain(s) PROVE GroupTypes'
    BY <1>6, <2>4 DEF Drain
  <2>5. ASSUME NEW s \in Streams, DrainEnds(s) \/ DrainFails(s) PROVE GroupTypes'
    BY <1>1, <2>5 DEF DrainEnds, DrainFails
  <2> QED BY <1>8, <2>1, <2>2, <2>3, <2>4, <2>5 DEF CaptureNext
<1> QED BY <1>2, <1>7, <1>8 DEF Next

(* The types of what the runner keeps: lines and events are passed on.     *)
LEMMA StreamTypesStep == GroupTypes /\ StreamTypes /\ Next => StreamTypes'
<1> SUFFICES ASSUME GroupTypes, StreamTypes, Next PROVE StreamTypes'
  OBVIOUS
<1>1. Finishes \subseteq Events
  BY DEF Events
<1> USE DEF StreamTypes
<1>2. CASE UNCHANGED <<hand, received, channel>>
  BY <1>2
<1>3. ASSUME NEW e \in Events, UNCHANGED <<hand, received>>, Send(e) \/ TrySend(e)
      PROVE  StreamTypes'
  BY SMTT(30), <1>3 DEF Send, TrySend
<1>4. CASE driver = "stream" /\ StreamNext
  <2>1. CASE Spawns \/ SpawnFails \/ SeesExit \/ GraceObeyed \/ GraceOver \/ Joined \/ Cancel
             \/ DropHandle
    BY <1>2, <2>1 DEF Spawns, SpawnFails, SeesExit, GraceObeyed, GraceOver, Joined, Cancel,
                      DropHandle
  <2>2. CASE Announce
    BY <1>3, <2>2, EventsOfTheRun DEF Announce
  <2>3. CASE TakesCancel
    BY <1>3, <2>3, EventsOfTheRun DEF TakesCancel
  <2>4. CASE Report
    BY <1>3, <2>4, EventsOfTheRun DEF Report
  <2>5. CASE Finish
    <3>1. Finished(~OutputFailed /\ status = "ok") \in Events
      <4>1. (~OutputFailed /\ status = "ok") \in BOOLEAN
        OBVIOUS
      <4> QED BY <1>1, <4>1, EventsOfTheRun
    <3> QED BY <1>3, <2>5, <3>1 DEF Finish
  <2>6. CASE Receive
    BY <2>6 DEF Receive
  <2>7. ASSUME NEW s \in Streams, ReadProgress(s) PROVE StreamTypes'
    BY <1>3, <2>7, EventsOfTheRun DEF ReadProgress
  <2>8. ASSUME NEW s \in Streams, ReadLine(s) PROVE StreamTypes'
    BY <2>8 DEF ReadLine, GroupTypes
  <2>9. ASSUME NEW s \in Streams, SendLine(s) PROVE StreamTypes'
    BY <2>9, EventsOfTheRun DEF SendLine, Send
  <2>10. ASSUME NEW s \in Streams, ReadEnds(s) \/ ReadFails(s) PROVE StreamTypes'
    BY <1>2, <2>10 DEF ReadEnds, ReadFails
  <2> QED BY <1>4, <2>1, <2>2, <2>3, <2>4, <2>5, <2>6, <2>7, <2>8, <2>9, <2>10
          DEF StreamNext, WaiterNext, ReaderNext
<1> QED BY <1>2, <1>4 DEF Next, streamVars

(* The task's progress: until Announce nothing moves, and the join is over *)
(* only when the child is.                                                 *)
LEMMA StreamPlaceStep == StreamIInv /\ Next => StreamPlace'
<1> SUFFICES ASSUME StreamIInv, Next PROVE StreamPlace'
  OBVIOUS
<1> USE DEF StreamIInv, StreamPlace
<1>1. CASE GroupNext /\ UNCHANGED <<streamVars, captureVars, driver>>
  <2>1. leader' = leader \/ (LeaderRuns /\ leader' = "dead")
    BY <1>1, Zenon DEF GroupNext, WriteLine, WriteProgress, Fork, LeaderExits, HelperExits
  <2> QED BY <1>1, <2>1 DEF streamVars, captureVars, Quiet, LeaderRuns, GroupTypes
<1>2. CASE driver = "capture" /\ CaptureNext /\ UNCHANGED <<streamVars, driver>>
  <2>1. drive = "spawn" /\ UNCHANGED <<drive, waiter, received, channel, reader, hand, asked,
                                       mailbox, driver>>
    BY <1>2 DEF streamVars
  <2>2. waiter = "idle"
    BY <2>1 DEF Quiet
  <2>3. capture' = "spawn" => UNCHANGED <<leader, capture>>
    BY <1>2 DEF CaptureNext, CaptureSpawns, CaptureSpawnFails, Drain, DrainEnds, DrainFails, Reap,
                Completes, TimesOut, groupVars
  <2> QED BY <1>2, <2>1, <2>2, <2>3 DEF Quiet
<1>3. CASE driver = "stream" /\ StreamNext /\ UNCHANGED <<captureVars, driver>>
  <2> USE <1>3
  <2>1. CASE Spawns
    BY <2>1 DEF Spawns, Birth, Quiet
  <2>2. CASE SpawnFails
    BY <2>2 DEF SpawnFails, groupVars, Quiet
  <2>3. CASE Announce
    BY <2>3 DEF Announce, groupVars, Quiet
  <2>4. CASE SeesExit
    BY <2>4 DEF SeesExit, groupVars, Quiet
  <2>5. CASE TakesCancel
    BY <2>5 DEF TakesCancel, Sigterm, Quiet
  <2>6. CASE GraceObeyed
    BY <2>6 DEF GraceObeyed, Sigkill, LeaderRuns, Quiet
  <2>7. CASE GraceOver
    BY <2>7 DEF GraceOver, Sigkill, LeaderRuns, Quiet
  <2>8. CASE Joined
    BY <2>8 DEF Joined, groupVars
  <2>9. CASE Report \/ Finish
    BY <2>9 DEF Report, Finish, groupVars
  <2>10. CASE Receive
    BY <2>10 DEF Receive, groupVars, Quiet
  <2>11. CASE Cancel \/ DropHandle
    BY <2>11 DEF Cancel, DropHandle, groupVars, Quiet
  <2>12. ASSUME NEW s \in Streams, ReaderNext(s) PROVE StreamPlace'
    <3>1. drive \notin {"spawn", "announce"}
      BY <2>12 DEF ReaderNext, ReadProgress, ReadLine, SendLine, ReadEnds, ReadFails, Reading, Quiet
    <3>2. UNCHANGED <<drive, waiter, mailbox, asked, leader>>
      BY <2>12 DEF ReaderNext, ReadProgress, ReadLine, SendLine, ReadEnds, ReadFails, groupVars
    <3> QED BY <3>1, <3>2
  <2> QED BY <2>1, <2>2, <2>3, <2>4, <2>5, <2>6, <2>7, <2>8, <2>9, <2>10, <2>11, <2>12
          DEF StreamNext, WaiterNext
<1> QED BY <1>1, <1>2, <1>3 DEF Next

-----------------------------------------------------------------------------
(* A child that is gone or never was stays so once the run is past its     *)
(* spawning, and keeps its status.                                         *)
LEMMA ChildSteps ==
  ASSUME StreamIInv, Next
  PROVE  \/ UNCHANGED <<leader, status>>
         \/ LeaderRuns /\ leader' \in {"asked", "dead"}
         \/ leader = "unborn" /\ leader' = "live" /\ status' = status
              /\ (driver = "stream" => drive = "spawn" /\ drive' = "announce")
<1>1. CASE GroupNext
  BY <1>1, Zenon DEF GroupNext, WriteLine, WriteProgress, Fork, LeaderExits, HelperExits
<1>2. CASE driver = "stream" /\ StreamNext
  <2>1. CASE Spawns
    BY <1>2, <2>1 DEF Spawns, Birth, StreamIInv, StreamPlace
  <2>2. CASE TakesCancel
    BY <2>2 DEF TakesCancel, Sigterm, LeaderRuns
  <2>3. CASE GraceObeyed \/ GraceOver
    BY <2>3 DEF GraceObeyed, GraceOver, Sigkill, LeaderRuns
  <2>4. CASE SpawnFails \/ Announce \/ SeesExit \/ Joined \/ Report \/ Finish \/ Receive
             \/ Cancel \/ DropHandle \/ \E s \in Streams : ReaderNext(s)
    BY <2>4, Zenon DEF SpawnFails, Announce, SeesExit, Joined, Report, Finish, Receive, Cancel,
       DropHandle, ReaderNext, ReadProgress, ReadLine, SendLine, ReadEnds, ReadFails, groupVars
  <2> QED BY <1>2, <2>1, <2>2, <2>3, <2>4 DEF StreamNext, WaiterNext
<1>3. CASE driver = "capture" /\ CaptureNext
  <2>1. CASE CaptureSpawns
    BY <1>3, <2>1 DEF CaptureSpawns, Birth, StreamIInv, StreamPlace
  <2>2. CASE TimesOut
    BY <2>2 DEF TimesOut, Sigkill, LeaderRuns, groupVars
  <2>3. CASE CaptureSpawnFails \/ Reap \/ Completes
             \/ \E s \in Streams : Drain(s) \/ DrainEnds(s) \/ DrainFails(s)
    BY <2>3, Zenon DEF CaptureSpawnFails, Reap, Completes, Drain, DrainEnds, DrainFails, groupVars
  <2> QED BY <1>3, <2>1, <2>2, <2>3 DEF CaptureNext
<1> QED BY <1>1, <1>2, <1>3 DEF Next

(* What a step does to the channel.                                        *)
LEMMA ChannelSteps ==
  ASSUME StreamIInv, Next
  PROVE  \/ /\ UNCHANGED <<received, channel>>
            /\ drive \in {"spawn", "announce"} => drive' \in {"spawn", "announce"}
         \/ driver = "stream" /\ SpawnFails
         \/ Announce
         \/ Finish
         \/ Receive /\ drive' = drive
         \/ /\ received' = received /\ drive \notin {"spawn", "announce"}
            /\ \E e \in Events \ (Finishes \cup {Started}) : channel' = Append(channel, e)
<1> USE DEF StreamIInv
<1>1. CASE UNCHANGED streamVars
  BY <1>1 DEF streamVars
<1>2. CASE driver = "stream" /\ StreamNext
  <2>1. CASE Spawns \/ SeesExit \/ GraceObeyed \/ GraceOver \/ Joined \/ Cancel \/ DropHandle
    BY <2>1 DEF Spawns, SeesExit, GraceObeyed, GraceOver, Joined, Cancel, DropHandle
  <2>2. CASE Receive
    BY <2>2 DEF Receive
  <2>3. CASE Report
    BY <2>3, EventsOfTheRun, EventKinds DEF Report, Send
  <2>4. CASE TakesCancel
    <3>1. drive \notin {"spawn", "announce"}
      BY <2>4 DEF TakesCancel, StreamPlace, Quiet
    <3> QED BY <2>4, <3>1, EventsOfTheRun, EventKinds DEF TakesCancel, TrySend
  <2>5. ASSUME NEW s \in Streams, ReadProgress(s)
        PROVE  \/ UNCHANGED <<received, channel, drive>>
               \/ /\ received' = received /\ drive \notin {"spawn", "announce"}
                  /\ channel' = Append(channel, Progress)
    BY <2>5 DEF ReadProgress, Reading, TrySend, StreamPlace, Quiet
  <2>6. ASSUME NEW s \in Streams, SendLine(s)
        PROVE  /\ received' = received /\ drive \notin {"spawn", "announce"}
               /\ \E n \in Nat : channel' = Append(channel, Line(s, n))
    BY <2>6 DEF SendLine, Send, StreamPlace, Quiet, StreamTypes
  <2>7. ASSUME NEW s \in Streams, ReadLine(s) \/ ReadEnds(s) \/ ReadFails(s)
        PROVE  UNCHANGED <<received, channel, drive>>
    BY <2>7 DEF ReadLine, ReadEnds, ReadFails
  <2>8. Progress \in Events \ (Finishes \cup {Started})
        /\ \A s \in Streams, n \in Nat : Line(s, n) \in Events \ (Finishes \cup {Started})
    BY EventsOfTheRun, EventKinds
  <2> QED BY <1>2, <2>1, <2>2, <2>3, <2>4, <2>5, <2>6, <2>7, <2>8
          DEF StreamNext, WaiterNext, ReaderNext
<1> QED BY <1>1, <1>2 DEF Next

(* The order of the events, for the steps that leave them alone, send one, *)
(* or take one.                                                            *)
LEMMA EventsInOrderStep == StreamIInv /\ Next => EventsInOrder'
<1> SUFFICES ASSUME StreamIInv, Next PROVE EventsInOrder'
  OBVIOUS
<1>1. /\ channel \in Seq(Events) /\ received \in Seq(Events)
      /\ leader \in {"unborn", "live", "asked", "dead"}
      /\ drive \in {"spawn", "announce"} => received = << >> /\ channel = << >>
      /\ EventsInOrder
  BY DEF StreamIInv, StreamTypes, GroupTypes, StreamPlace, Quiet
<1>2. leader \in {"unborn", "dead"} =>
        \/ UNCHANGED <<leader, status>>
        \/ leader = "unborn" /\ leader' = "live" /\ channel = << >> /\ received = << >>
             /\ drive' \in {"spawn", "announce"}
  <2>1. driver = "capture" => drive = "spawn" /\ drive' = drive
    BY DEF StreamIInv, StreamPlace, Next, streamVars, GroupNext
  <2>2. driver \in {"stream", "capture"}
    BY DEF StreamIInv, StreamPlace
  <2> QED BY <1>1, <2>1, <2>2, ChildSteps DEF LeaderRuns
<1>3. leader' = "unborn" => leader = "unborn"
  BY ChildSteps
<1>4. ASSUME UNCHANGED <<received, channel>>,
             drive \in {"spawn", "announce"} => drive' \in {"spawn", "announce"}
      PROVE  EventsInOrder'
  <2>1. leader' # "unborn" /\ drive' \notin {"spawn", "announce"} => FirstIsStarted'
    <3>1. FirstIsStarted' <=> FirstIsStarted
      BY <1>4 DEF FirstIsStarted
    <3> QED BY <1>1, <1>2, <1>4, <3>1 DEF EventsInOrder
  <2>2. leader' = "unborn" => /\ \A i \in 1 .. Len(received') : received'[i] # Started
                              /\ \A i \in 1 .. Len(channel') : channel'[i] # Started
    BY <1>1, <1>3, <1>4 DEF EventsInOrder
  <2>3. \A i \in 1 .. Len(channel') : channel'[i] \in Finishes =>
          /\ leader' \in {"unborn", "dead"}
          /\ channel'[i][2] => status' = "ok"
    BY <1>1, <1>2, <1>4 DEF EventsInOrder
  <2> QED BY <2>1, <2>2, <2>3 DEF EventsInOrder
<1>5. CASE driver = "stream" /\ SpawnFails
  BY <1>1, <1>5 DEF SpawnFails, EventsInOrder, groupVars, StreamIInv, StreamPlace
<1>6. CASE Announce
  BY <1>1, <1>6, EventKinds, EventsOfTheRun
     DEF Announce, Send, EventsInOrder, FirstIsStarted, groupVars, StreamIInv, StreamPlace
<1>7. ASSUME NEW e \in Events, e # Started, channel' = Append(channel, e), received' = received,
             drive \notin {"spawn", "announce"},
             e \in Finishes => leader' \in {"unborn", "dead"} /\ (e[2] => status' = "ok")
      PROVE  EventsInOrder'
  <2>1. \A i \in 1 .. Len(channel') :
           IF i \in 1 .. Len(channel) THEN channel'[i] = channel[i] ELSE channel'[i] = e
    BY <1>1, <1>7
  <2>2. FirstIsStarted => FirstIsStarted'
    BY <1>1, <1>7 DEF FirstIsStarted
  <2>3. leader' # "unborn" /\ drive' \notin {"spawn", "announce"} => FirstIsStarted'
    BY <1>1, <1>2, <1>7, <2>2 DEF EventsInOrder
  <2>4. leader' = "unborn" => /\ \A i \in 1 .. Len(received') : received'[i] # Started
                              /\ \A i \in 1 .. Len(channel') : channel'[i] # Started
    BY <1>1, <1>3, <1>7, <2>1 DEF EventsInOrder
  <2>5. \A i \in 1 .. Len(channel') : channel'[i] \in Finishes =>
          /\ leader' \in {"unborn", "dead"}
          /\ channel'[i][2] => status' = "ok"
    <3>1. ASSUME NEW i \in 1 .. Len(channel), channel[i] \in Finishes
          PROVE  UNCHANGED <<leader, status>> /\ leader \in {"unborn", "dead"}
                   /\ (channel[i][2] => status = "ok")
      BY <1>1, <1>2, <3>1 DEF EventsInOrder
    <3>2. ASSUME NEW i \in 1 .. Len(channel'), channel'[i] \in Finishes
          PROVE  leader' \in {"unborn", "dead"} /\ (channel'[i][2] => status' = "ok")
      <4>1. CASE i \in 1 .. Len(channel)
        BY <2>1, <3>1, <3>2, <4>1
      <4>2. CASE i \notin 1 .. Len(channel)
        <5>1. channel'[i] = e
          BY <2>1, <4>2
        <5>2. e \in Finishes
          BY <3>2, <5>1
        <5>3. leader' \in {"unborn", "dead"} /\ (e[2] => status' = "ok")
          BY <1>7, <5>2, Zenon
        <5> QED BY <5>1, <5>3
      <4> QED BY <4>1, <4>2
    <3> QED BY <3>2
  <2> QED BY <2>3, <2>4, <2>5 DEF EventsInOrder
<1>8. CASE Finish
  <2>1. UNCHANGED <<leader, status, received>>
        /\ channel' = Append(channel, Finished(~OutputFailed /\ status = "ok"))
    BY <1>8 DEF Finish, Send, groupVars
  <2>2. leader \in {"unborn", "dead"} /\ drive \notin {"spawn", "announce"}
    BY <1>8 DEF Finish, StreamIInv, StreamPlace
  <2>3. Finished(~OutputFailed /\ status = "ok") \in Finishes
    <3>1. (~OutputFailed /\ status = "ok") \in BOOLEAN
      OBVIOUS
    <3> QED BY <3>1, EventsOfTheRun
  <2>4. Finished(~OutputFailed /\ status = "ok")[2] => status = "ok"
    BY DEF Finished
  <2>5. Finishes \subseteq Events /\ Started \notin Finishes
    BY EventKinds DEF Events
  <2> QED BY <1>7, <2>1, <2>2, <2>3, <2>4, <2>5
<1>9. CASE Receive /\ drive' = drive
  <2>1. UNCHANGED <<leader, status>> /\ channel # << >> /\ channel' = Tail(channel)
        /\ received' = IF channel[1] = Progress THEN received ELSE Append(received, channel[1])
    BY <1>9 DEF Receive, groupVars
  <2>2. \A i \in 1 .. Len(channel') : channel'[i] = channel[i + 1] /\ i + 1 \in 1 .. Len(channel)
    BY <1>1, <2>1
  <2>3. \A i \in 1 .. Len(received') : IF i \in 1 .. Len(received) THEN received'[i] = received[i]
                                       ELSE received'[i] = channel[1]
    BY <1>1, <2>1
  <2>4. FirstIsStarted => FirstIsStarted'
    BY <1>1, <2>1, EventKinds DEF FirstIsStarted
  <2>5. 1 \in 1 .. Len(channel)
    BY <1>1, <2>1
  <2> QED BY <1>1, <1>9, <2>1, <2>2, <2>3, <2>4, <2>5 DEF EventsInOrder
<1> QED BY <1>4, <1>5, <1>6, <1>7, <1>8, <1>9, ChannelSteps

(* The invariant holds in every reachable state.                           *)
LEMMA StreamInvariant == Spec => []StreamIInv
<1>1. StreamIInv /\ [Next]_vars => StreamIInv'
  <2>1. CASE Next
    BY <2>1, GroupTypesStep, StreamTypesStep, StreamPlaceStep, EventsInOrderStep DEF StreamIInv
  <2>2. CASE UNCHANGED vars
    BY <2>2 DEF vars, groupVars, streamVars, captureVars, StreamIInv, GroupTypes, StreamTypes,
                StreamPlace, Quiet, EventsInOrder, FirstIsStarted
  <2> QED BY <2>1, <2>2
<1> QED BY <1>1, StreamInitIInv, PTL DEF Spec

-----------------------------------------------------------------------------
(* The refinement.  The child seen through the mapping takes the steps of  *)
(* the contract's child, while what was told stays.                        *)
LEMMA ChildImplements ==
  ASSUME StreamIInv, StreamIInv', Next, received' = received
  PROVE  Contract!Next \/ UNCHANGED <<ChildSeen, Told>>
<1>1. Told' = Told
  BY DEF Told, HeardFinish
<1>2. /\ leader \in {"unborn", "live", "asked", "dead"} /\ status \in {"none", "ok", "bad"}
      /\ status' \in {"none", "ok", "bad"} /\ (status' # "none" <=> leader' = "dead")
  BY DEF StreamIInv, GroupTypes
<1>3. CASE UNCHANGED <<leader, status>>
  BY <1>1, <1>3 DEF ChildSeen, LeaderRuns
<1>4. CASE LeaderRuns /\ leader' = "asked"
  BY <1>1, <1>4 DEF ChildSeen, LeaderRuns
<1>5. CASE LeaderRuns /\ leader' = "dead"
  <2>1. ChildSeen = "live" /\ ChildSeen' \in {"ok", "bad"}
    BY <1>2, <1>5 DEF ChildSeen, LeaderRuns
  <2> QED BY <1>1, <2>1 DEF Contract!Next, Contract!End
<1>6. CASE leader = "unborn" /\ leader' = "live" /\ (driver = "stream" => drive = "spawn")
  <2>1. received = << >>
    BY <1>6 DEF StreamIInv, StreamPlace, Quiet
  <2>2. Told = "nothing"
    BY <2>1 DEF Told, HeardFinish
  <2>3. ChildSeen = "unborn" /\ ChildSeen' = "live"
    BY <1>6 DEF ChildSeen, LeaderRuns
  <2> QED BY <1>1, <2>2, <2>3 DEF Contract!Next, Contract!Start
<1> QED BY <1>3, <1>4, <1>5, <1>6, ChildSteps

(* An event that is taken moves what was told as the contract allows.      *)
LEMMA TellingImplements ==
  ASSUME StreamIInv, Receive
  PROVE  Contract!Next \/ UNCHANGED <<ChildSeen, Told>>
<1> DEFINE e == channel[1]
<1>1. /\ ~HeardFinish /\ channel # << >> /\ UNCHANGED <<leader, status>>
      /\ received' = IF e = Progress THEN received ELSE Append(received, e)
  BY DEF Receive, groupVars
<1>2. /\ channel \in Seq(Events) /\ received \in Seq(Events) /\ 1 \in 1 .. Len(channel)
      /\ e \in Events
  BY <1>1 DEF StreamIInv, StreamTypes
<1>3. ChildSeen' = ChildSeen
  BY <1>1 DEF ChildSeen, LeaderRuns
<1>4. /\ leader = "unborn" => e # Started /\ \A i \in 1 .. Len(received) : received[i] # Started
      /\ leader # "unborn" => FirstIsStarted
      /\ e \in Finishes => leader \in {"unborn", "dead"} /\ (e[2] => status = "ok")
      /\ status \in {"none", "ok", "bad"} /\ (status # "none" <=> leader = "dead")
  BY <1>1, <1>2 DEF StreamIInv, EventsInOrder, StreamPlace, Quiet, GroupTypes
<1> HIDE DEF e
<1>5. CASE e = Progress
  BY <1>1, <1>3, <1>5 DEF Told, HeardFinish
<1>6. ASSUME e # Progress
      PROVE  /\ Len(received') = Len(received) + 1
             /\ \A i \in 1 .. Len(received) : received'[i] = received[i]
             /\ received'[Len(received')] = e
  BY <1>1, <1>2, <1>6
<1>7. CASE e # Progress /\ e \notin Finishes
  <2>1. e[1] # "finished"
    BY <1>2, <1>7, EventKinds
  <2>2. \A i \in 1 .. Len(received') : i \in 1 .. Len(received) \/ i = Len(received')
    BY <1>2, <1>6, <1>7
  <2>3. ~HeardFinish'
    BY <1>1, <1>6, <1>7, <2>1, <2>2 DEF HeardFinish
  <2>4. CASE e = Started
    <3>1. Told' = "started"
      BY <1>2, <1>6, <1>7, <2>3, <2>4 DEF Told
    <3>2. Told \in {"nothing", "started"}
      BY <1>1 DEF Told
    <3>3. ChildSeen # "unborn"
      BY <1>4, <2>4 DEF ChildSeen
    <3> QED BY <1>3, <3>1, <3>2, <3>3 DEF Contract!Next, Contract!TellStarted
  <2>5. CASE e # Started
    <3>1. (\E i \in 1 .. Len(received') : received'[i] = Started)
            <=> (\E i \in 1 .. Len(received) : received[i] = Started)
      BY <1>2, <1>6, <1>7, <2>2, <2>5
    <3> QED BY <1>1, <1>3, <2>3, <3>1 DEF Told
  <2> QED BY <2>4, <2>5
<1>8. CASE e \in Finishes
  <2>1. e[1] = "finished" /\ e # Progress /\ e # Started
    BY <1>2, <1>8, EventKinds
  <2>2. HeardFinish'
    BY <1>2, <1>6, <2>1 DEF HeardFinish
  <2>3. Told' = IF e = Finished(TRUE) THEN "success" ELSE "failure"
    BY <1>6, <2>1, <2>2 DEF Told
  <2>4. CASE leader = "unborn"
    <3>1. Told = "nothing" /\ ChildSeen = "unborn"
      BY <1>1, <1>4, <2>4 DEF Told, ChildSeen
    <3>2. e # Finished(TRUE)
      <4>1. status # "ok"
        BY <1>4, <2>4
      <4>2. Finished(TRUE)[2]
        BY DEF Finished
      <4> QED BY <1>4, <1>8, <4>1, <4>2
    <3> QED BY <1>3, <2>3, <3>1, <3>2 DEF Contract!Next, Contract!TellFailure
  <2>5. CASE leader = "dead"
    <3>1. received # << >> /\ received[1] = Started
      BY <1>2, <1>4, <2>1, <2>5 DEF FirstIsStarted, e
    <3>2. Told = "started"
      BY <1>1, <1>2, <3>1 DEF Told
    <3>3. ChildSeen = status /\ status \in {"ok", "bad"}
      BY <1>4, <2>5 DEF ChildSeen, LeaderRuns
    <3>4. e = Finished(TRUE) => status = "ok"
      <4>1. Finished(TRUE)[2]
        BY DEF Finished
      <4> QED BY <1>4, <1>8, <4>1
    <3> QED BY <1>3, <2>3, <3>2, <3>3, <3>4
            DEF Contract!Next, Contract!TellSuccess, Contract!TellFailure
  <2> QED BY <1>4, <1>8, <2>4, <2>5
<1> QED BY <1>5, <1>7, <1>8

(* Whoever reads the events of a run sees Started first and only of a      *)
(* child that exists, one Finished last and only of a child that is gone,  *)
(* and success only of one that exited with 0: for any channel, any number *)
(* of lines, and any order of readers, waiter, cancel and exits            *)
(* (process/mod.rs:281-377).                                               *)
THEOREM RunsImplementTheContract == Spec => ContractSpec
<1>1. Init => Contract!Init
  BY DEF Init, GroupInit, StreamInit, Contract!Init, ChildSeen, Told, HeardFinish
<1>2. StreamIInv /\ StreamIInv' /\ [Next]_vars => [Contract!Next]_<<ChildSeen, Told>>
  <2>1. ASSUME StreamIInv, StreamIInv', Next
        PROVE  Contract!Next \/ UNCHANGED <<ChildSeen, Told>>
    <3>1. received' = received \/ Receive
      BY <2>1, ChannelSteps DEF Announce, Finish, SpawnFails
    <3> QED BY <2>1, <3>1, ChildImplements, TellingImplements
  <2>2. CASE UNCHANGED vars
    BY <2>2 DEF vars, groupVars, streamVars, ChildSeen, LeaderRuns, Told, HeardFinish
  <2> QED BY <2>1, <2>2
<1> QED BY <1>1, <1>2, StreamInvariant, PTL DEF Spec, ContractSpec, Contract!Spec

-----------------------------------------------------------------------------
(* The capture, and that a timeout which found its leader killed the group *)
(* for good.                                                               *)
CaptureTypes ==
  /\ captured \in [Streams -> Nat]
  /\ exceeded \in [Streams -> BOOLEAN]
  /\ drained \in [Streams -> {"reading", "ended", "failed"}]

(* A reader that is at the end found nobody left; what was kept, and not   *)
(* exceeded, with what is in the pipe is no less than what was written.    *)
CaptureCounts ==
  /\ driver = "stream" => reply = "none"
  /\ reply # "none" => capture = "over"
  /\ capture = "spawn" => \A s \in Streams : drained[s] = "reading"
  /\ driver = "capture" => \A s \in Streams :
       /\ drained[s] = "ended" => pipe[s] = << >> /\ ~GroupAlive
       /\ ~exceeded[s] => wrote[s] <= captured[s] + Len(pipe[s])
  /\ reply = "timeout" /\ ~reaped => ~GroupAlive

CaptureIInv == StreamIInv /\ CaptureTypes /\ CaptureCounts /\ CaptureIsWhole

(* Nothing is written, and nobody born, once the group is gone.            *)
LEMMA GoneGroupsStayGone ==
  ASSUME StreamIInv, GroupNext
  PROVE  ~GroupAlive => FALSE
BY DEF GroupNext, WriteLine, WriteProgress, Fork, LeaderExits, HelperExits, GroupAlive, LeaderRuns

(* A capture starts with nothing kept and no answer.                       *)
LEMMA CaptureInitIInv == Init => CaptureIInv
<1> SUFFICES ASSUME Init PROVE CaptureIInv
  OBVIOUS
<1>1. exceeded \in [Streams -> BOOLEAN] /\ reaped = FALSE
  BY Zenon DEF Init, CaptureInit
<1>2. CaptureTypes
  BY <1>1 DEF Init, CaptureInit, CaptureTypes
<1>3. CaptureCounts /\ CaptureIsWhole
  BY DEF Init, CaptureInit, GroupInit, CaptureCounts, CaptureIsWhole
<1> QED BY <1>2, <1>3, StreamInitIInv DEF CaptureIInv

(* The child writes into its pipe, or dies.                                *)
LEMMA CaptureGroupStep ==
  ASSUME CaptureIInv, GroupNext, UNCHANGED <<streamVars, captureVars, driver>>
  PROVE  CaptureTypes' /\ CaptureCounts' /\ CaptureIsWhole'
<1>1. GroupAlive
  BY GoneGroupsStayGone DEF CaptureIInv
<1>2. CaptureTypes'
  BY DEF CaptureIInv, CaptureTypes, captureVars
<1>3. reply # "output" /\ ~(reply = "timeout" /\ ~reaped)
  BY <1>1, Zenon DEF CaptureIInv, CaptureCounts, CaptureIsWhole
<1>4. driver = "capture" => \A s \in Streams : drained[s] # "ended"
  BY <1>1 DEF CaptureIInv, CaptureCounts
<1>5. ASSUME NEW s \in Streams, driver = "capture", ~exceeded[s]
      PROVE  wrote'[s] <= captured[s] + Len(pipe'[s])
  <2>1. wrote[s] <= captured[s] + Len(pipe[s])
    BY <1>5 DEF CaptureIInv, CaptureCounts
  <2>2. /\ wrote \in [Streams -> Nat] /\ pipe \in [Streams -> Seq(Nat)]
        /\ captured \in [Streams -> Nat]
    BY DEF CaptureIInv, StreamIInv, GroupTypes, CaptureTypes
  <2>3. ASSUME NEW t \in Streams, WriteLine(t) PROVE wrote'[s] <= captured[s] + Len(pipe'[s])
    <3>1. /\ wrote' = [wrote EXCEPT ![t] = wrote[t] + 1]
          /\ pipe' = [pipe EXCEPT ![t] = Append(pipe[t], wrote'[t])]
      BY <2>3 DEF WriteLine
    <3>2. CASE s = t
      BY <2>1, <2>2, <3>1, <3>2
    <3>3. CASE s # t
      BY <2>1, <2>2, <3>1, <3>3
    <3> QED BY <3>2, <3>3
  <2>4. ASSUME NEW t \in Streams, WriteProgress(t) PROVE wrote'[s] <= captured[s] + Len(pipe'[s])
    <3>1. UNCHANGED wrote /\ pipe' = [pipe EXCEPT ![t] = Append(pipe[t], 0)]
      BY <2>4 DEF WriteProgress
    <3>2. CASE s = t
      BY <2>1, <2>2, <3>1, <3>2
    <3>3. CASE s # t
      BY <2>1, <2>2, <3>1, <3>3
    <3> QED BY <3>2, <3>3
  <2>5. CASE UNCHANGED <<wrote, pipe>>
    BY <2>1, <2>5
  <2> QED BY <2>3, <2>4, <2>5 DEF GroupNext, Fork, LeaderExits, HelperExits
<1>6. UNCHANGED <<reply, capture, drained, exceeded, captured, reaped, driver>>
  BY DEF captureVars
<1>7. CaptureIsWhole'
  BY <1>3, <1>6 DEF CaptureIsWhole
<1>8. CaptureCounts'
  <2>1. /\ driver = "stream" => reply = "none"
        /\ reply # "none" => capture = "over"
        /\ capture = "spawn" => \A s \in Streams : drained[s] = "reading"
    BY DEF CaptureIInv, CaptureCounts
  <2>2. ~(reply' = "timeout" /\ ~reaped')
    BY <1>3, <1>6, Zenon
  <2>3. driver' = "capture" => \A s \in Streams :
           /\ drained'[s] = "ended" => pipe'[s] = << >> /\ ~GroupAlive'
           /\ ~exceeded'[s] => wrote'[s] <= captured'[s] + Len(pipe'[s])
    BY <1>4, <1>5, <1>6
  <2> QED BY <1>6, <2>1, <2>2, <2>3, Zenon DEF CaptureCounts
<1> QED BY <1>2, <1>7, <1>8

(* A streamed run has no capture.                                          *)
LEMMA CaptureOfStream ==
  ASSUME CaptureIInv, driver = "stream", UNCHANGED <<captureVars, driver>>
  PROVE  CaptureTypes' /\ CaptureCounts' /\ CaptureIsWhole'
<1>1. UNCHANGED <<capture, captured, exceeded, drained, reaped, reply, driver>>
  BY DEF captureVars
<1>2. reply' = "none" /\ driver' = "stream"
        /\ (capture' = "spawn" => \A s \in Streams : drained'[s] = "reading")
  BY <1>1 DEF CaptureIInv, CaptureCounts
<1>3. CaptureTypes'
  BY <1>1 DEF CaptureIInv, CaptureTypes
<1>4. CaptureCounts' /\ CaptureIsWhole'
  BY <1>2 DEF CaptureCounts, CaptureIsWhole
<1> QED BY <1>3, <1>4

(* Reading moves a line from the pipe to what is kept, or marks it lost;   *)
(* output is the answer only when nothing was lost and both pipes ended.   *)
LEMMA CaptureStep ==
  ASSUME CaptureIInv, driver = "capture", CaptureNext, driver' = driver
  PROVE  CaptureTypes' /\ CaptureCounts' /\ CaptureIsWhole'
<1>1. /\ CaptureTypes /\ CaptureCounts /\ CaptureIsWhole
      /\ capture = "spawn" => leader = "unborn"
      /\ wrote \in [Streams -> Nat] /\ pipe \in [Streams -> Seq(Nat)]
  BY DEF CaptureIInv, StreamIInv, GroupTypes, StreamPlace
<1>2. capture # "over" => reply = "none"
  BY <1>1 DEF CaptureCounts
<1>3. CASE CaptureSpawns
  <2>1. /\ capture = "spawn" /\ capture' = "join" /\ reply' = "none"
        /\ UNCHANGED <<captured, exceeded, drained, wrote, pipe>>
    BY <1>2, <1>3 DEF CaptureSpawns, Birth
  <2>2. \A s \in Streams : drained'[s] = "reading"
    BY <1>1, <2>1 DEF CaptureCounts
  <2>3. \A s \in Streams : ~exceeded'[s] => wrote'[s] <= captured'[s] + Len(pipe'[s])
    BY <1>1, <2>1, Zenon DEF CaptureCounts
  <2>4. CaptureTypes'
    BY <1>1, <2>1 DEF CaptureTypes
  <2> QED BY <2>1, <2>2, <2>3, <2>4 DEF CaptureCounts, CaptureIsWhole
<1>4. CASE CaptureSpawnFails
  <2>1. /\ capture' = "over" /\ reply' = "error"
        /\ UNCHANGED <<captured, exceeded, drained, groupVars>>
    BY <1>4 DEF CaptureSpawnFails
  <2>2. UNCHANGED <<wrote, pipe>> /\ GroupAlive' = GroupAlive
    BY <2>1 DEF groupVars, GroupAlive, LeaderRuns
  <2>3. CaptureTypes'
    BY <1>1, <2>1 DEF CaptureTypes
  <2>4. \A s \in Streams :
           /\ drained'[s] = "ended" => pipe'[s] = << >> /\ ~GroupAlive'
           /\ ~exceeded'[s] => wrote'[s] <= captured'[s] + Len(pipe'[s])
    BY <1>1, <2>1, <2>2, Zenon DEF CaptureCounts
  <2> QED BY <2>1, <2>3, <2>4 DEF CaptureCounts, CaptureIsWhole
<1>5. ASSUME NEW t \in Streams, Drain(t) PROVE CaptureTypes' /\ CaptureCounts' /\ CaptureIsWhole'
  <2>1. /\ capture = "join" /\ capture' = "join" /\ reply = "none" /\ reply' = "none"
        /\ drained[t] = "reading" /\ pipe[t] # << >>
        /\ pipe' = [pipe EXCEPT ![t] = Tail(pipe[t])]
        /\ UNCHANGED <<leader, helper, wrote, drained>>
    BY <1>2, <1>5 DEF Drain, Draining
  <2>2. \/ captured' = [captured EXCEPT ![t] = captured[t] + 1] /\ UNCHANGED exceeded
        \/ exceeded' = [exceeded EXCEPT ![t] = TRUE] /\ UNCHANGED captured
    BY <1>5 DEF Drain
  <2>3. CaptureTypes'
    <3>1. captured' \in [Streams -> Nat]
      BY <1>1, <2>2 DEF CaptureTypes
    <3>2. exceeded' \in [Streams -> BOOLEAN]
      BY <1>1, <2>2 DEF CaptureTypes
    <3> QED BY <1>1, <2>1, <3>1, <3>2 DEF CaptureTypes
  <2>4. GroupAlive' = GroupAlive
    BY <2>1 DEF GroupAlive, LeaderRuns
  <2>5. ASSUME NEW s \in Streams, drained'[s] = "ended"
        PROVE  pipe'[s] = << >> /\ ~GroupAlive'
    BY <1>1, <2>1, <2>4, <2>5 DEF CaptureCounts
  <2>6. ASSUME NEW s \in Streams, ~exceeded'[s]
        PROVE  wrote'[s] <= captured'[s] + Len(pipe'[s])
    <3>1. ~exceeded[s] => wrote[s] <= captured[s] + Len(pipe[s])
      BY <1>1 DEF CaptureCounts
    <3>2. CASE s # t
      <4>1. pipe'[s] = pipe[s] /\ captured'[s] = captured[s]
        BY <1>1, <2>1, <2>2, <3>2 DEF CaptureTypes
      <4>2. ~exceeded[s]
        BY <1>1, <2>2, <2>6, <3>2 DEF CaptureTypes
      <4> QED BY <2>1, <3>1, <4>1, <4>2
    <3>3. CASE s = t
      <4>1. captured' = [captured EXCEPT ![t] = captured[t] + 1] /\ ~exceeded[s]
        BY <1>1, <2>2, <2>6, <3>3 DEF CaptureTypes
      <4>2. Len(pipe'[s]) = Len(pipe[s]) - 1 /\ Len(pipe[s]) \in Nat
        BY <1>1, <2>1, <3>3
      <4>3. captured'[s] = captured[s] + 1 /\ captured[s] \in Nat /\ wrote[s] \in Nat
        BY <1>1, <3>3, <4>1 DEF CaptureTypes
      <4> QED BY <2>1, <3>1, <4>1, <4>2, <4>3
    <3> QED BY <3>2, <3>3
  <2> QED BY <2>1, <2>3, <2>5, <2>6 DEF CaptureCounts, CaptureIsWhole
<1>6. ASSUME NEW t \in Streams, DrainEnds(t) \/ DrainFails(t)
      PROVE  CaptureTypes' /\ CaptureCounts' /\ CaptureIsWhole'
  <2>1. /\ capture = "join" /\ reply = "none" /\ reply' = "none"
        /\ UNCHANGED <<groupVars, capture, captured, exceeded>>
    BY <1>2, <1>6 DEF DrainEnds, DrainFails, Draining
  <2>2. UNCHANGED <<wrote, pipe>> /\ GroupAlive' = GroupAlive
    BY <2>1 DEF groupVars, GroupAlive, LeaderRuns
  <2>3. \/ pipe[t] = << >> /\ ~GroupAlive /\ drained' = [drained EXCEPT ![t] = "ended"]
        \/ drained' = [drained EXCEPT ![t] = "failed"]
    BY <1>6 DEF DrainEnds, DrainFails
  <2>4. CaptureTypes'
    BY <1>1, <2>1, <2>3 DEF CaptureTypes
  <2>5. \A s \in Streams : drained'[s] = "ended" =>
           drained[s] = "ended" \/ (pipe[s] = << >> /\ ~GroupAlive)
    BY <1>1, <2>3 DEF CaptureTypes
  <2>6. \A s \in Streams :
           /\ drained'[s] = "ended" => pipe'[s] = << >> /\ ~GroupAlive'
           /\ ~exceeded'[s] => wrote'[s] <= captured'[s] + Len(pipe'[s])
    BY <1>1, <2>1, <2>2, <2>5, Zenon DEF CaptureCounts
  <2> QED BY <2>1, <2>4, <2>6 DEF CaptureCounts, CaptureIsWhole
<1>7. CASE Reap
  <2>1. /\ capture = "join" /\ reply = "none" /\ reply' = "none"
        /\ UNCHANGED <<groupVars, capture, captured, exceeded, drained>>
    BY <1>2, <1>7 DEF Reap
  <2>2. UNCHANGED <<wrote, pipe>> /\ GroupAlive' = GroupAlive
    BY <2>1 DEF groupVars, GroupAlive, LeaderRuns
  <2>3. CaptureTypes'
    BY <1>1, <2>1 DEF CaptureTypes
  <2>4. \A s \in Streams :
           /\ drained'[s] = "ended" => pipe'[s] = << >> /\ ~GroupAlive'
           /\ ~exceeded'[s] => wrote'[s] <= captured'[s] + Len(pipe'[s])
    BY <1>1, <2>1, <2>2, Zenon DEF CaptureCounts
  <2> QED BY <2>1, <2>3, <2>4 DEF CaptureCounts, CaptureIsWhole
<1>8. CASE Completes
  <2>1. /\ capture = "join" /\ capture' = "over" /\ reply' \in {"output", "error"}
        /\ UNCHANGED <<groupVars, captured, exceeded, drained>>
    BY <1>8 DEF Completes
  <2>2. UNCHANGED <<wrote, pipe, status>> /\ GroupAlive' = GroupAlive
    BY <2>1 DEF groupVars, GroupAlive, LeaderRuns
  <2>3. CaptureTypes'
    BY <1>1, <2>1 DEF CaptureTypes
  <2>4. \A s \in Streams :
           /\ drained'[s] = "ended" => pipe'[s] = << >> /\ ~GroupAlive'
           /\ ~exceeded'[s] => wrote'[s] <= captured'[s] + Len(pipe'[s])
    BY <1>1, <2>1, <2>2, Zenon DEF CaptureCounts
  <2>5. CaptureCounts'
    BY <2>1, <2>4 DEF CaptureCounts
  <2>6. ASSUME reply' = "output"
        PROVE  /\ status' = "ok" /\ ~GroupAlive'
               /\ \A s \in Streams : pipe'[s] = << >> /\ captured'[s] >= wrote'[s]
    <3>1. status = "ok" /\ \A s \in Streams : drained[s] = "ended" /\ ~exceeded[s]
      BY <1>8, <2>6 DEF Completes
    <3>2. \A s \in Streams : pipe[s] = << >> /\ ~GroupAlive /\ wrote[s] <= captured[s] + Len(pipe[s])
      BY <1>1, <3>1 DEF CaptureCounts
    <3>3. "stdout" \in Streams
      BY DEF Streams
    <3>4. \A s \in Streams : captured[s] >= wrote[s]
      BY <1>1, <3>2 DEF CaptureTypes
    <3>5. ~GroupAlive'
      BY <2>2, <3>2, <3>3
    <3>6. \A s \in Streams : pipe'[s] = << >> /\ captured'[s] >= wrote'[s]
      BY <2>1, <2>2, <3>2, <3>4
    <3>7. status' = "ok"
      BY <2>2, <3>1
    <3> QED BY <3>5, <3>6, <3>7
  <2>7. CaptureIsWhole'
    BY <2>6, Zenon DEF CaptureIsWhole
  <2> QED BY <2>3, <2>5, <2>7
<1>9. CASE TimesOut
  <2>1. /\ capture = "join" /\ capture' = "over" /\ reply' = "timeout"
        /\ UNCHANGED <<captured, exceeded, drained, reaped>>
    BY <1>9 DEF TimesOut
  <2>2. UNCHANGED <<wrote, pipe>>
    BY <1>9 DEF TimesOut, Sigkill, groupVars
  <2>3. ~GroupAlive => ~GroupAlive'
    BY <1>9 DEF TimesOut, Sigkill, groupVars, GroupAlive, LeaderRuns
  <2>4. ~reaped => ~GroupAlive'
    BY <1>9 DEF TimesOut, Sigkill, GroupAlive, LeaderRuns
  <2>5. CaptureTypes'
    BY <1>1, <2>1 DEF CaptureTypes
  <2>6. \A s \in Streams :
           /\ drained'[s] = "ended" => pipe'[s] = << >> /\ ~GroupAlive'
           /\ ~exceeded'[s] => wrote'[s] <= captured'[s] + Len(pipe'[s])
    BY <1>1, <2>1, <2>2, <2>3, Zenon DEF CaptureCounts
  <2> QED BY <2>1, <2>4, <2>5, <2>6 DEF CaptureCounts, CaptureIsWhole
<1> QED BY <1>3, <1>4, <1>5, <1>6, <1>7, <1>8, <1>9 DEF CaptureNext

(* The invariant of the captures holds in every reachable state.           *)
LEMMA CaptureInvariant == Spec => []CaptureIInv
<1>1. CaptureIInv /\ [Next]_vars => CaptureIInv'
  <2>1. ASSUME CaptureIInv, Next PROVE CaptureIInv'
    <3>1. StreamIInv'
      BY <2>1, GroupTypesStep, StreamTypesStep, StreamPlaceStep, EventsInOrderStep
         DEF CaptureIInv, StreamIInv
    <3>2. CaptureTypes' /\ CaptureCounts' /\ CaptureIsWhole'
      BY <2>1, CaptureGroupStep, CaptureOfStream, CaptureStep DEF Next
    <3> QED BY <3>1, <3>2 DEF CaptureIInv
  <2>2. ASSUME CaptureIInv, UNCHANGED vars PROVE CaptureIInv'
    <3>1. StreamIInv'
      BY <2>2 DEF CaptureIInv, vars, groupVars, streamVars, captureVars, StreamIInv, GroupTypes,
                  StreamTypes, StreamPlace, Quiet, EventsInOrder, FirstIsStarted
    <3>2. CaptureTypes' /\ CaptureCounts' /\ CaptureIsWhole'
      BY <2>2, Zenon DEF CaptureIInv, vars, groupVars, captureVars, CaptureTypes, CaptureCounts,
                         CaptureIsWhole, GroupAlive, LeaderRuns
    <3> QED BY <3>1, <3>2 DEF CaptureIInv
  <2> QED BY <2>1, <2>2
<1> QED BY <1>1, CaptureInitIInv, PTL DEF Spec

(* A capture is answered with output only if the child succeeded and every *)
(* line it wrote was read and kept, whatever the limit and wherever the    *)
(* timeout falls (process/mod.rs:215-251).                                 *)
THEOREM OutputIsWhole == Spec => []CaptureIsWhole
BY CaptureInvariant, PTL DEF CaptureIInv

(* Nobody is terminated unasked, and a cancel that was taken, or a timeout *)
(* whose leader was not reaped, leaves nobody of the group                 *)
(* (process/mod.rs:324-332, 479-515).                                      *)
THEOREM TerminationsAreWhole == Spec => TerminationIsWhole
<1> DEFINE Whole == /\ waiter = "select" /\ waiter' = "grace" => asked
                    /\ waiter = "grace" /\ waiter' = "done" => leader' = "dead" /\ helper' # "live"
                    /\ reply' = "timeout" /\ ~reaped => ~GroupAlive'
<1>1. CaptureIInv /\ CaptureIInv' /\ [Next]_vars => [Whole]_vars
  <2> SUFFICES ASSUME CaptureIInv, CaptureIInv', Next PROVE Whole
    OBVIOUS
  <2>1. mailbox => asked
    BY DEF CaptureIInv, StreamIInv, StreamPlace
  <2>2. waiter' = waiter \/ Announce \/ WaiterNext
    BY Zenon DEF Next, StreamNext, Spawns, SpawnFails, Joined, Report, Finish, Receive, Cancel,
       DropHandle, ReaderNext, ReadProgress, ReadLine, SendLine, ReadEnds, ReadFails, streamVars
  <2>3. waiter = "select" /\ waiter' = "grace" => asked
    BY <2>1, <2>2 DEF Announce, WaiterNext, SeesExit, TakesCancel, GraceObeyed, GraceOver
  <2>4. waiter = "grace" /\ waiter' = "done" => leader' = "dead" /\ helper' # "live"
    BY <2>2 DEF Announce, WaiterNext, SeesExit, TakesCancel, GraceObeyed, GraceOver, Sigkill,
                LeaderRuns
  <2>5. reply' = "timeout" /\ ~reaped => ~GroupAlive'
    <3>1. reaped' = reaped \/ (Reap /\ driver = "capture")
      BY Zenon DEF Next, CaptureNext, CaptureSpawns, CaptureSpawnFails, Drain, DrainEnds, DrainFails,
         Completes, TimesOut, captureVars
    <3>2. ASSUME Reap, driver = "capture" PROVE reply' # "timeout"
      BY <3>2 DEF Reap, CaptureIInv, CaptureCounts
    <3>3. reply' = "timeout" /\ ~reaped' => ~GroupAlive'
      BY DEF CaptureIInv, CaptureCounts
    <3> QED BY <3>1, <3>2, <3>3
  <2> QED BY <2>3, <2>4, <2>5
<1> QED BY <1>1, CaptureInvariant, PTL DEF Spec, TerminationIsWhole

-----------------------------------------------------------------------------
(* The lines, and where Finished stands.  A reader that is at the end has  *)
(* nothing in its hand and, unless it failed, an empty pipe that nobody    *)
(* holds open; past the join no reader reads and nothing else is sent.     *)
LinesOf(s) == {"line"} \X {s} \X Nat

Settled ==
  /\ reader \in [Streams -> {"idle", "reading", "ended", "failed"}]
  /\ \A s \in Streams :
       /\ reader[s] # "reading" => hand[s] = 0
       /\ driver = "stream" /\ reader[s] = "ended" => pipe[s] = << >> /\ ~GroupAlive
       /\ drive \in {"report", "finish", "over"} => reader[s] # "reading"
  /\ waiter \in {"select", "grace"} => drive = "join"
  /\ Len(channel) <= Capacity

(* A reader is idle only before Started is sent.                           *)
Joining ==
  leader # "unborn" /\ drive \notin {"spawn", "announce"} => \A s \in Streams : reader[s] # "idle"

(* Finished says success of a run whose readers are all at the end.        *)
Whole(e) == drive = "over" /\ (e[2] => \A s \in Streams : reader[s] = "ended")

FinishedAtEnd ==
  /\ \A i \in 1 .. Len(received) :
       received[i] \in Finishes => i = Len(received) /\ channel = << >> /\ Whole(received[i])
  /\ \A i \in 1 .. Len(channel) :
       channel[i] \in Finishes => i = Len(channel) /\ Whole(channel[i])

LinesIInv == StreamIInv /\ Settled /\ Joining /\ FinishedAtEnd /\ LinesOnTheirWay

(* The numbers of a stream's lines in a list of events.                    *)
LEMMA LineNumbersType ==
  ASSUME NEW es \in Seq(Events), NEW s \in Streams
  PROVE  LineNumbers(es, s) \in Seq(Nat)
<1> DEFINE lines == Kept(es, LinesOf(s))
<1>1. lines \in Seq(Events \cap LinesOf(s))
  BY KeptType
<1>2. \A i \in 1 .. Len(lines) : lines[i][3] \in Nat
  <2> HIDE DEF lines
  <2>1. \A i \in 1 .. Len(lines) : lines[i] \in LinesOf(s)
    BY <1>1
  <2> QED BY <2>1 DEF LinesOf
<1>3. LineNumbers(es, s) = [i \in 1 .. Len(lines) |-> lines[i][3]]
  BY DEF LineNumbers, LinesOf
<1> HIDE DEF lines
<1>4. Len(lines) \in Nat
  BY <1>1
<1> QED BY <1>2, <1>3, <1>4

LEMMA LineNumbersConcat ==
  ASSUME NEW a \in Seq(Events), NEW b \in Seq(Events), NEW s \in Streams
  PROVE  LineNumbers(a \o b, s) = LineNumbers(a, s) \o LineNumbers(b, s)
<1> DEFINE p == Kept(a, LinesOf(s))
           q == Kept(b, LinesOf(s))
           r == Kept(a \o b, LinesOf(s))
           Numbers(l) == [i \in 1 .. Len(l) |-> l[i][3]]
<1>1. r = p \o q
  BY KeptConcat
<1>2. p \in Seq(Events \cap LinesOf(s)) /\ q \in Seq(Events \cap LinesOf(s))
  BY KeptType
<1>3. /\ LineNumbers(a, s) = Numbers(p) /\ LineNumbers(b, s) = Numbers(q)
      /\ LineNumbers(a \o b, s) = Numbers(r)
  BY DEF LineNumbers, LinesOf
<1> HIDE DEF p, q, r
<1>4. Numbers(p \o q) = Numbers(p) \o Numbers(q)
  <2>1. Len(p) \in Nat /\ Len(q) \in Nat /\ Len(p \o q) = Len(p) + Len(q)
    BY <1>2
  <2>2. \A i \in 1 .. Len(p) + Len(q) :
           (p \o q)[i] = IF i <= Len(p) THEN p[i] ELSE q[i - Len(p)]
    BY <1>2
  <2>3. \A i \in 1 .. Len(p) + Len(q) :
           (Numbers(p) \o Numbers(q))[i] = IF i <= Len(p) THEN p[i][3] ELSE q[i - Len(p)][3]
    BY <2>1
  <2>4. Numbers(p) \o Numbers(q) = [i \in 1 .. Len(p) + Len(q) |->
                                      IF i <= Len(p) THEN p[i][3] ELSE q[i - Len(p)][3]]
    BY <2>1
  <2>5. Numbers(p \o q) = [i \in 1 .. Len(p) + Len(q) |-> (p \o q)[i][3]]
    BY <2>1
  <2> QED BY <2>2, <2>4, <2>5
<1> QED BY <1>1, <1>3, <1>4

LEMMA LineNumbersOne ==
  ASSUME NEW s \in Streams, NEW e \in Events
  PROVE  LineNumbers(<<e>>, s) = IF e \in LinesOf(s) THEN <<e[3]>> ELSE <<>>
<1>1. Kept(<<e>>, LinesOf(s)) = IF e \in LinesOf(s) THEN <<e>> ELSE <<>>
  BY KeptOne
<1>2. CASE e \in LinesOf(s)
  <2> DEFINE l == <<e>>
  <2>1. Len(l) = 1 /\ l[1] = e
    OBVIOUS
  <2>2. [i \in 1 .. Len(l) |-> l[i][3]] = <<e[3]>>
    BY <2>1
  <2>3. LineNumbers(<<e>>, s) = [i \in 1 .. Len(l) |-> l[i][3]]
    BY <1>1, <1>2 DEF LineNumbers, LinesOf
  <2> QED BY <1>2, <2>2, <2>3
<1>3. CASE e \notin LinesOf(s)
  <2>1. LineNumbers(<<e>>, s) = [i \in 1 .. Len(<<>>) |-> <<>>[i][3]]
    BY <1>1, <1>3 DEF LineNumbers, LinesOf
  <2>2. [i \in 1 .. Len(<<>>) |-> <<>>[i][3]] = <<>>
    OBVIOUS
  <2> QED BY <1>3, <2>1, <2>2
<1> QED BY <1>2, <1>3

(* Of the events only a line has a number, and that of its own stream.     *)
LEMMA LineNumbersOfEvents ==
  ASSUME NEW s \in Streams
  PROVE  /\ \A e \in {Started, Progress, Error} \cup Finishes : LineNumbers(<<e>>, s) = <<>>
         /\ \A t \in Streams, n \in Nat : LineNumbers(<<Line(t, n)>>, s) = IF t = s THEN <<n>> ELSE <<>>
<1>1. \A e \in {Started, Progress, Error} \cup Finishes : e[1] # "line" /\ e \in Events
  BY DEF Started, Progress, Error, Finishes, Events
<1>2. \A e \in LinesOf(s) : e[1] = "line" /\ e[2] = s
  BY DEF LinesOf
<1>3. \A t \in Streams, n \in Nat :
         Line(t, n)[2] = t /\ Line(t, n)[3] = n /\ (Line(t, n) \in LinesOf(t)) /\ Line(t, n) \in Events
  BY EventsOfTheRun DEF Line, LinesOf
<1>4. ASSUME NEW e \in {Started, Progress, Error} \cup Finishes PROVE LineNumbers(<<e>>, s) = <<>>
  <2>1. e \in Events /\ e \notin LinesOf(s)
    BY <1>1, <1>2
  <2> QED BY <2>1, LineNumbersOne
<1>5. ASSUME NEW t \in Streams, NEW n \in Nat
      PROVE  LineNumbers(<<Line(t, n)>>, s) = IF t = s THEN <<n>> ELSE <<>>
  <2> DEFINE e == Line(t, n)
  <2>1. e \in Events /\ e[3] = n /\ (e \in LinesOf(s) <=> t = s)
    BY <1>2, <1>3
  <2> HIDE DEF e
  <2>2. LineNumbers(<<e>>, s) = IF e \in LinesOf(s) THEN <<e[3]>> ELSE <<>>
    BY <2>1, LineNumbersOne
  <2>3. LineNumbers(<<e>>, s) = IF t = s THEN <<n>> ELSE <<>>
    BY <2>1, <2>2
  <2> QED BY <2>3 DEF e
<1> QED BY <1>4, <1>5

(* Once the group is gone it neither comes back nor writes.                *)
LEMMA NobodyComesBack ==
  ASSUME StreamIInv, Next, ~GroupAlive, drive \notin {"spawn", "announce"}
  PROVE  ~GroupAlive' /\ wrote' = wrote /\ \A s \in Streams : pipe[s] = << >> => pipe'[s] = << >>
<1>1. driver = "stream" /\ StreamNext
  BY GoneGroupsStayGone DEF Next, StreamIInv, StreamPlace
<1>2. pipe \in [Streams -> Seq(Nat)]
  BY DEF StreamIInv, GroupTypes
<1>3. ~Spawns
  BY DEF Spawns
<1>4. CASE TakesCancel \/ GraceObeyed \/ GraceOver
  BY <1>4 DEF TakesCancel, GraceObeyed, GraceOver, Sigterm, Sigkill, GroupAlive, LeaderRuns
<1>5. CASE SpawnFails \/ Announce \/ SeesExit \/ Joined \/ Report \/ Finish \/ Receive
           \/ Cancel \/ DropHandle
  BY <1>5 DEF SpawnFails, Announce, SeesExit, Joined, Report, Finish, Receive, Cancel, DropHandle,
              groupVars, GroupAlive, LeaderRuns
<1>6. ASSUME NEW s \in Streams, SendLine(s) \/ ReadEnds(s) \/ ReadFails(s)
      PROVE  UNCHANGED groupVars
  BY <1>6 DEF SendLine, ReadEnds, ReadFails
<1>7. ASSUME NEW s \in Streams, ReadProgress(s) \/ ReadLine(s)
      PROVE  /\ UNCHANGED <<leader, helper, wrote>>
             /\ \A t \in Streams : pipe[t] = << >> => pipe'[t] = << >>
  BY <1>2, <1>7 DEF ReadProgress, ReadLine
<1> QED BY <1>1, <1>3, <1>4, <1>5, <1>6, <1>7
        DEF StreamNext, WaiterNext, ReaderNext, groupVars, GroupAlive, LeaderRuns

(* Where the readers are, step by step.                                    *)
LEMMA SettledStep == StreamIInv /\ Settled /\ Next => Settled'
<1> SUFFICES ASSUME StreamIInv, Settled, Next PROVE Settled'
  OBVIOUS
<1>1. /\ reader \in [Streams -> {"idle", "reading", "ended", "failed"}]
      /\ hand \in [Streams -> Nat] /\ channel \in Seq(Events)
      /\ drive \in {"spawn", "announce"} => Quiet
      /\ driver = "capture" => drive = "spawn"
      /\ driver \in {"stream", "capture"} /\ Capacity \in Nat /\ Len(channel) <= Capacity
  BY CapacityAssumption DEF StreamIInv, StreamTypes, StreamPlace, Settled
<1>2. \A s \in Streams : driver = "stream" /\ reader[s] = "ended" => pipe'[s] = << >> /\ ~GroupAlive'
  BY <1>1, NobodyComesBack DEF Settled, Quiet
<1>3. UNCHANGED driver
  BY DEF Next
<1>4. CASE UNCHANGED <<reader, hand, channel>>
           /\ (drive' = drive \/ (drive' \in {"announce", "report"} /\ drive = "spawn"))
           /\ (waiter' = waiter \/ waiter' = "done" \/ (waiter = "select" /\ waiter' = "grace"))
  <2>1. \A s \in Streams : /\ reader'[s] # "reading" => hand'[s] = 0
                           /\ driver' = "stream" /\ reader'[s] = "ended" => pipe'[s] = << >> /\ ~GroupAlive'
                           /\ drive' \in {"report", "finish", "over"} => reader'[s] # "reading"
    BY <1>1, <1>2, <1>3, <1>4 DEF Settled, Quiet
  <2>2. waiter' \in {"select", "grace"} => drive' = "join"
    BY <1>1, <1>4 DEF Settled, Quiet
  <2> QED BY <1>1, <1>4, <2>1, <2>2 DEF Settled
<1>5. CASE UNCHANGED streamVars
  BY <1>4, <1>5 DEF streamVars
<1>6. CASE driver = "stream" /\ StreamNext
  <2>1. CASE Spawns \/ SpawnFails
    BY <1>4, <2>1 DEF Spawns, SpawnFails
  <2>2. CASE SeesExit \/ GraceObeyed \/ GraceOver \/ Cancel \/ DropHandle
    BY <1>4, <2>2 DEF SeesExit, GraceObeyed, GraceOver, Cancel, DropHandle
  <2>3. CASE Announce
    <3>1. /\ drive = "announce" /\ drive' = "join" /\ hand' = hand
          /\ reader' = [s \in Streams |-> "reading"] /\ waiter' = "select"
          /\ channel' = Append(channel, Started) /\ Len(channel) < Capacity
      BY <2>3 DEF Announce, Send
    <3> QED BY <1>1, <3>1 DEF Settled
  <2>4. CASE TakesCancel
    <3>1. /\ UNCHANGED <<reader, hand, drive>> /\ waiter = "select" /\ waiter' = "grace"
          /\ channel' = IF Len(channel) < Capacity THEN Append(channel, Error) ELSE channel
      BY <2>4 DEF TakesCancel, TrySend
    <3>2. Len(channel') <= Capacity
      BY <1>1, <3>1
    <3> QED BY <1>1, <1>2, <1>3, <3>1, <3>2 DEF Settled
  <2>5. CASE Joined
    <3>1. /\ drive = "join" /\ waiter = "done" /\ drive' \in {"report", "finish"}
          /\ \A s \in Streams : reader[s] # "reading"
          /\ UNCHANGED <<reader, hand, channel, waiter>>
      BY <2>5 DEF Joined
    <3> QED BY <1>1, <1>2, <1>3, <3>1 DEF Settled
  <2>6. CASE Report \/ Finish
    <3>1. /\ drive \in {"report", "finish"} /\ drive' \in {"finish", "over"}
          /\ Len(channel) < Capacity /\ (\E e : channel' = Append(channel, e))
          /\ UNCHANGED <<reader, hand, waiter>>
      BY <2>6 DEF Report, Finish, Send
    <3>2. Len(channel') <= Capacity
      BY <1>1, <3>1
    <3> QED BY <1>1, <1>2, <1>3, <3>1, <3>2 DEF Settled
  <2>7. CASE Receive
    <3>1. /\ UNCHANGED <<reader, hand, drive, waiter>> /\ channel # << >> /\ channel' = Tail(channel)
      BY <2>7 DEF Receive
    <3>2. Len(channel') <= Capacity
      BY <1>1, <3>1
    <3> QED BY <1>1, <1>2, <1>3, <3>1, <3>2 DEF Settled
  <2>8. ASSUME NEW s \in Streams, ReaderNext(s) PROVE Settled'
    <3>1. CASE ReadProgress(s)
      <4>1. /\ UNCHANGED <<reader, hand, drive, waiter>>
            /\ channel' = IF Len(channel) < Capacity THEN Append(channel, Progress) ELSE channel
        BY <3>1 DEF ReadProgress, TrySend
      <4>2. Len(channel') <= Capacity
        BY <1>1, <4>1
      <4> QED BY <1>1, <1>2, <1>3, <4>1, <4>2 DEF Settled
    <3>2. CASE ReadLine(s)
      <4>1. /\ UNCHANGED <<reader, drive, waiter, channel>> /\ reader[s] = "reading"
            /\ \A t \in Streams : t # s => hand'[t] = hand[t]
        BY <1>1, <3>2 DEF ReadLine, Reading
      <4> QED BY <1>1, <1>2, <1>3, <4>1 DEF Settled
    <3>3. CASE SendLine(s)
      <4>1. /\ UNCHANGED <<reader, drive, waiter>> /\ Len(channel) < Capacity
            /\ channel' = Append(channel, Line(s, hand[s]))
            /\ \A t \in Streams : hand'[t] = IF t = s THEN 0 ELSE hand[t]
        BY <1>1, <3>3 DEF SendLine, Send
      <4>2. Len(channel') <= Capacity
        BY <1>1, <4>1
      <4> QED BY <1>1, <1>2, <1>3, <4>1, <4>2 DEF Settled
    <3>4. CASE ReadEnds(s) \/ ReadFails(s)
      <4>1. /\ UNCHANGED <<drive, waiter, channel, hand, pipe>> /\ hand[s] = 0
            /\ \E st \in {"ended", "failed"} :
                 /\ reader' = [reader EXCEPT ![s] = st]
                 /\ st = "ended" => pipe[s] = << >> /\ ~GroupAlive
            /\ UNCHANGED <<leader, helper>>
        BY <3>4 DEF ReadEnds, ReadFails, Reading, groupVars
      <4>2. PICK st \in {"ended", "failed"} : /\ reader' = [reader EXCEPT ![s] = st]
                                              /\ st = "ended" => pipe[s] = << >> /\ ~GroupAlive
        BY <4>1
      <4>3. \A t \in Streams : reader'[t] = IF t = s THEN st ELSE reader[t]
        BY <1>1, <4>2
      <4>4. GroupAlive' <=> GroupAlive
        BY <4>1 DEF GroupAlive, LeaderRuns
      <4>5. \A t \in Streams : driver' = "stream" /\ reader'[t] = "ended" => pipe'[t] = << >> /\ ~GroupAlive'
        BY <1>2, <1>3, <4>1, <4>2, <4>3, <4>4
      <4> QED BY <1>1, <4>1, <4>2, <4>3, <4>5 DEF Settled
    <3> QED BY <2>8, <3>1, <3>2, <3>3, <3>4 DEF ReaderNext
  <2> QED BY <1>6, <2>1, <2>2, <2>3, <2>4, <2>5, <2>6, <2>7, <2>8 DEF StreamNext, WaiterNext
<1> QED BY <1>5, <1>6 DEF Next


(* The numbers of a stream's lines that were sent, received or not yet.    *)
Sent(s) == LineNumbers(received \o channel, s)

LEMMA SentType ==
  ASSUME StreamIInv, NEW s \in Streams
  PROVE  Sent(s) \in Seq(Nat) /\ InHand(s) \in Seq(Nat) /\ Unread(s) \in Seq(Nat)
<1>1. /\ received \o channel \in Seq(Events) /\ hand[s] \in Nat /\ pipe[s] \in Seq(Nat)
  BY DEF StreamIInv, StreamTypes, GroupTypes
<1>2. Unread(s) \in Seq(Nat)
  <2>1. Unread(s) \in Seq(Nat \cap (Nat \ {0}))
    BY <1>1, KeptType DEF Unread
  <2> QED BY <2>1
<1>3. InHand(s) \in Seq(Nat)
  BY <1>1 DEF InHand
<1> QED BY <1>1, <1>2, <1>3, LineNumbersType DEF Sent

(* One more event is sent, or one is received.                             *)
LEMMA EventArrives ==
  ASSUME StreamIInv, NEW s \in Streams, NEW e \in Events,
         received' = received, channel' = Append(channel, e)
  PROVE  Sent(s)' = Sent(s) \o LineNumbers(<<e>>, s)
<1>1. received \in Seq(Events) /\ channel \in Seq(Events)
  BY DEF StreamIInv, StreamTypes
<1> DEFINE es == received \o channel
           one == <<e>>
<1>2. es \in Seq(Events) /\ one \in Seq(Events) /\ received' \o channel' = es \o one
  BY <1>1
<1> HIDE DEF es, one
<1>3. LineNumbers(es \o one, s) = LineNumbers(es, s) \o LineNumbers(one, s)
  BY <1>2, LineNumbersConcat
<1>4. Sent(s)' = LineNumbers(es \o one, s)
  BY <1>2 DEF Sent, LineNumbers
<1>5. Sent(s) = LineNumbers(es, s)
  BY DEF Sent, es
<1> QED BY <1>3, <1>4, <1>5 DEF one

LEMMA EventTaken ==
  ASSUME StreamIInv, NEW s \in Streams, Receive
  PROVE  Sent(s)' = Sent(s)
<1> DEFINE e == Head(channel)
           one == <<e>>
           rest == Tail(channel)
<1>1. /\ received \in Seq(Events) /\ channel \in Seq(Events) /\ channel # << >>
      /\ channel' = Tail(channel)
      /\ received' = IF Head(channel) = Progress THEN received ELSE Append(received, Head(channel))
  BY DEF StreamIInv, StreamTypes, Receive
<1>2. /\ e \in Events /\ one \in Seq(Events) /\ rest \in Seq(Events)
      /\ channel = one \o rest /\ channel' = rest
      /\ e = Progress => received' = received
      /\ e # Progress => received' = received \o one
  BY <1>1
<1>3. Sent(s) = LineNumbers(received, s) \o (LineNumbers(one, s) \o LineNumbers(rest, s))
  <2>1. Sent(s) = LineNumbers(received, s) \o LineNumbers(channel, s)
    BY <1>1, LineNumbersConcat DEF Sent
  <2> HIDE DEF one, rest
  <2>2. LineNumbers(channel, s) = LineNumbers(one, s) \o LineNumbers(rest, s)
    BY <1>2, LineNumbersConcat
  <2> QED BY <2>1, <2>2
<1>4. /\ LineNumbers(received, s) \in Seq(Nat) /\ LineNumbers(one, s) \in Seq(Nat)
      /\ LineNumbers(rest, s) \in Seq(Nat)
  <2> HIDE DEF one, rest
  <2> QED BY <1>1, <1>2, LineNumbersType
<1>5. CASE e = Progress
  <2>1. LineNumbers(one, s) = <<>>
    BY <1>5, LineNumbersOfEvents
  <2> HIDE DEF one, rest
  <2>2. Sent(s)' = LineNumbers(received \o rest, s)
    BY <1>2, <1>5 DEF Sent, LineNumbers
  <2>3. LineNumbers(received \o rest, s) = LineNumbers(received, s) \o LineNumbers(rest, s)
    BY <1>1, <1>2, LineNumbersConcat
  <2>4. <<>> \o LineNumbers(rest, s) = LineNumbers(rest, s)
    BY <1>4, ConcatEmptySeq
  <2> QED BY <1>3, <2>1, <2>2, <2>3, <2>4
<1>6. CASE e # Progress
  <2> HIDE DEF one, rest, e
  <2> DEFINE got == received \o one
  <2>1. got \in Seq(Events)
    BY <1>1, <1>2
  <2>2. Sent(s)' = LineNumbers(got \o rest, s)
    BY <1>2, <1>6 DEF Sent, LineNumbers
  <2>3. LineNumbers(got, s) = LineNumbers(received, s) \o LineNumbers(one, s)
    BY <1>1, <1>2, LineNumbersConcat
  <2> HIDE DEF got
  <2>4. LineNumbers(got \o rest, s) = LineNumbers(got, s) \o LineNumbers(rest, s)
    BY <1>2, <2>1, LineNumbersConcat
  <2>5. (LineNumbers(received, s) \o LineNumbers(one, s)) \o LineNumbers(rest, s)
          = LineNumbers(received, s) \o (LineNumbers(one, s) \o LineNumbers(rest, s))
    BY <1>4, ConcatAssociative
  <2> QED BY <1>3, <2>2, <2>3, <2>4, <2>5
<1> QED BY <1>5, <1>6

(* What is sent stays when nothing happens to the channel.                 *)
LEMMA SentStays ==
  ASSUME NEW s \in Streams, UNCHANGED <<received, channel>>
  PROVE  Sent(s)' = Sent(s)
BY DEF Sent, LineNumbers

(* The pipe: what is unread when a line is written or taken.               *)
LEMMA UnreadAppend ==
  ASSUME StreamIInv, NEW s \in Streams, NEW n \in Nat, pipe'[s] = Append(pipe[s], n)
  PROVE  Unread(s)' = Unread(s) \o (IF n = 0 THEN <<>> ELSE <<n>>)
<1>1. pipe[s] \in Seq(Nat)
  BY DEF StreamIInv, GroupTypes
<1>2. Unread(s)' = Kept(Append(pipe[s], n), Nat \ {0})
  BY DEF Unread
<1>3. Kept(Append(pipe[s], n), Nat \ {0}) = Kept(pipe[s], Nat \ {0}) \o (IF n \in Nat \ {0} THEN <<n>> ELSE <<>>)
  <2> DEFINE p == pipe[s]
             T == Nat \ {0}
  <2>1. p \in Seq(Nat)
    BY <1>1
  <2> HIDE DEF p, T
  <2>2. \A x \in Nat : Kept(Append(p, x), T) = Kept(p, T) \o (IF x \in T THEN <<x>> ELSE <<>>)
    BY <2>1, KeptAppend, Zenon
  <2>3. Kept(Append(p, n), T) = Kept(p, T) \o (IF n \in T THEN <<n>> ELSE <<>>)
    BY <2>2
  <2> QED BY <2>3 DEF p, T
<1> QED BY <1>2, <1>3 DEF Unread

LEMMA UnreadTail ==
  ASSUME StreamIInv, NEW s \in Streams, pipe[s] # << >>, pipe'[s] = Tail(pipe[s])
  PROVE  Unread(s) = (IF Head(pipe[s]) = 0 THEN <<>> ELSE <<Head(pipe[s])>>) \o Unread(s)'
<1>1. pipe[s] \in Seq(Nat) /\ Head(pipe[s]) \in Nat
  BY DEF StreamIInv, GroupTypes
<1>2. Unread(s)' = Kept(Tail(pipe[s]), Nat \ {0})
  BY DEF Unread
<1>3. Kept(pipe[s], Nat \ {0})
        = (IF Head(pipe[s]) \in Nat \ {0} THEN <<Head(pipe[s])>> ELSE <<>>) \o Kept(Tail(pipe[s]), Nat \ {0})
  BY <1>1, KeptHead
<1> QED BY <1>1, <1>2, <1>3 DEF Unread


(* A stream's lines stay where they were.                                  *)
LEMMA LinesStay ==
  ASSUME NEW s \in Streams, LinesOnTheirWay, driver = "stream", reader[s] # "failed",
         Sent(s)' = Sent(s), hand'[s] = hand[s], pipe'[s] = pipe[s], wrote'[s] = wrote[s]
  PROVE  Sent(s)' \o InHand(s)' \o Unread(s)' = [n \in 1 .. wrote'[s] |-> n]
BY DEF LinesOnTheirWay, Sent, InHand, Unread

(* The child writes a line or a progress report.                           *)
LEMMA LinesOfGroup ==
  ASSUME StreamIInv, NEW s \in Streams, LinesOnTheirWay, driver = "stream", reader[s] # "failed",
         GroupNext, UNCHANGED streamVars
  PROVE  Sent(s)' \o InHand(s)' \o Unread(s)' = [n \in 1 .. wrote'[s] |-> n]
<1>1. UNCHANGED <<received, channel, hand>> /\ Sent(s)' = Sent(s) /\ InHand(s)' = InHand(s)
  BY SentStays DEF streamVars, InHand
<1>2. Sent(s) \in Seq(Nat) /\ InHand(s) \in Seq(Nat) /\ Unread(s) \in Seq(Nat)
  BY SentType
<1>3. Sent(s) \o InHand(s) \o Unread(s) = [n \in 1 .. wrote[s] |-> n]
  BY DEF LinesOnTheirWay, Sent
<1>4. wrote \in [Streams -> Nat] /\ pipe \in [Streams -> Seq(Nat)]
  BY DEF StreamIInv, GroupTypes
<1>5. ASSUME NEW t \in Streams, WriteLine(t)
      PROVE  Sent(s)' \o InHand(s)' \o Unread(s)' = [n \in 1 .. wrote'[s] |-> n]
  <2>1. /\ wrote' = [wrote EXCEPT ![t] = wrote[t] + 1]
        /\ pipe' = [pipe EXCEPT ![t] = Append(pipe[t], wrote'[t])]
    BY <1>5 DEF WriteLine
  <2>2. CASE t # s
    BY <1>1, <1>4, <2>1, <2>2, LinesStay
  <2>3. CASE t = s
    <3> DEFINE k == wrote[s] + 1
    <3>1. wrote'[s] = k /\ pipe'[s] = Append(pipe[s], k) /\ k \in Nat \ {0} /\ wrote[s] \in Nat
      BY <1>4, <2>1, <2>3
    <3>2. Unread(s)' = Unread(s) \o <<k>>
      BY <3>1, UnreadAppend
    <3>3. [n \in 1 .. k |-> n] = [n \in 1 .. wrote[s] |-> n] \o <<k>>
      BY <3>1
    <3> HIDE DEF k
    <3>4. <<k>> \in Seq(Nat) /\ Sent(s) \o InHand(s) \in Seq(Nat)
      BY <1>2, <3>1
    <3>5. (Sent(s) \o InHand(s) \o Unread(s)) \o <<k>> = Sent(s) \o InHand(s) \o (Unread(s) \o <<k>>)
      BY SMTT(30), <1>2, <3>4, ConcatAssociative
    <3> QED BY <1>1, <1>3, <3>1, <3>2, <3>3, <3>5
  <2> QED BY <2>2, <2>3
<1>6. ASSUME NEW t \in Streams, WriteProgress(t)
      PROVE  Sent(s)' \o InHand(s)' \o Unread(s)' = [n \in 1 .. wrote'[s] |-> n]
  <2>1. wrote' = wrote /\ pipe' = [pipe EXCEPT ![t] = Append(pipe[t], 0)]
    BY <1>6 DEF WriteProgress
  <2>2. CASE t # s
    BY <1>1, <1>4, <2>1, <2>2, LinesStay
  <2>3. CASE t = s
    <3>1. Unread(s)' = Unread(s) \o <<>>
      BY <1>4, <2>1, <2>3, UnreadAppend
    <3>2. Unread(s) \o <<>> = Unread(s)
      BY <1>2, ConcatEmptySeq
    <3> QED BY <1>1, <1>3, <2>1, <3>1, <3>2
  <2> QED BY <2>2, <2>3
<1>7. CASE UNCHANGED <<pipe, wrote>>
  BY <1>1, <1>7, LinesStay
<1> QED BY <1>5, <1>6, <1>7 DEF GroupNext, Fork, LeaderExits, HelperExits

LEMMA TailStays ==
  ASSUME NEW q \in Seq(Nat), q # << >>
  PROVE  Tail(q) \in Seq(Nat) /\ Head(q) \in Nat
OBVIOUS

(* A reader takes a progress report, takes a line, or sends it.            *)
LEMMA LinesOfReader ==
  ASSUME StreamIInv, Settled, NEW s \in Streams, LinesOnTheirWay, driver = "stream", NEW t \in Streams,
         ReaderNext(t), reader'[s] # "failed"
  PROVE  Sent(s)' \o InHand(s)' \o Unread(s)' = [n \in 1 .. wrote'[s] |-> n]
<1>1. /\ Sent(s) \in Seq(Nat) /\ InHand(s) \in Seq(Nat) /\ Unread(s) \in Seq(Nat)
      /\ hand \in [Streams -> Nat] /\ pipe \in [Streams -> Seq(Nat)]
      /\ reader \in [Streams -> {"idle", "reading", "ended", "failed"}]
  BY SentType DEF StreamIInv, StreamTypes, GroupTypes, Settled
<1>2. \A a, b, c \in Seq(Nat) : (a \o b) \o c = a \o (b \o c)
  BY ConcatAssociative
<1>3. \A a \in Seq(Nat) : a \o <<>> = a /\ <<>> \o a = a
  BY ConcatEmptySeq
<1>4. reader[s] # "failed"
  BY <1>1 DEF ReaderNext, ReadProgress, ReadLine, SendLine, ReadEnds, ReadFails, Reading
<1>5. Sent(s) \o InHand(s) \o Unread(s) = [n \in 1 .. wrote[s] |-> n]
  BY <1>4 DEF LinesOnTheirWay, Sent
<1>6. CASE ReadProgress(t)
  <2>1. /\ UNCHANGED <<hand, received, wrote>> /\ pipe[t] # <<>> /\ Head(pipe[t]) = 0
        /\ \A u \in Streams : pipe'[u] = IF u = t THEN Tail(pipe[u]) ELSE pipe[u]
        /\ channel' = IF Len(channel) < Capacity THEN Append(channel, Progress) ELSE channel
    BY <1>1, <1>6 DEF ReadProgress, TrySend
  <2>2. Sent(s)' = Sent(s)
    <3>1. CASE Len(channel) < Capacity
      <4>1. LineNumbers(<<Progress>>, s) = <<>> /\ Progress \in Events
        BY LineNumbersOfEvents, EventsOfTheRun
      <4>2. Sent(s)' = Sent(s) \o LineNumbers(<<Progress>>, s)
        BY <2>1, <3>1, <4>1, EventArrives
      <4> QED BY <1>1, <1>3, <4>1, <4>2
    <3>2. CASE ~(Len(channel) < Capacity)
      BY <2>1, <3>2, SentStays
    <3> QED BY <3>1, <3>2
  <2>3. CASE t # s
    BY <1>4, <2>1, <2>2, <2>3, LinesStay
  <2>4. CASE t = s
    <3>1. Unread(s) = <<>> \o Unread(s)'
      BY <2>1, <2>4, UnreadTail
    <3>2. Unread(s)' = Unread(s)
      <4>1. Unread(s)' \in Seq(Nat)
        <5>0. pipe[s] \in Seq(Nat) /\ pipe[s] # <<>> /\ pipe'[s] = Tail(pipe[s])
          BY <1>1, <2>1, <2>4
        <5>1. pipe'[s] \in Seq(Nat)
          BY <5>0, TailStays
        <5>2. Kept(pipe'[s], Nat \ {0}) \in Seq(Nat \cap (Nat \ {0}))
          BY <5>1, KeptType
        <5> QED BY <5>2 DEF Unread
      <4> QED BY <1>3, <3>1, <4>1
    <3> QED BY <1>5, <2>1, <2>2, <3>2 DEF InHand
  <2> QED BY <2>3, <2>4
<1>7. CASE ReadLine(t)
  <2>1. /\ UNCHANGED <<channel, received, wrote>> /\ pipe[t] # <<>> /\ Head(pipe[t]) # 0 /\ hand[t] = 0
        /\ \A u \in Streams : /\ pipe'[u] = IF u = t THEN Tail(pipe[u]) ELSE pipe[u]
                              /\ hand'[u] = IF u = t THEN Head(pipe[t]) ELSE hand[u]
    BY <1>1, <1>7 DEF ReadLine, Reading
  <2>2. Sent(s)' = Sent(s)
    BY <2>1, SentStays
  <2>3. CASE t # s
    BY <1>4, <2>1, <2>2, <2>3, LinesStay
  <2>4. CASE t = s
    <3>1. Unread(s) = <<Head(pipe[s])>> \o Unread(s)'
      BY <2>1, <2>4, UnreadTail
    <3>2. InHand(s) = <<>> /\ InHand(s)' = <<Head(pipe[s])>>
      BY <2>1, <2>4 DEF InHand
    <3>3. Unread(s)' \in Seq(Nat) /\ InHand(s)' \in Seq(Nat)
      <4>0. pipe[s] \in Seq(Nat) /\ pipe[s] # <<>> /\ pipe'[s] = Tail(pipe[s])
        BY <1>1, <2>1, <2>4
      <4>1. pipe'[s] \in Seq(Nat) /\ Head(pipe[s]) \in Nat
        BY <4>0, TailStays
      <4>2. Kept(pipe'[s], Nat \ {0}) \in Seq(Nat \cap (Nat \ {0}))
        BY <4>1, KeptType
      <4> QED BY <3>2, <4>1, <4>2 DEF Unread
    <3>4. Sent(s) \o InHand(s) = Sent(s)
      BY <1>1, <1>3, <3>2
    <3>5. (Sent(s) \o InHand(s)') \o Unread(s)' = Sent(s) \o (InHand(s)' \o Unread(s)')
      BY <1>1, <1>2, <3>3
    <3> QED BY <1>5, <2>1, <2>2, <3>1, <3>2, <3>4, <3>5
  <2> QED BY <2>3, <2>4
<1>8. CASE SendLine(t)
  <2>1. /\ UNCHANGED <<pipe, received, wrote>> /\ hand[t] # 0
        /\ channel' = Append(channel, Line(t, hand[t]))
        /\ \A u \in Streams : hand'[u] = IF u = t THEN 0 ELSE hand[u]
    BY <1>1, <1>8 DEF SendLine, Send, groupVars
  <2>2. Line(t, hand[t]) \in Events /\ hand[t] \in Nat
    BY <1>1, EventsOfTheRun
  <2>3. Sent(s)' = Sent(s) \o LineNumbers(<<Line(t, hand[t])>>, s)
    BY <2>1, <2>2, EventArrives
  <2>4. LineNumbers(<<Line(t, hand[t])>>, s) = IF t = s THEN <<hand[t]>> ELSE <<>>
    BY <2>2, LineNumbersOfEvents
  <2>5. CASE t # s
    <3>1. Sent(s)' = Sent(s)
      BY <1>1, <1>3, <2>3, <2>4, <2>5
    <3> QED BY <1>4, <2>1, <2>5, <3>1, LinesStay
  <2>6. CASE t = s
    <3>1. InHand(s) = <<hand[s]>> /\ InHand(s)' = <<>> /\ Unread(s)' = Unread(s)
      BY <2>1, <2>6 DEF InHand, Unread
    <3>2. Sent(s)' = Sent(s) \o InHand(s)
      BY <2>3, <2>4, <2>6, <3>1
    <3>3. Sent(s) \o InHand(s) \in Seq(Nat)
      BY <1>1
    <3>4. Sent(s)' \o InHand(s)' = Sent(s) \o InHand(s)
      BY <1>3, <3>1, <3>2, <3>3
    <3> QED BY <1>5, <2>1, <3>1, <3>4
  <2> QED BY <2>5, <2>6
<1>9. CASE ReadEnds(t) \/ ReadFails(t)
  <2>1. UNCHANGED <<pipe, wrote, hand, received, channel>>
    BY <1>9 DEF ReadEnds, ReadFails, groupVars
  <2> QED BY <1>4, <2>1, SentStays, LinesStay
<1> QED BY <1>6, <1>7, <1>8, <1>9 DEF ReaderNext

(* No step drops, doubles or overtakes a line.                             *)
LEMMA LinesStep == StreamIInv /\ Settled /\ LinesOnTheirWay /\ Next => LinesOnTheirWay'
<1> SUFFICES ASSUME StreamIInv, Settled, LinesOnTheirWay, Next, NEW s \in Streams,
                    driver' = "stream", reader'[s] # "failed"
             PROVE  Sent(s)' \o InHand(s)' \o Unread(s)' = [n \in 1 .. wrote'[s] |-> n]
  BY DEF LinesOnTheirWay, Sent
<1>1. driver = "stream"
  BY DEF Next
<1>2. CASE GroupNext /\ UNCHANGED streamVars
  <2>1. reader[s] # "failed"
    BY <1>2 DEF streamVars
  <2> QED BY <1>1, <1>2, <2>1, LinesOfGroup
<1>3. CASE StreamNext
  <2>1. ASSUME NEW t \in Streams, ReaderNext(t)
        PROVE  Sent(s)' \o InHand(s)' \o Unread(s)' = [n \in 1 .. wrote'[s] |-> n]
    BY <1>1, <2>1, LinesOfReader
  <2>2. ASSUME UNCHANGED <<pipe, wrote, hand>>, reader[s] # "failed", Sent(s)' = Sent(s)
        PROVE  Sent(s)' \o InHand(s)' \o Unread(s)' = [n \in 1 .. wrote'[s] |-> n]
    BY <1>1, <2>2, LinesStay
  <2>3. ASSUME NEW e \in {Started, Progress, Error} \cup Finishes, received' = received,
               channel' = Append(channel, e) \/ channel' = channel
        PROVE  Sent(s)' = Sent(s)
    <3>1. LineNumbers(<<e>>, s) = <<>> /\ e \in Events
      BY LineNumbersOfEvents, EventsOfTheRun DEF Events
    <3>2. Sent(s) \o <<>> = Sent(s)
      BY SentType, ConcatEmptySeq
    <3>3. CASE channel' = Append(channel, e)
      <4>1. Sent(s)' = Sent(s) \o LineNumbers(<<e>>, s)
        BY <2>3, <3>1, <3>3, EventArrives
      <4> QED BY <3>1, <3>2, <4>1
    <3>4. CASE channel' = channel
      BY <2>3, <3>4, SentStays
    <3> QED BY <2>3, <3>3, <3>4
  <2>4. CASE Spawns \/ SpawnFails \/ SeesExit \/ GraceObeyed \/ GraceOver \/ Joined \/ Cancel \/ DropHandle
    <3>1. UNCHANGED <<pipe, wrote, hand, reader, received, channel>>
      BY <2>4 DEF Spawns, SpawnFails, SeesExit, GraceObeyed, GraceOver, Joined, Cancel, DropHandle,
                  Birth, Sigkill, groupVars
    <3> QED BY <2>2, <3>1, SentStays
  <2>5. CASE Announce
    <3>1. /\ UNCHANGED <<pipe, wrote, hand, received>> /\ channel' = Append(channel, Started)
          /\ drive = "announce"
      BY <2>5 DEF Announce, Send, groupVars
    <3>2. reader[s] # "failed"
      BY <3>1 DEF StreamIInv, StreamPlace, Quiet
    <3> QED BY <2>2, <2>3, <3>1, <3>2
  <2>6. CASE TakesCancel
    <3>1. /\ UNCHANGED <<pipe, wrote, hand, reader, received>>
          /\ channel' = Append(channel, Error) \/ channel' = channel
      BY <2>6 DEF TakesCancel, TrySend, Sigterm
    <3> QED BY <2>2, <2>3, <3>1
  <2>7. CASE Report
    <3>1. UNCHANGED <<pipe, wrote, hand, reader, received>> /\ channel' = Append(channel, Error)
      BY <2>7 DEF Report, Send, groupVars
    <3> QED BY <2>2, <2>3, <3>1
  <2>8. CASE Finish
    <3>1. /\ UNCHANGED <<pipe, wrote, hand, reader, received>>
          /\ channel' = Append(channel, Finished(~OutputFailed /\ status = "ok"))
      BY <2>8 DEF Finish, Send, groupVars
    <3>2. Finished(~OutputFailed /\ status = "ok") \in Finishes
      <4>1. (~OutputFailed /\ status = "ok") \in BOOLEAN
        OBVIOUS
      <4> QED BY <4>1, EventsOfTheRun
    <3> QED BY <2>2, <2>3, <3>1, <3>2
  <2>9. CASE Receive
    <3>1. UNCHANGED <<pipe, wrote, hand, reader>>
      BY <2>9 DEF Receive, groupVars
    <3> QED BY <2>2, <2>9, <3>1, EventTaken
  <2> QED BY <1>3, <2>1, <2>4, <2>5, <2>6, <2>7, <2>8, <2>9 DEF StreamNext, WaiterNext
<1> QED BY <1>1, <1>2, <1>3 DEF Next


(* The readers start with Started and never go back.                       *)
LEMMA JoiningStep == StreamIInv /\ Settled /\ Joining /\ Next => Joining'
<1> SUFFICES ASSUME StreamIInv, Settled, Joining, Next PROVE Joining'
  OBVIOUS
<1>1. /\ reader \in [Streams -> {"idle", "reading", "ended", "failed"}]
      /\ driver = "capture" => drive = "spawn"
      /\ driver \in {"stream", "capture"}
      /\ drive = "spawn" /\ driver = "stream" => leader = "unborn"
  BY DEF StreamIInv, StreamPlace, Settled
<1>2. leader' # "unborn" => leader # "unborn" \/ drive' \in {"spawn", "announce"}
  <2>1. driver = "capture" => drive' = drive
    BY DEF Next, streamVars, GroupNext
  <2> QED BY <1>1, <2>1, ChildSteps DEF LeaderRuns
<1>3. CASE UNCHANGED streamVars
  BY <1>2, <1>3 DEF Joining, streamVars
<1>4. CASE driver = "stream" /\ StreamNext
  <2>1. CASE Spawns
    BY <2>1 DEF Spawns, Joining
  <2>2. CASE SpawnFails
    BY <1>1, <1>4, <2>2 DEF SpawnFails, Joining, groupVars
  <2>3. CASE Announce
    BY <2>3 DEF Announce, Joining
  <2>4. ASSUME NEW s \in Streams, ReaderNext(s) PROVE Joining'
    <3>1. UNCHANGED drive /\ \A t \in Streams : reader'[t] = "idle" => reader[t] = "idle"
      BY <1>1, <2>4 DEF ReaderNext, ReadProgress, ReadLine, SendLine, ReadEnds, ReadFails
    <3> QED BY <1>2, <3>1 DEF Joining
  <2>5. CASE WaiterNext \/ Joined \/ Report \/ Finish \/ Receive \/ Cancel \/ DropHandle
    <3>1. UNCHANGED reader /\ (drive' \in {"spawn", "announce"} <=> drive \in {"spawn", "announce"})
      BY <2>5 DEF WaiterNext, SeesExit, TakesCancel, GraceObeyed, GraceOver, Joined, Report, Finish,
                  Receive, Cancel, DropHandle
    <3> QED BY <1>2, <3>1 DEF Joining
  <2> QED BY <1>4, <2>1, <2>2, <2>3, <2>4, <2>5 DEF StreamNext
<1> QED BY <1>3, <1>4 DEF Next

(* After Finished was sent only the holder moves, the readers stand still. *)
LEMMA OverIsOver ==
  ASSUME StreamIInv, Settled, Next, drive = "over"
  PROVE  drive' = "over" /\ reader' = reader /\ (UNCHANGED <<received, channel>> \/ Receive)
<1>1. /\ \A s \in Streams : reader[s] # "reading" /\ hand[s] = 0
      /\ waiter \notin {"select", "grace"}
  BY DEF Settled
<1>2. CASE UNCHANGED streamVars
  BY <1>2 DEF streamVars
<1>3. CASE StreamNext
  <2>1. ~(Spawns \/ SpawnFails \/ Announce \/ Joined \/ Report \/ Finish)
    BY DEF Spawns, SpawnFails, Announce, Joined, Report, Finish
  <2>2. ~WaiterNext \/ SeesExit
    BY <1>1 DEF WaiterNext, SeesExit, TakesCancel, GraceObeyed, GraceOver
  <2>3. ASSUME NEW s \in Streams PROVE ~ReaderNext(s)
    BY <1>1 DEF ReaderNext, ReadProgress, ReadLine, SendLine, ReadEnds, ReadFails, Reading
  <2> QED BY <1>3, <2>1, <2>2, <2>3 DEF StreamNext, SeesExit, Receive, Cancel, DropHandle
<1> QED BY <1>2, <1>3 DEF Next

(* What Finished says is so after the step.                                *)
WholeAfter(e) == drive' = "over" /\ (e[2] => \A s \in Streams : reader'[s] = "ended")

(* Finished stays at the end.                                              *)
LEMMA FinishedStep == StreamIInv /\ Settled /\ Joining /\ FinishedAtEnd /\ Next => FinishedAtEnd'
<1> SUFFICES ASSUME StreamIInv, Settled, Joining, FinishedAtEnd, Next PROVE FinishedAtEnd'
  OBVIOUS
<1>1. received \in Seq(Events) /\ channel \in Seq(Events)
  BY DEF StreamIInv, StreamTypes
<1>2. CASE drive = "over"
  <2>1. drive' = "over" /\ reader' = reader /\ (UNCHANGED <<received, channel>> \/ Receive)
    BY <1>2, OverIsOver
  <2>2. \A e : Whole(e) => WholeAfter(e)
    BY <1>2, <2>1 DEF Whole, WholeAfter
  <2>3. CASE UNCHANGED <<received, channel>>
    BY <2>2, <2>3 DEF FinishedAtEnd, Whole, WholeAfter
  <2>4. CASE Receive
    <3>1. /\ channel # << >> /\ channel' = Tail(channel) /\ ~HeardFinish
          /\ received' = IF channel[1] = Progress THEN received ELSE Append(received, channel[1])
      BY <2>4 DEF Receive
    <3>2. \A i \in 1 .. Len(received) : received[i] \notin Finishes
      BY <1>1, <3>1, EventKinds DEF HeardFinish
    <3>3. /\ Len(channel') = Len(channel) - 1 /\ 1 \in 1 .. Len(channel)
          /\ \A i \in 1 .. Len(channel') : channel'[i] = channel[i + 1] /\ i + 1 \in 1 .. Len(channel)
      BY <1>1, <3>1
    <3>4. ASSUME NEW i \in 1 .. Len(channel'), channel'[i] \in Finishes
          PROVE  i = Len(channel') /\ WholeAfter(channel'[i])
      <4>1. channel[i + 1] \in Finishes /\ i + 1 \in 1 .. Len(channel) /\ channel'[i] = channel[i + 1]
        BY <3>3, <3>4
      <4>2. i + 1 = Len(channel) /\ Whole(channel[i + 1])
        BY <4>1 DEF FinishedAtEnd
      <4>3. WholeAfter(channel[i + 1])
        BY <2>2, <4>2
      <4>4. Len(channel) \in Nat /\ i \in Nat
        BY <1>1, <3>3
      <4> QED BY <3>3, <4>1, <4>2, <4>3, <4>4
    <3>5. ASSUME NEW i \in 1 .. Len(received'), received'[i] \in Finishes
          PROVE  i = Len(received') /\ channel' = << >> /\ WholeAfter(received'[i])
      <4>1. channel[1] # Progress
        BY <3>1, <3>2, <3>5
      <4>2. received' = Append(received, channel[1])
        BY <3>1, <4>1
      <4>3. i = Len(received') /\ received'[i] = channel[1]
        BY <1>1, <3>2, <3>5, <4>2
      <4>4. 1 = Len(channel) /\ Whole(channel[1])
        BY <3>3, <3>5, <4>3 DEF FinishedAtEnd
      <4>5. channel' = << >>
        BY <1>1, <3>1, <4>4
      <4> QED BY <2>2, <4>3, <4>4, <4>5
    <3> QED BY <3>4, <3>5 DEF FinishedAtEnd, Whole, WholeAfter
  <2> QED BY <2>1, <2>3, <2>4
<1>3. CASE drive # "over"
  <2>1. /\ \A i \in 1 .. Len(received) : received[i] \notin Finishes
        /\ \A i \in 1 .. Len(channel) : channel[i] \notin Finishes
    BY <1>3 DEF FinishedAtEnd, Whole
  <2>2. CASE UNCHANGED <<received, channel>>
    BY <2>1, <2>2 DEF FinishedAtEnd
  <2>3. CASE Receive
    <3>1. /\ channel # << >> /\ channel' = Tail(channel)
          /\ received' = IF channel[1] = Progress THEN received ELSE Append(received, channel[1])
      BY <2>3 DEF Receive
    <3>2. /\ 1 \in 1 .. Len(channel)
          /\ \A i \in 1 .. Len(channel') : channel'[i] = channel[i + 1] /\ i + 1 \in 1 .. Len(channel)
      BY <1>1, <3>1
    <3>3. \A i \in 1 .. Len(received') : received'[i] \notin Finishes
      BY <1>1, <2>1, <3>1, <3>2
    <3> QED BY <2>1, <3>2, <3>3 DEF FinishedAtEnd
  <2>4. ASSUME NEW e, e \notin Finishes, received' = received, channel' = Append(channel, e)
        PROVE  FinishedAtEnd'
    <3>1. \A i \in 1 .. Len(channel') : channel'[i] \notin Finishes
      BY <1>1, <2>1, <2>4
    <3> QED BY <2>1, <2>4, <3>1 DEF FinishedAtEnd
  <2>5. CASE Announce
    BY <2>4, <2>5, EventKinds DEF Announce, Send
  <2>6. CASE Finish
    <3> DEFINE e == Finished(~OutputFailed /\ status = "ok")
    <3>1. /\ UNCHANGED <<received, reader>> /\ channel' = Append(channel, e)
          /\ drive = "finish" /\ drive' = "over"
      BY <2>6 DEF Finish, Send
    <3>2. e[2] => \A s \in Streams : reader[s] = "ended"
      <4>1. e[2] => ~OutputFailed /\ status = "ok"
        BY DEF Finished
      <4>2. status = "ok" => leader = "dead"
        BY DEF StreamIInv, GroupTypes
      <4>3. leader = "dead" => \A s \in Streams : reader[s] # "idle"
        BY <3>1 DEF Joining
      <4>4. \A s \in Streams : reader[s] \in {"idle", "ended", "failed"}
        BY <3>1 DEF Settled
      <4>5. ~OutputFailed => \A s \in Streams : reader[s] # "failed"
        BY DEF OutputFailed
      <4> HIDE DEF e
      <4> QED BY <4>1, <4>2, <4>3, <4>4, <4>5
    <3> HIDE DEF e
    <3>3. WholeAfter(e)
      BY <3>1, <3>2 DEF WholeAfter
    <3>4. \A i \in 1 .. Len(channel') : IF i \in 1 .. Len(channel) THEN channel'[i] = channel[i]
                                        ELSE channel'[i] = e /\ i = Len(channel')
      BY <1>1, <3>1
    <3>5. \A i \in 1 .. Len(channel') : channel'[i] \in Finishes => channel'[i] = e /\ i = Len(channel')
      BY <2>1, <3>4
    <3> QED BY <2>1, <3>1, <3>3, <3>5 DEF FinishedAtEnd, Whole, WholeAfter
  <2>7. CASE driver = "stream" /\ SpawnFails
    BY <2>2, <2>7 DEF SpawnFails
  <2> QED BY <2>2, <2>3, <2>4, <2>5, <2>6, <2>7, ChannelSteps
<1> QED BY <1>2, <1>3

(* The invariant holds in every reachable state.                           *)
LEMMA LinesInvariant == Spec => []LinesIInv
<1>1. Init => LinesIInv
  <2> SUFFICES ASSUME Init PROVE LinesIInv
    OBVIOUS
  <2>1. /\ drive = "spawn" /\ reader = [s \in Streams |-> "idle"] /\ hand = [s \in Streams |-> 0]
        /\ waiter = "idle" /\ channel = << >> /\ received = << >> /\ leader = "unborn"
        /\ pipe = [s \in Streams |-> << >>] /\ wrote = [s \in Streams |-> 0]
    BY DEF Init, StreamInit, GroupInit
  <2>2. Settled
    BY <2>1, CapacityAssumption DEF Settled
  <2>3. FinishedAtEnd /\ Joining
    BY <2>1 DEF FinishedAtEnd, Joining
  <2>4. ASSUME NEW s \in Streams
        PROVE  Sent(s) \o InHand(s) \o Unread(s) = [n \in 1 .. wrote[s] |-> n]
    <3>1. InHand(s) = << >>
      BY <2>1 DEF InHand
    <3>2. Unread(s) = << >>
      BY <2>1, KeptEmpty DEF Unread
    <3>3. Sent(s) = << >>
      <4>1. received \o channel = << >>
        BY <2>1
      <4>2. Kept(<< >>, LinesOf(s)) = << >>
        BY KeptEmpty
      <4>3. Sent(s) = [i \in 1 .. Len(<< >>) |-> << >>[i][3]]
        BY <4>1, <4>2 DEF Sent, LineNumbers, LinesOf
      <4>4. [i \in 1 .. Len(<< >>) |-> << >>[i][3]] = << >>
        OBVIOUS
      <4> QED BY <4>3, <4>4
    <3>4. wrote[s] = 0 /\ [n \in 1 .. 0 |-> n] = << >>
      BY <2>1
    <3> QED BY <3>1, <3>2, <3>3, <3>4
  <2>5. LinesOnTheirWay
    BY <2>4 DEF LinesOnTheirWay, Sent
  <2> QED BY <2>2, <2>3, <2>5, StreamInitIInv DEF LinesIInv
<1>2. LinesIInv /\ StreamIInv' /\ [Next]_vars => LinesIInv'
  <2>1. CASE Next
    BY <2>1, SettledStep, JoiningStep, FinishedStep, LinesStep DEF LinesIInv
  <2>2. CASE UNCHANGED vars
    BY <2>2 DEF vars, groupVars, streamVars, captureVars, LinesIInv, Settled, Joining, FinishedAtEnd,
                Whole, LinesOnTheirWay, InHand, Unread, LineNumbers, GroupAlive, LeaderRuns
  <2> QED BY <2>1, <2>2
<1> QED BY <1>1, <1>2, StreamInvariant, PTL DEF Spec

(* Backpressure delays a line and loses none: each line a stream carried   *)
(* is, once and in order, received, queued, in its reader's hand or        *)
(* unread; Finished is the last event, and when it says success everything *)
(* was delivered before it and nobody is left to write; and the channel    *)
(* never holds more than its capacity (process/mod.rs:114, 344-376,        *)
(* 456-474).                                                               *)
THEOREM LinesAreConserved == Spec => []LinesConserved
<1>1. ASSUME LinesIInv PROVE LinesConserved
  <2>1. received \in Seq(Events) /\ channel \in Seq(Events)
    BY <1>1 DEF LinesIInv, StreamIInv, StreamTypes
  <2> DEFINE events == received \o channel
  <2>2. ASSUME NEW i \in 1 .. Len(events), events[i][1] = "finished"
        PROVE  i = Len(events) /\ Whole(events[i])
    <3>1. /\ events \in Seq(Events) /\ Len(events) = Len(received) + Len(channel)
          /\ Len(received) \in Nat /\ Len(channel) \in Nat
          /\ events[i] = IF i \in 1 .. Len(received) THEN received[i] ELSE channel[i - Len(received)]
          /\ i \in 1 .. Len(received) \/ i - Len(received) \in 1 .. Len(channel)
      BY <2>1
    <3> HIDE DEF events
    <3>2. events[i] \in Finishes
      BY <2>2, <3>1, EventKinds
    <3>3. CASE i \in 1 .. Len(received)
      BY <1>1, <3>1, <3>2, <3>3 DEF LinesIInv, FinishedAtEnd
    <3>4. CASE i \notin 1 .. Len(received)
      <4>1. i - Len(received) \in 1 .. Len(channel) /\ events[i] = channel[i - Len(received)]
        BY <3>1, <3>4
      <4>2. i - Len(received) = Len(channel) /\ Whole(channel[i - Len(received)])
        BY <1>1, <3>2, <4>1 DEF LinesIInv, FinishedAtEnd
      <4>3. i \in Nat
        BY <3>1
      <4> QED BY <3>1, <4>1, <4>2, <4>3
    <3> QED BY <3>3, <3>4
  <2>3. ASSUME NEW e, Whole(e), e[2]
        PROVE  ~GroupAlive /\ \A s \in Streams : Len(LineNumbers(events, s)) = wrote[s]
    <3>1. driver = "stream" /\ \A s \in Streams : reader[s] = "ended"
      BY <1>1, <2>3 DEF Whole, LinesIInv, StreamIInv, StreamPlace
    <3>2. \A s \in Streams : pipe[s] = << >> /\ ~GroupAlive /\ hand[s] = 0
      BY <1>1, <3>1 DEF LinesIInv, Settled
    <3>3. ~GroupAlive
      BY <3>2 DEF Streams
    <3>4. ASSUME NEW s \in Streams PROVE Len(LineNumbers(events, s)) = wrote[s]
      <4>1. InHand(s) = << >>
        BY <3>2 DEF InHand
      <4>2. Unread(s) = << >>
        BY <3>2, KeptEmpty DEF Unread
      <4>3. Sent(s) \o InHand(s) \o Unread(s) = [n \in 1 .. wrote[s] |-> n]
        BY <1>1, <3>1 DEF LinesIInv, LinesOnTheirWay, Sent
      <4>4. Sent(s) \in Seq(Nat) /\ wrote[s] \in Nat
        BY <1>1, SentType DEF LinesIInv, StreamIInv, GroupTypes
      <4>5. Sent(s) = [n \in 1 .. wrote[s] |-> n]
        BY <4>1, <4>2, <4>3, <4>4
      <4>6. Len([n \in 1 .. wrote[s] |-> n]) = wrote[s]
        BY <4>4
      <4> QED BY <4>5, <4>6 DEF Sent
    <3> QED BY <3>3, <3>4
  <2>4. FinishedComesLast
    <3> HIDE DEF events
    <3> QED BY <2>2, <2>3 DEF FinishedComesLast, events
  <2> QED BY <1>1, <2>4 DEF LinesConserved, LinesIInv, Settled
<1> QED BY <1>1, LinesInvariant, PTL
=============================================================================
