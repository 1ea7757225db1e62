------------------------------ MODULE Pages_proofs ------------------------------
(***************************************************************************)
(* Proofs about Pages, for any number of dialogs, clicks, crashes and      *)
(* logins, and for any remotes, depth and number of captures in flight.    *)
(***************************************************************************)
EXTENDS Pages, Lists_proofs

-----------------------------------------------------------------------------
(* The schedule dialogs, the dashboard and systemd.                        *)

Units == [click : Nat, live : BOOLEAN, agreed : BOOLEAN]

(* Whatever was agreed to: a live unit only with the consent.              *)
AgreedUnits == {u \in Units : u.live => u.agreed}

Pairs == [service : AgreedUnits \cup {None}, timer : AgreedUnits \cup {None}]

Steps == Busy \cup {"idle", "scheduled"}

ScheduleTypes ==
  /\ step \in [Owners -> Steps]
  /\ reply \in [Owners -> {None, "ok", "err"}]
  /\ asked \in [Dialogs -> AgreedUnits \cup {None}]
  /\ disk \in Pairs /\ loaded \in Pairs
  /\ enabled \in BOOLEAN /\ armed \in BOOLEAN
  /\ overlapped \in BOOLEAN
  /\ clicks \in Nat

(* Only an installation writes, reloads and enables; only the dashboard    *)
(* deletes.  What a coroutine installs was asked for, and an answer is     *)
(* there only for a coroutine that waits for one.                          *)
StepsOfOwners ==
  /\ step[Dashboard] \in {"idle", "deleting", "cleaning"}
  /\ \A d \in Dialogs : step[d] \notin {"deleting", "cleaning"}
  /\ \A d \in Dialogs : step[d] \in Busy => asked[d] # None
  /\ \A d \in Owners : reply[d] # None => step[d] \in Busy \ {"writing"}

(* Without an overlap there is one coroutine under way.                    *)
OneAtATime == \A d, e \in Owners : step[d] \in Busy /\ step[e] \in Busy => d = e

Matching(pair) == pair.service = pair.timer /\ pair.service # None

(* A pair that is not of one click is on disk only while the timer is not  *)
(* enabled, and a coroutine replaces files only then.                      *)
EnabledMatches == enabled => Matching(disk)

FilesInHand ==
  /\ \A d \in Dialogs : MayWrite(d) => ~enabled
  /\ step[Dashboard] = "deleting" /\ reply[Dashboard] = "ok" => ~enabled
  /\ \A d \in Dialogs :
       step[d] \in {"reloading", "enabling"} => disk = [service |-> asked[d], timer |-> asked[d]]

(* What systemd runs is what it has read.                                  *)
ArmedIsEnabled == armed => enabled /\ Matching(loaded)

EnableTookEffect ==
  \A d \in Dialogs : step[d] = "enabling" /\ reply[d] = "ok" => armed /\ loaded = disk

Separate ==
  ~overlapped => OneAtATime /\ EnabledMatches /\ FilesInHand /\ ArmedIsEnabled /\ EnableTookEffect

ScheduleIInv == ScheduleTypes /\ StepsOfOwners /\ Separate

(* At the start nothing is installed and nothing is under way.             *)
LEMMA ScheduleInitIInv == ScheduleInit => ScheduleIInv
<1> SUFFICES ASSUME ScheduleInit PROVE ScheduleIInv
  OBVIOUS
<1>1. ScheduleTypes
  BY DEF ScheduleInit, ScheduleTypes, Steps, Pairs, NoUnits, Busy
<1>2. \A d \in Owners : step[d] = "idle" /\ reply[d] = None
  BY DEF ScheduleInit
<1>3. StepsOfOwners
  BY <1>2 DEF StepsOfOwners, Owners, Busy
<1>4. OneAtATime /\ EnabledMatches /\ ArmedIsEnabled
  BY <1>2 DEF ScheduleInit, OneAtATime, EnabledMatches, ArmedIsEnabled, Busy
<1>5. FilesInHand /\ EnableTookEffect
  BY <1>2 DEF FilesInHand, EnableTookEffect, MayWrite, Owners
<1> QED BY <1>1, <1>3, <1>4, <1>5 DEF ScheduleIInv, Separate

(* The units that are on disk after the renames and removals of a step.    *)
LEMMA FilesTypes ==
  ASSUME ScheduleTypes
  PROVE  /\ \A u \in AgreedUnits : Renamed(u) \subseteq Pairs
         /\ Removed \subseteq Pairs
         /\ \A u \in AgreedUnits : [service |-> u, timer |-> u] \in Pairs
BY DEF ScheduleTypes, Renamed, Removed, Pairs, NoUnits

(* Every step keeps the types, and keeps each owner to its own commands.   *)
LEMMA ScheduleTypesStep ==
  ScheduleTypes /\ StepsOfOwners /\ ScheduleNext => ScheduleTypes' /\ StepsOfOwners'
<1> SUFFICES ASSUME ScheduleTypes, StepsOfOwners, ScheduleNext
             PROVE  ScheduleTypes' /\ StepsOfOwners'
  OBVIOUS
<1> USE ScheduleAssumption
<1>1. ASSUME NEW d \in Dialogs, NEW live \in BOOLEAN, NEW consent \in BOOLEAN,
             Click(d, live, consent)
      PROVE  ScheduleTypes' /\ StepsOfOwners'
  <2>1. clicks' \in Nat /\ overlapped' \in BOOLEAN
    BY <1>1 DEF Click, ScheduleTypes
  <2>2. [click |-> clicks', live |-> live, agreed |-> live /\ consent] \in AgreedUnits
    BY <1>1, <2>1 DEF Click, AgreedUnits, Units
  <2>3. ScheduleTypes'
    BY <1>1, <2>1, <2>2 DEF Click, ScheduleTypes, systemdVars, Steps, Busy, Owners
  <2>4. StepsOfOwners'
    BY <1>1, <2>2 DEF Click, ScheduleTypes, StepsOfOwners, Busy, Owners, AgreedUnits, Units
  <2> QED BY <2>3, <2>4
<1>2. CASE DeleteClick
  BY <1>2 DEF DeleteClick, ScheduleTypes, StepsOfOwners, systemdVars, Steps, Busy, Owners
<1>3. CASE Deletion
  BY <1>3, FilesTypes DEF Deletion, DeleteStopped, DeleteCleaned, ScheduleTypes, StepsOfOwners,
       systemdVars, Steps, Busy, Owners
<1>4. ASSUME NEW d \in Dialogs, Coroutine(d)
      PROVE  ScheduleTypes' /\ StepsOfOwners'
  <2>1. CASE Written(d)
    <3>1. asked[d] \in AgreedUnits
      BY <2>1 DEF Written, MayWrite, StepsOfOwners, ScheduleTypes, Busy
    <3>2. disk' \in Pairs
      BY <2>1, <3>1, FilesTypes DEF Written
    <3>3. /\ step' \in [Owners -> Steps]
          /\ \A e \in Owners : e # d => step'[e] = step[e]
          /\ step'[d] \in {"idle", "reloading"}
      BY <2>1 DEF Written, ScheduleTypes, Steps, Busy, Owners
    <3>4. ScheduleTypes'
      BY <2>1, <3>2, <3>3 DEF Written, ScheduleTypes, Owners
    <3>5. StepsOfOwners'
      BY <2>1, <3>1, <3>3 DEF Written, StepsOfOwners, ScheduleTypes, Owners, AgreedUnits, Units
    <3> QED BY <3>4, <3>5
  <2>2. CASE StopRefused(d) \/ Reloaded(d) \/ Enabled(d)
    BY <2>2 DEF StopRefused, Reloaded, Enabled, ScheduleTypes, StepsOfOwners, systemdVars, Steps,
         Busy, Owners
  <2> QED BY <1>4, <2>1, <2>2 DEF Coroutine
<1>5. ASSUME NEW d \in Owners, Systemctl(d)
      PROVE  ScheduleTypes' /\ StepsOfOwners'
  BY <1>5 DEF Systemctl, Effect, Disables, Reloads, Enables, ScheduleTypes, StepsOfOwners, Owners
<1>6. CASE ForeignReload
  BY <1>6 DEF ForeignReload, Reloads, ScheduleTypes, StepsOfOwners
<1>7. CASE Crash
  <2>1. disk' \in Pairs
    BY <1>7, FilesTypes DEF Crash, MayWrite, StepsOfOwners, ScheduleTypes, Busy
  <2> QED BY <1>7, <2>1 DEF Crash, ScheduleTypes, StepsOfOwners, Steps, Busy, Owners
<1> QED BY <1>1, <1>2, <1>3, <1>4, <1>5, <1>6, <1>7 DEF ScheduleNext

(* No step turns an overlap that was into one that was not.                *)
LEMMA OverlapStays == ScheduleTypes /\ ScheduleNext /\ overlapped => overlapped'
BY DEF ScheduleTypes, ScheduleNext, Click, DeleteClick, Deletion, DeleteStopped, DeleteCleaned,
     Coroutine, StopRefused, Written, Reloaded, Enabled, Systemctl, ForeignReload, Crash

(* Every step keeps the one coroutine under way to the order of stopping,  *)
(* writing, reloading and enabling, and systemd to what that order gives.  *)
LEMMA SeparateStep == ScheduleIInv /\ ScheduleNext => Separate'
<1> SUFFICES ASSUME ScheduleIInv, ScheduleNext, ~overlapped'
             PROVE  (OneAtATime /\ EnabledMatches /\ FilesInHand /\ ArmedIsEnabled
                       /\ EnableTookEffect)'
  BY DEF Separate
<1> USE ScheduleAssumption
<1> DEFINE All == OneAtATime /\ EnabledMatches /\ FilesInHand /\ ArmedIsEnabled /\ EnableTookEffect
<1>0. ScheduleTypes /\ StepsOfOwners /\ ScheduleTypes' /\ StepsOfOwners' /\ ~overlapped /\ All
  BY ScheduleTypesStep, OverlapStays DEF ScheduleIInv, Separate
<1>1. ASSUME NEW d \in Dialogs, NEW live \in BOOLEAN, NEW consent \in BOOLEAN,
             Click(d, live, consent)
      PROVE  All'
  <2>1. \A e \in Owners : step[e] \notin Busy
    BY <1>1 DEF Click
  <2>2. \A e \in Owners : e # d => step'[e] = step[e] /\ step'[e] \notin Busy
    BY <1>0, <1>1, <2>1 DEF Click, ScheduleTypes
  <2>3. step'[d] = IF disk.timer = None THEN "writing" ELSE "stopping"
    BY <1>0, <1>1 DEF Click, ScheduleTypes, Owners
  <2>4. UNCHANGED <<disk, loaded, enabled, armed, reply>>
    BY <1>1 DEF Click, systemdVars
  <2>5. OneAtATime'
    BY <2>2, <2>3 DEF OneAtATime
  <2>6. EnabledMatches' /\ ArmedIsEnabled'
    BY <1>0, <2>4 DEF EnabledMatches, ArmedIsEnabled
  <2>7. FilesInHand'
    <3>1. reply[d] = None
      BY <2>1, <1>0 DEF StepsOfOwners, Owners
    <3>2. disk.timer = None => ~enabled
      BY <1>0 DEF EnabledMatches, Matching
    <3>3. \A e \in Dialogs : MayWrite(e)' => ~enabled'
      BY <2>2, <2>3, <2>4, <3>1, <3>2 DEF MayWrite, Owners, Busy
    <3> QED BY <2>2, <2>3, <2>4, <3>3, <1>0 DEF FilesInHand, Owners, Busy, StepsOfOwners
  <2>8. EnableTookEffect'
    BY <2>2, <2>3 DEF EnableTookEffect, Owners, Busy
  <2> QED BY <2>5, <2>6, <2>7, <2>8
<1>2. CASE DeleteClick
  <2>1. \A e \in Owners : step[e] \notin Busy
    BY <1>2, <1>0 DEF DeleteClick, Owners, Busy
  <2>2. \A e \in Dialogs : step'[e] = step[e] /\ step'[e] \notin Busy
    BY <1>0, <1>2, <2>1 DEF DeleteClick, ScheduleTypes, Owners
  <2>3. UNCHANGED <<disk, loaded, enabled, armed, reply>>
    BY <1>2 DEF DeleteClick, systemdVars
  <2>4. reply[Dashboard] = None
    BY <2>1, <1>0 DEF StepsOfOwners, Owners
  <2>5. OneAtATime'
    BY <2>2 DEF OneAtATime, Owners
  <2>6. EnabledMatches' /\ ArmedIsEnabled'
    BY <1>0, <2>3 DEF EnabledMatches, ArmedIsEnabled
  <2>7. FilesInHand' /\ EnableTookEffect'
    BY <2>2, <2>3, <2>4 DEF FilesInHand, EnableTookEffect, MayWrite, Owners, Busy
  <2> QED BY <2>5, <2>6, <2>7
<1>3. CASE DeleteStopped
  <2>1. /\ step[Dashboard] \in Busy
        /\ \A e \in Dialogs : step[e] \notin Busy /\ step'[e] = step[e]
    BY <1>0, <1>3 DEF DeleteStopped, ScheduleTypes, OneAtATime, Owners, Busy
  <2>2. reply'[Dashboard] = None
    BY <1>0, <1>3 DEF DeleteStopped, ScheduleTypes, Owners
  <2>3. OneAtATime'
    BY <2>1 DEF OneAtATime, Owners
  <2>4. UNCHANGED <<loaded, enabled, armed>> /\ (enabled => UNCHANGED disk)
    BY <1>0, <1>3 DEF DeleteStopped, FilesInHand
  <2>5. EnabledMatches' /\ ArmedIsEnabled'
    BY <1>0, <2>4 DEF EnabledMatches, ArmedIsEnabled
  <2>6. FilesInHand' /\ EnableTookEffect'
    BY <2>1, <2>2 DEF FilesInHand, EnableTookEffect, MayWrite, Owners, Busy
  <2> QED BY <2>3, <2>5, <2>6
<1>4. CASE DeleteCleaned
  <2>1. \A e \in Dialogs : step[e] \notin Busy /\ step'[e] = step[e]
    BY <1>0, <1>4 DEF DeleteCleaned, ScheduleTypes, OneAtATime, Owners, Busy
  <2>2. reply'[Dashboard] = None /\ UNCHANGED <<disk, loaded, enabled, armed>>
    BY <1>0, <1>4 DEF DeleteCleaned, ScheduleTypes, Owners, systemdVars
  <2>3. OneAtATime'
    BY <2>1 DEF OneAtATime, Owners
  <2>4. EnabledMatches' /\ ArmedIsEnabled'
    BY <1>0, <2>2 DEF EnabledMatches, ArmedIsEnabled
  <2>5. FilesInHand' /\ EnableTookEffect'
    BY <2>1, <2>2 DEF FilesInHand, EnableTookEffect, MayWrite, Owners, Busy
  <2> QED BY <2>3, <2>4, <2>5
<1>5. ASSUME NEW d \in Dialogs, StopRefused(d) \/ Reloaded(d) \/ Enabled(d)
      PROVE  All'
  <2>1. step[d] \in Busy \ {"writing"}
    BY <1>5 DEF StopRefused, Reloaded, Enabled, Busy
  <2>2. \A e \in Owners : e # d => step'[e] = step[e] /\ step'[e] \notin Busy
    BY <1>0, <1>5, <2>1 DEF StopRefused, Reloaded, Enabled, ScheduleTypes, OneAtATime, Owners
  <2>3. /\ reply'[d] = None
        /\ step'[d] \in {"idle", "scheduled"} \/ (step[d] = "reloading" /\ step'[d] = "enabling")
    <3>1. d \in Owners /\ step \in [Owners -> Steps] /\ reply \in [Owners -> {None, "ok", "err"}]
      BY <1>0 DEF ScheduleTypes, Owners
    <3>2. reply'[d] = None
      BY <1>5, <3>1 DEF StopRefused, Reloaded, Enabled
    <3>3. step'[d] \in {"idle", "scheduled"} \/ (step[d] = "reloading" /\ step'[d] = "enabling")
      <4>1. CASE StopRefused(d)
        BY <4>1, <3>1 DEF StopRefused
      <4>2. CASE Reloaded(d)
        BY <4>2, <3>1 DEF Reloaded
      <4>3. CASE Enabled(d)
        BY <4>3, <3>1 DEF Enabled
      <4> QED BY <1>5, <4>1, <4>2, <4>3
    <3> QED BY <3>2, <3>3
  <2>4. UNCHANGED <<disk, loaded, enabled, armed, asked>>
    BY <1>5 DEF StopRefused, Reloaded, Enabled, systemdVars
  <2>5. OneAtATime'
    BY <2>2 DEF OneAtATime
  <2>6. EnabledMatches' /\ ArmedIsEnabled'
    BY <1>0, <2>4 DEF EnabledMatches, ArmedIsEnabled
  <2>7. FilesInHand'
    BY <1>0, <2>2, <2>3, <2>4 DEF FilesInHand, MayWrite, Owners, Busy, StepsOfOwners
  <2>8. EnableTookEffect'
    BY <2>2, <2>3 DEF EnableTookEffect, Owners, Busy
  <2> QED BY <2>5, <2>6, <2>7, <2>8
<1>6. ASSUME NEW d \in Dialogs, Written(d)
      PROVE  All'
  <2>1. step[d] \in Busy /\ ~enabled /\ ~armed
    BY <1>0, <1>6 DEF Written, MayWrite, FilesInHand, ArmedIsEnabled, Busy
  <2>2. \A e \in Owners : e # d => step'[e] = step[e] /\ step'[e] \notin Busy
    BY <1>0, <1>6, <2>1 DEF Written, ScheduleTypes, OneAtATime, Owners
  <2>3. /\ reply'[d] = None
        /\ \/ step'[d] = "idle"
           \/ step'[d] = "reloading" /\ disk' = [service |-> asked[d], timer |-> asked[d]]
    <3>1. d \in Owners /\ step \in [Owners -> Steps] /\ reply \in [Owners -> {None, "ok", "err"}]
      BY <1>0 DEF ScheduleTypes, Owners
    <3>2. reply'[d] = None
      BY <1>6, <3>1 DEF Written
    <3>3. \/ step' = [step EXCEPT ![d] = "idle"]
          \/ /\ step' = [step EXCEPT ![d] = "reloading"]
             /\ disk' = [service |-> asked[d], timer |-> asked[d]]
      BY <1>6 DEF Written
    <3>4. CASE step' = [step EXCEPT ![d] = "idle"]
      <4>1. step'[d] = "idle"
        BY <3>1, <3>4
      <4> QED BY <4>1, <3>2
    <3>5. CASE /\ step' = [step EXCEPT ![d] = "reloading"]
               /\ disk' = [service |-> asked[d], timer |-> asked[d]]
      <4>1. step'[d] = "reloading"
        BY <3>1, <3>5
      <4> QED BY <4>1, <3>2, <3>5
    <3> QED BY <3>3, <3>4, <3>5
  <2>4. UNCHANGED <<loaded, enabled, armed, asked>>
    BY <1>6 DEF Written
  <2>5. OneAtATime'
    BY <2>2 DEF OneAtATime
  <2>6. EnabledMatches' /\ ArmedIsEnabled'
    BY <1>0, <2>1, <2>4 DEF EnabledMatches, ArmedIsEnabled
  <2>7. FilesInHand'
    BY <1>0, <2>2, <2>3, <2>4 DEF FilesInHand, MayWrite, Owners, Busy, StepsOfOwners
  <2>8. EnableTookEffect'
    BY <2>2, <2>3 DEF EnableTookEffect, Owners, Busy
  <2> QED BY <2>5, <2>6, <2>7, <2>8
<1>7. ASSUME NEW d \in Owners, Systemctl(d)
      PROVE  All'
  <2>1. step[d] \in Busy \ {"writing"} /\ UNCHANGED <<step, asked, disk>>
    BY <1>7 DEF Systemctl
  <2>2. OneAtATime'
    BY <1>0, <2>1 DEF OneAtATime
  <2>3. \A e \in Owners : e # d => step[e] \notin Busy
    BY <1>0, <2>1 DEF OneAtATime
  <2>4. /\ reply' \in [Owners -> {None, "ok", "err"}]
        /\ \/ Effect(step[d])
           \/ UNCHANGED <<loaded, enabled, armed>> /\ reply'[d] = "err"
    BY <1>0, <1>7 DEF Systemctl, ScheduleTypes
  <2>5. step[d] = "enabling" => d \in Dialogs /\ Matching(disk)
    BY <1>0, <2>1 DEF FilesInHand, StepsOfOwners, Owners, Matching, Busy
  <2>6. EnabledMatches' /\ ArmedIsEnabled'
    BY <1>0, <2>1, <2>4, <2>5
       DEF Effect, Disables, Reloads, Enables, EnabledMatches, ArmedIsEnabled, Matching
  <2>7. FilesInHand'
    BY <1>0, <2>1, <2>3, <2>4
       DEF FilesInHand, MayWrite, Owners, Busy, Effect, Disables, Reloads, Enables
  <2>8. EnableTookEffect'
    BY <1>0, <2>1, <2>3, <2>4
       DEF EnableTookEffect, Owners, Busy, Effect, Disables, Reloads, Enables
  <2> QED BY <2>2, <2>6, <2>7, <2>8
<1>8. CASE ForeignReload
  <2>1. loaded' = disk /\ UNCHANGED <<step, asked, reply, disk, enabled, armed>>
    BY <1>8 DEF ForeignReload, Reloads
  <2>2. OneAtATime' /\ EnabledMatches' /\ FilesInHand'
    BY <1>0, <2>1 DEF OneAtATime, EnabledMatches, FilesInHand, MayWrite
  <2>3. ArmedIsEnabled' /\ EnableTookEffect'
    BY <1>0, <2>1 DEF EnabledMatches, ArmedIsEnabled, EnableTookEffect
  <2> QED BY <2>2, <2>3
<1>9. CASE Crash
  <2>1. \A e \in Owners : step'[e] = "idle" /\ reply'[e] = None
    BY <1>9 DEF Crash
  <2>2. enabled' = enabled /\ (enabled => UNCHANGED disk)
    BY <1>0, <1>9 DEF Crash, FilesInHand
  <2>3. OneAtATime' /\ FilesInHand' /\ EnableTookEffect'
    BY <2>1 DEF OneAtATime, FilesInHand, EnableTookEffect, MayWrite, Owners, Busy
  <2>4. EnabledMatches'
    BY <1>0, <2>2 DEF EnabledMatches
  <2>5. ArmedIsEnabled'
    <3>1. CASE UNCHANGED <<loaded, armed>>
      BY <1>0, <2>2, <3>1 DEF ArmedIsEnabled
    <3>2. CASE loaded' = disk' /\ armed' = (enabled /\ disk'.timer # None)
      BY <2>2, <2>4, <3>2 DEF ArmedIsEnabled, EnabledMatches
    <3> QED BY <1>9, <3>1, <3>2 DEF Crash
  <2> QED BY <2>3, <2>4, <2>5
<1> QED
  BY <1>1, <1>2, <1>3, <1>4, <1>5, <1>6, <1>7, <1>8, <1>9
     DEF ScheduleNext, Deletion, Coroutine

(* The browser's steps leave the schedules alone.                          *)
LEMMA ScheduleIInvStutter == ScheduleIInv /\ UNCHANGED scheduleVars => ScheduleIInv'
BY DEF ScheduleIInv, ScheduleTypes, StepsOfOwners, Separate, OneAtATime, EnabledMatches, FilesInHand,
     MayWrite, Matching, ArmedIsEnabled, EnableTookEffect, scheduleVars, systemdVars

(* The schedules' invariant, in every behaviour of the two pages.          *)
THEOREM SchedulesKeepOrder == Spec => []ScheduleIInv
<1>1. Init => ScheduleIInv
  BY ScheduleInitIInv DEF Init
<1>2. ScheduleIInv /\ [Next]_vars => ScheduleIInv'
  BY ScheduleTypesStep, SeparateStep, ScheduleIInvStutter DEF ScheduleIInv, Next, vars
<1> QED BY <1>1, <1>2, PTL DEF Spec

(* A running timer has the service it was installed with                   *)
(* (schedule.rs of the core, 186-280).                                     *)
THEOREM ArmedPairAlwaysMatches == Spec => []ArmedPairMatches
<1>1. ScheduleIInv => ArmedPairMatches
  BY DEF ScheduleIInv, Separate, ArmedIsEnabled, Matching, ArmedPairMatches
<1> QED BY <1>1, SchedulesKeepOrder, PTL

(* What runs unattended for real was agreed to at the click                *)
(* (schedule.rs:122-143).                                                  *)
THEOREM UnattendedWasAgreed == Spec => []LiveWasAgreed
<1>1. ScheduleIInv => LiveWasAgreed
  BY DEF ScheduleIInv, ScheduleTypes, Pairs, AgreedUnits, LiveWasAgreed
<1> QED BY <1>1, SchedulesKeepOrder, PTL

(* A dialog says "scheduled" only of the timer that runs what it asked     *)
(* for (schedule.rs:245-256).                                              *)
THEOREM ScheduledIsAlwaysArmed == Spec => ScheduledIsArmed
<1> DEFINE Scheduled == \A d \in Dialogs :
             (step[d] = "enabling" /\ step'[d] = "scheduled" /\ ~overlapped) =>
                armed /\ loaded = [service |-> asked[d], timer |-> asked[d]]
<1>1. ScheduleIInv /\ ScheduleNext => Scheduled
  <2> SUFFICES ASSUME ScheduleIInv, ScheduleNext, NEW d \in Dialogs,
                      step[d] = "enabling", step'[d] = "scheduled", ~overlapped
               PROVE  armed /\ loaded = [service |-> asked[d], timer |-> asked[d]]
    OBVIOUS
  <2>1. reply[d] = "ok"
    <3>1. /\ step \in [Owners -> Steps] /\ d \in Owners /\ d # Dashboard
          /\ OneAtATime /\ StepsOfOwners
      BY ScheduleAssumption DEF ScheduleIInv, ScheduleTypes, Separate, Owners
    <3>2. \A e \in Owners : e # d => step[e] \notin Busy
      BY <3>1 DEF OneAtATime, Busy
    <3>3. ~(DeleteClick \/ Deletion)
      BY <3>1, <3>2 DEF DeleteClick, Deletion, DeleteStopped, DeleteCleaned
    <3>4. \A e \in Owners, live, consent \in BOOLEAN : ~Click(e, live, consent)
      BY <3>1, <3>2 DEF Click
    <3>5. ~Crash /\ ~ForeignReload /\ \A e \in Owners : ~Systemctl(e)
      BY <3>1 DEF Crash, ForeignReload, Systemctl
    <3>6. PICK e \in Dialogs : Coroutine(e)
      BY <3>3, <3>4, <3>5 DEF ScheduleNext, Owners
    <3>7. e = d
      BY <3>1, <3>2, <3>6 DEF Coroutine, StopRefused, Written, MayWrite, Reloaded, Enabled, Busy, Owners
    <3> QED BY <3>1, <3>6, <3>7 DEF Coroutine, StopRefused, Written, MayWrite, Reloaded, Enabled
  <2> QED BY <2>1 DEF ScheduleIInv, Separate, EnableTookEffect, FilesInHand
<1>2. ScheduleIInv /\ [Next]_vars => [Scheduled]_scheduleVars
  BY <1>1 DEF Next, vars
<1> QED BY <1>2, SchedulesKeepOrder, PTL DEF Spec, ScheduledIsArmed

(* The file of an existing timer is replaced or removed only while the     *)
(* timer is stopped.                                                       *)
THEOREM FilesOnlyChangeUnarmed == Spec => FilesChangeUnarmed
<1> DEFINE Unarmed == (disk' # disk /\ disk.timer # None /\ ~overlapped) => ~armed
<1>1. ScheduleIInv /\ ScheduleNext => Unarmed
  <2> SUFFICES ASSUME ScheduleIInv, ScheduleNext, disk' # disk, ~overlapped
               PROVE  ~armed
    OBVIOUS
  <2>1. ~enabled
    <3>1. CASE DeleteStopped
      BY <3>1 DEF DeleteStopped, ScheduleIInv, Separate, FilesInHand
    <3>2. CASE Crash
      BY <3>2 DEF Crash, ScheduleIInv, Separate, FilesInHand
    <3>3. ASSUME NEW d \in Dialogs, Written(d) PROVE ~enabled
      BY <3>3 DEF Written, ScheduleIInv, Separate, FilesInHand
    <3>4. ~(DeleteClick \/ DeleteCleaned \/ ForeignReload)
      BY DEF DeleteClick, DeleteCleaned, ForeignReload, systemdVars
    <3>5. ~ \E d \in Owners : \/ \E live, consent \in BOOLEAN : Click(d, live, consent)
                             \/ StopRefused(d) \/ Reloaded(d) \/ Enabled(d) \/ Systemctl(d)
      BY DEF Click, StopRefused, Reloaded, Enabled, Systemctl, systemdVars
    <3> QED
      BY <3>1, <3>2, <3>3, <3>4, <3>5 DEF ScheduleNext, Deletion, Coroutine, Owners
  <2> QED BY <2>1 DEF ScheduleIInv, Separate, ArmedIsEnabled
<1>2. ScheduleIInv /\ [Next]_vars => [Unarmed]_scheduleVars
  BY <1>1 DEF Next, vars
<1> QED BY <1>2, SchedulesKeepOrder, PTL DEF Spec, FilesChangeUnarmed

-----------------------------------------------------------------------------
(* The remote browser.                                                     *)

(* A capture in flight: what it was started for and what it has answered.  *)
Calls ==
  [cmd : {"listremotes"}, arg : {Nothing}, out : {Nothing, <<Nothing>>} \cup Seq(Names)]
    \cup [cmd : {"lsjson", "copy"}, arg : Places, out : {Nothing}]
    \cup [cmd : {"delete"}, arg : Names, out : {Nothing, "ok", "failed"}]

Slots == [1 .. MaxCalls -> Calls \cup {Nothing}]

BrowserTypes ==
  /\ config \subseteq Names
  /\ calls \in Slots
  /\ remotes \in Seq(Names) /\ selected \in Nat /\ depth \in Nat
  /\ list \subseteq Places
  /\ dialog \in Names \cup {Nothing}
  /\ download \in [clicked : Places, source : Places] \cup {Nothing}

BrowserIInv == BrowserTypes /\ PickSendsWhatIsNamed

(* A selected remote has a place, another position has none.               *)
LEMMA PlaceTypes ==
  ASSUME NEW rs \in Seq(Names), NEW sel, NEW d \in Nat
  PROVE  /\ Place(rs, sel, d) \in Places \cup {Nothing}
         /\ sel \in DOMAIN rs => Place(rs, sel, d) \in Places
         /\ sel \notin DOMAIN rs => Place(rs, sel, d) = Nothing
BY DEF Place, Places

(* Starting a capture keeps the slots' type.                               *)
LEMMA CaptureTypes ==
  ASSUME NEW cs \in Slots, NEW cmd, NEW arg, [cmd |-> cmd, arg |-> arg, out |-> Nothing] \in Calls
  PROVE  Capture(cs, cmd, arg) \in Slots
BY DEF Capture, Slots

(* reload() names the place it lists, if there is one.                     *)
LEMMA ReloadEffect ==
  ASSUME NEW place \in Places \cup {Nothing}, NEW cs \in Slots, NEW times,
         Reload(place, cs, times), list \subseteq Places
  PROVE  /\ calls' \in Slots /\ list' \subseteq Places
         /\ place \in Places => pathLabel' = place
         /\ place = Nothing => pathLabel' = pathLabel
<1>1. CASE place = Nothing
  BY <1>1, RemoteBrowserAssumption DEF Reload
<1>2. CASE place \in Places
  <2>1. place # Nothing
    BY <1>2, RemoteBrowserAssumption
  <2>2. [cmd |-> "lsjson", arg |-> place, out |-> Nothing] \in Calls
    BY <1>2 DEF Calls
  <2>3. Capture(cs, "lsjson", place) \in Slots
    BY <2>2, CaptureTypes
  <2>4. Capture(Capture(cs, "lsjson", place), "lsjson", place) \in Slots
    BY <2>2, <2>3, CaptureTypes
  <2> QED BY <2>1, <2>3, <2>4 DEF Reload
<1> QED BY <1>1, <1>2

(* At the start the remotes are asked for and no place is named.           *)
LEMMA BrowserInitIInv == BrowserInit => BrowserIInv
<1> SUFFICES ASSUME BrowserInit PROVE BrowserIInv
  OBVIOUS
<1>1. calls \in Slots
  <2>1. [cmd |-> "listremotes", arg |-> Nothing, out |-> Nothing] \in Calls
    BY DEF Calls
  <2>2. [i \in 1 .. MaxCalls |-> Nothing] \in Slots
    BY DEF Slots
  <2> QED BY <2>1, <2>2, CaptureTypes DEF BrowserInit
<1>2. BrowserTypes
  BY <1>1 DEF BrowserInit, BrowserTypes
<1>3. PickSendsWhatIsNamed
  BY DEF BrowserInit, PickSendsWhatIsNamed, CurrentPath, Place
<1> QED BY <1>2, <1>3 DEF BrowserIInv

(* The user's actions keep the browser's invariant.                        *)
LEMMA UserKeepsIInv ==
  ASSUME BrowserIInv,
         \/ \E i \in DOMAIN remotes : SelectRemote(i)
         \/ GoUp \/ Refresh \/ Descend \/ AskDelete \/ AnswerDialog
         \/ \E i \in DOMAIN AllRemotes : RemoteAdded(AllRemotes[i])
         \/ \E place \in list : Download(place)
         \/ ChooseFolder
  PROVE  BrowserIInv'
<1>0. BrowserTypes /\ pathLabel = CurrentPath
  BY DEF BrowserIInv, PickSendsWhatIsNamed
<1> USE RemoteBrowserAssumption
<1>1. ASSUME NEW i \in DOMAIN remotes, SelectRemote(i) PROVE BrowserIInv'
  <2>1. Place(remotes, i, 0) \in Places
    BY <1>0, PlaceTypes DEF BrowserTypes
  <2>2. calls' \in Slots /\ list' \subseteq Places /\ pathLabel' = Place(remotes, i, 0)
    BY <1>0, <1>1, <2>1, ReloadEffect DEF SelectRemote, BrowserTypes
  <2>3. i \in Nat
    BY <1>0 DEF BrowserTypes
  <2>4. BrowserTypes'
    BY <1>0, <1>1, <2>2, <2>3 DEF SelectRemote, BrowserTypes
  <2> QED BY <1>1, <2>2, <2>4 DEF SelectRemote, BrowserIInv, PickSendsWhatIsNamed, CurrentPath
<1>2. ASSUME depth' \in Nat, Reload(Place(remotes, selected, depth'), calls, 1),
             UNCHANGED <<config, remotes, selected, dialog, download>>
      PROVE  BrowserIInv'
  <2>1. Place(remotes, selected, depth') \in Places \cup {Nothing}
    BY <1>0, <1>2, PlaceTypes DEF BrowserTypes
  <2>2. /\ calls' \in Slots /\ list' \subseteq Places
        /\ Place(remotes, selected, depth') \in Places =>
              pathLabel' = Place(remotes, selected, depth')
        /\ Place(remotes, selected, depth') = Nothing => pathLabel' = pathLabel
    BY <1>0, <1>2, <2>1, ReloadEffect DEF BrowserTypes
  <2>3. pathLabel' = Place(remotes, selected, depth')
    <3>1. CASE selected \in DOMAIN remotes
      BY <1>0, <1>2, <2>2, <3>1, PlaceTypes DEF BrowserTypes
    <3>2. CASE selected \notin DOMAIN remotes
      BY <1>0, <2>2, <3>2 DEF CurrentPath, Place
    <3> QED BY <3>1, <3>2
  <2>4. BrowserTypes'
    BY <1>0, <1>2, <2>2 DEF BrowserTypes
  <2> QED BY <1>2, <2>3, <2>4 DEF BrowserIInv, PickSendsWhatIsNamed, CurrentPath
<1>3. CASE GoUp
  <2>1. depth' \in Nat
    BY <1>0, <1>3 DEF GoUp, BrowserTypes
  <2> QED BY <1>2, <1>3, <2>1 DEF GoUp
<1>4. CASE Refresh
  <2>1. depth' \in Nat /\ CurrentPath = Place(remotes, selected, depth')
    BY <1>0, <1>4 DEF Refresh, BrowserTypes, CurrentPath
  <2> QED BY <1>2, <1>4, <2>1 DEF Refresh
<1>5. CASE Descend
  <2>1. depth' \in Nat
    BY <1>0, <1>5 DEF Descend, BrowserTypes
  <2> QED BY <1>2, <1>5, <2>1 DEF Descend
<1>6. ASSUME BrowserTypes', UNCHANGED <<remotes, selected, depth, pathLabel>> PROVE BrowserIInv'
  BY <1>0, <1>6 DEF BrowserIInv, PickSendsWhatIsNamed, CurrentPath
<1>7. CASE AskDelete
  <2>1. dialog' \in Names \cup {Nothing}
    <3>1. CASE CurrentPath = Nothing
      BY <1>0, <1>7, <3>1 DEF AskDelete, BrowserTypes
    <3>2. CASE CurrentPath # Nothing
      <4>1. CurrentPath \in Places
        BY <1>0, <3>2, PlaceTypes DEF BrowserTypes, CurrentPath
      <4> QED BY <1>7, <3>2, <4>1 DEF AskDelete, Places
    <3> QED BY <3>1, <3>2
  <2>2. BrowserTypes'
    BY <1>0, <1>7, <2>1 DEF AskDelete, BrowserTypes
  <2> QED BY <1>6, <1>7, <2>2 DEF AskDelete
<1>8. CASE AnswerDialog
  <2>1. [cmd |-> "delete", arg |-> dialog, out |-> Nothing] \in Calls
    BY <1>0, <1>8 DEF AnswerDialog, BrowserTypes, Calls
  <2>2. Capture(calls, "delete", dialog) \in Slots
    BY <1>0, <2>1, CaptureTypes DEF BrowserTypes
  <2>3. BrowserTypes'
    BY <1>0, <1>8, <2>2 DEF AnswerDialog, BrowserTypes
  <2> QED BY <1>6, <1>8, <2>3 DEF AnswerDialog
<1>9. ASSUME NEW r \in Names, RemoteAdded(r) PROVE BrowserIInv'
  <2>1. [cmd |-> "listremotes", arg |-> Nothing, out |-> Nothing] \in Calls
    BY DEF Calls
  <2>2. Capture(calls, "listremotes", Nothing) \in Slots
    BY <1>0, <2>1, CaptureTypes DEF BrowserTypes
  <2>3. BrowserTypes'
    BY <1>0, <1>9, <2>2 DEF RemoteAdded, LoadRemotes, BrowserTypes
  <2> QED BY <1>6, <1>9, <2>3 DEF RemoteAdded
<1>10. ASSUME NEW place \in list, Download(place) PROVE BrowserIInv'
  <2>1. CurrentPath \in Places
    BY <1>0, <1>10, PlaceTypes DEF Download, BrowserTypes, CurrentPath
  <2>2. BrowserTypes'
    BY <1>0, <1>10, <2>1 DEF Download, BrowserTypes
  <2> QED BY <1>6, <1>10, <2>2 DEF Download
<1>11. CASE ChooseFolder
  <2>1. download.source \in Places
    BY <1>0, <1>11 DEF ChooseFolder, BrowserTypes
  <2>2. [cmd |-> "copy", arg |-> download.source, out |-> Nothing] \in Calls
    BY <2>1 DEF Calls
  <2>3. Capture(calls, "copy", download.source) \in Slots
    BY <1>0, <2>2, CaptureTypes DEF BrowserTypes
  <2>4. BrowserTypes'
    BY <1>0, <1>11, <2>3 DEF ChooseFolder, BrowserTypes
  <2> QED BY <1>6, <1>11, <2>4 DEF ChooseFolder
<1> QED
  BY <1>1, <1>3, <1>4, <1>5, <1>7, <1>8, <1>9, <1>10, <1>11 DEF Names

(* What rclone answers to a capture is of its kind.                        *)
LEMMA RunsKeepsIInv ==
  ASSUME BrowserIInv, NEW i \in 1 .. MaxCalls, Runs(i)
  PROVE  BrowserIInv'
<1>0. BrowserTypes /\ pathLabel = CurrentPath
  BY DEF BrowserIInv, PickSendsWhatIsNamed
<1>1. calls[i] \in Calls /\ calls \in Slots
  BY <1>0 DEF Runs, BrowserTypes, Slots
<1>2. calls' \in Slots /\ config' \subseteq Names
  <2>1. CASE /\ calls[i].cmd = "listremotes"
             /\ \E out \in {Kept(AllRemotes, config), <<Nothing>>} :
                   calls' = [calls EXCEPT ![i].out = out]
             /\ UNCHANGED config
    <3>1. PICK out \in {Kept(AllRemotes, config), <<Nothing>>} :
            calls' = [calls EXCEPT ![i].out = out]
      BY <2>1
    <3>2. out \in {<<Nothing>>} \cup Seq(Names)
      <4>1. Kept(AllRemotes, config) \in Seq(Names \cap config)
        BY KeptType, RemoteBrowserAssumption
      <4>2. Names \cap config = config
        BY <1>0 DEF BrowserTypes
      <4>3. Kept(AllRemotes, config) \in Seq(Names)
        BY <4>1, <4>2, <1>0 DEF BrowserTypes
      <4> QED BY <3>1, <4>3
    <3>3. calls[i] \in [cmd : {"listremotes"}, arg : {Nothing}, out : {Nothing, <<Nothing>>} \cup Seq(Names)]
      BY <1>1, <2>1 DEF Calls
    <3>4. [calls[i] EXCEPT !.out = out] \in Calls
      BY <3>2, <3>3 DEF Calls
    <3>5. calls' = [calls EXCEPT ![i] = [calls[i] EXCEPT !.out = out]]
      BY <3>1
    <3> QED BY <1>0, <1>1, <2>1, <3>4, <3>5 DEF Slots, BrowserTypes
  <2>2. CASE /\ calls[i].cmd = "delete"
             /\ \E out \in {"ok", "failed"} :
                   /\ calls' = [calls EXCEPT ![i].out = out]
                   /\ config' = IF out = "ok" THEN config \ {calls[i].arg} ELSE config
    <3>1. PICK out \in {"ok", "failed"} :
            /\ calls' = [calls EXCEPT ![i].out = out]
            /\ config' = IF out = "ok" THEN config \ {calls[i].arg} ELSE config
      BY <2>2
    <3>2. calls[i] \in [cmd : {"delete"}, arg : Names, out : {Nothing, "ok", "failed"}]
      BY <1>1, <2>2 DEF Calls
    <3>3. [calls[i] EXCEPT !.out = out] \in Calls
      BY <3>2 DEF Calls
    <3>4. calls' = [calls EXCEPT ![i] = [calls[i] EXCEPT !.out = out]]
      BY <3>1
    <3> QED BY <1>0, <1>1, <3>1, <3>3, <3>4 DEF Slots, BrowserTypes
  <2> QED BY <2>1, <2>2 DEF Runs
<1>3. BrowserTypes'
  BY <1>0, <1>2 DEF Runs, BrowserTypes
<1> QED BY <1>0, <1>3 DEF Runs, BrowserIInv, PickSendsWhatIsNamed, CurrentPath

(* The coroutines that wait for an answer name the place they list.        *)
LEMMA AnsweredKeepsIInv ==
  ASSUME BrowserIInv, NEW i \in 1 .. MaxCalls, Answered(i)
  PROVE  BrowserIInv'
<1>0. BrowserTypes /\ pathLabel = CurrentPath
  BY DEF BrowserIInv, PickSendsWhatIsNamed
<1> USE RemoteBrowserAssumption
<1>1. calls[i] \in Calls /\ calls \in Slots
  BY <1>0 DEF Answered, AnsweredRemotes, AnsweredFolder, AnsweredDelete, AnsweredCopy, HasAnswer,
       BrowserTypes, Slots
<1>2. Rest(i) \in Slots
  BY <1>1 DEF Rest, Slots
<1>3. ASSUME BrowserTypes', UNCHANGED <<remotes, selected, depth, pathLabel>> PROVE BrowserIInv'
  BY <1>0, <1>3 DEF BrowserIInv, PickSendsWhatIsNamed, CurrentPath
<1>4. CASE AnsweredFolder(i)
  <2>1. calls[i].arg \in Places
    BY <1>1, <1>4 DEF AnsweredFolder, HasAnswer, Calls
  <2>2. BrowserTypes'
    BY <1>0, <1>2, <1>4, <2>1 DEF AnsweredFolder, BrowserTypes
  <2> QED BY <1>3, <1>4, <2>2 DEF AnsweredFolder
<1>5. CASE AnsweredDelete(i)
  <2>1. [cmd |-> "listremotes", arg |-> Nothing, out |-> Nothing] \in Calls
    BY DEF Calls
  <2>2. calls' \in Slots
    BY <1>2, <1>5, <2>1, CaptureTypes DEF AnsweredDelete, LoadRemotes
  <2>3. BrowserTypes'
    BY <1>0, <1>5, <2>2 DEF AnsweredDelete, BrowserTypes
  <2> QED BY <1>3, <1>5, <2>3 DEF AnsweredDelete
<1>6. CASE AnsweredCopy(i)
  <2>1. BrowserTypes'
    BY <1>0, <1>2, <1>6 DEF AnsweredCopy, BrowserTypes
  <2> QED BY <1>3, <1>6, <2>1 DEF AnsweredCopy
<1>7. CASE AnsweredRemotes(i)
  <2>0. UNCHANGED <<config, dialog, download>>
    BY <1>7 DEF AnsweredRemotes
  <2>1. CASE status' = "message" /\ calls' = Rest(i) /\ UNCHANGED <<remotes, selected, depth, pathLabel, list>>
    <3>1. BrowserTypes'
      BY <1>0, <1>2, <2>0, <2>1 DEF BrowserTypes
    <3> QED BY <1>3, <2>1, <3>1
  <2>2. CASE /\ remotes' = <<>> /\ selected' = 0
             /\ depth' = IF selected = 0 THEN depth ELSE 0
             /\ list' = {} /\ pathLabel' = Nothing
             /\ calls' = Rest(i)
    <3>1. BrowserTypes'
      BY <1>0, <1>2, <2>0, <2>2 DEF BrowserTypes
    <3>2. PickSendsWhatIsNamed'
      BY <2>2 DEF PickSendsWhatIsNamed, CurrentPath, Place
    <3> QED BY <3>1, <3>2 DEF BrowserIInv
  <2>3. CASE /\ calls[i].out \notin {<<Nothing>>, <<>>}
             /\ remotes' = calls[i].out /\ selected' = 1 /\ depth' = 0
             /\ \/ Reload(Place(remotes', 1, 0), Rest(i), 2)
                \/ selected = 1 /\ Reload(Place(remotes', 1, 0), Rest(i), 1)
    <3>1. calls[i].out \in Seq(Names) /\ calls[i].out # <<>>
      BY <1>1, <1>7, <2>3 DEF AnsweredRemotes, HasAnswer, Calls
    <3>2. remotes' \in Seq(Names) /\ 1 \in DOMAIN remotes'
      BY <2>3, <3>1
    <3>3. Place(remotes', 1, 0) \in Places
      BY <3>2, PlaceTypes
    <3>4. calls' \in Slots /\ list' \subseteq Places /\ pathLabel' = Place(remotes', 1, 0)
      BY <1>0, <1>2, <2>3, <3>3, ReloadEffect DEF BrowserTypes
    <3>5. BrowserTypes'
      BY <1>0, <2>0, <2>3, <3>2, <3>4 DEF BrowserTypes
    <3> QED BY <2>3, <3>4, <3>5 DEF BrowserIInv, PickSendsWhatIsNamed, CurrentPath
  <2> QED BY <1>7, <2>1, <2>2, <2>3 DEF AnsweredRemotes
<1> QED BY <1>4, <1>5, <1>6, <1>7 DEF Answered

(* The browser's invariant, in every behaviour of the two pages.           *)
LEMMA BrowserKeepsIInv == Spec => []BrowserIInv
<1>1. Init => BrowserIInv
  BY BrowserInitIInv DEF Init
<1>2. BrowserIInv /\ BrowserNext => BrowserIInv'
  BY UserKeepsIInv, RunsKeepsIInv, AnsweredKeepsIInv DEF BrowserNext
<1>3. BrowserIInv /\ UNCHANGED browserVars => BrowserIInv'
  BY DEF BrowserIInv, BrowserTypes, PickSendsWhatIsNamed, CurrentPath, browserVars
<1>4. BrowserIInv /\ [Next]_vars => BrowserIInv'
  BY <1>2, <1>3 DEF Next, vars
<1> QED BY <1>1, <1>4, PTL DEF Spec

(* "Use as Source" and "Use as Destination" send the place that is named,  *)
(* whatever the order of the answers (remote_browser.rs:192-201, 247-302). *)
THEOREM PickIsWhatIsNamed == Spec => []PickSendsWhatIsNamed
<1>1. BrowserIInv => PickSendsWhatIsNamed
  BY DEF BrowserIInv
<1> QED BY <1>1, BrowserKeepsIInv, PTL
=============================================================================
