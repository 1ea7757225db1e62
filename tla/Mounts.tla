-------------------------------- MODULE Mounts --------------------------------
(***************************************************************************)
(* The mounts page (cascade-gui/src/views/mounts.rs, rclone/mount.rs): one *)
(* streamed `rclone mount` per row, a timer that takes a process still     *)
(* there after 1.5 s for a mount, and `fusermount -u` captures to end one. *)
(* What rclone and fusermount do to the kernel's table of mounts is        *)
(* outside the repository: rclone refuses a place where something is       *)
(* mounted already, when it looks, and fusermount takes off the topmost.   *)
(***************************************************************************)
EXTENDS JobSafety, FiniteSets

CONSTANTS
  MaxMounts,   \* bound: the mounts asked for
  MountPoints, \* the folders the user chooses from, as local endpoints
  MountLinks,  \* the symbolic links among them
  MaxUnmounts  \* bound: fusermount captures in flight

ASSUME MountsAssumption ==
  /\ MaxMounts \in Nat
  /\ MaxUnmounts \in Nat \ {0}

VARIABLES
  remotesKnown, \* the combo row has a remote
  nextId,       \* next_id
  place,        \* the place each mount was asked for, links resolved
  mountProcess, \* "none", "born", "checked", "serving", "ok" or "bad" by id
  mounted,      \* what lies on each place, the topmost last
  heard,        \* `exited`: Finished was handled
  row,          \* the row's subtitle, "absent" without a row
  timer,        \* "off", "set" or "done" by id
  unmounts      \* fusermount captures: the row, the place, the answer

mountVars ==
  <<remotesKnown, nextId, place, mountProcess, mounted, heard, row, timer, unmounts>>

Mounts == 1 .. MaxMounts

Places == {Resolve(MountLinks, m.path) : m \in MountPoints}

Running(i) == mountProcess[i] \in {"born", "checked", "serving"}

(* The list behind the combo row is filled by one capture at the start.    *)
RemotesListed ==
  /\ ~remotesKnown
  /\ remotesKnown' = TRUE
  /\ UNCHANGED <<nextId, place, mountProcess, mounted, heard, row, timer, unmounts>>

(* mount_args: the path checks of a job, and no system directory.          *)
MountPointRefused(m) ==
  \/ EndpointRefused("rclone", MountLinks, m)
  \/ EndpointWarnings("rclone", MountLinks, m) # {}

(* do_mount: the row is there at once; the unmount button and fusermount   *)
(* use the resolved spelling.                                              *)
DoMount(m) ==
  /\ remotesKnown /\ ~MountPointRefused(m)
  /\ nextId \in Mounts
  /\ nextId' = nextId + 1
  /\ place' = [place EXCEPT ![nextId] = Resolve(MountLinks, m.path)]
  /\ mountProcess' = [mountProcess EXCEPT ![nextId] = "born"]
  /\ row' = [row EXCEPT ![nextId] = "mounting"]
  /\ timer' = [timer EXCEPT ![nextId] = "set"]
  /\ UNCHANGED <<remotesKnown, mounted, heard, unmounts>>

(* The 1.5 s are over; nothing is asked of the kernel.                     *)
TimerFires(i) ==
  /\ timer[i] = "set"
  /\ timer' = [timer EXCEPT ![i] = "done"]
  /\ row' = IF heard[i] THEN row ELSE [row EXCEPT ![i] = "mounted"]
  /\ UNCHANGED <<remotesKnown, nextId, place, mountProcess, mounted, heard, unmounts>>

(* Slip: only a clean end takes the row away.                              *)
RowAfterFinishedIfClean(i) ==
  IF mountProcess[i] = "ok" THEN [row EXCEPT ![i] = "absent"] ELSE [row EXCEPT ![i] = "failed"]

(* The subtitle of a failure is replaced by the removal in the same step.  *)
RowAfterFinished(i) == [row EXCEPT ![i] = "absent"]

(* The watcher hears Finished, the last event; remove_mount's cancel finds *)
(* nobody.                                                                 *)
FinishedHeard(i) ==
  /\ mountProcess[i] \in {"ok", "bad"} /\ ~heard[i]
  /\ heard' = [heard EXCEPT ![i] = TRUE]
  /\ row' = RowAfterFinished(i)
  /\ UNCHANGED <<remotesKnown, nextId, place, mountProcess, mounted, timer, unmounts>>

Unmount(i) ==
  /\ row[i] # "absent"
  /\ Len(unmounts) < MaxUnmounts
  /\ row' = [row EXCEPT ![i] = "unmounting"]
  /\ unmounts' = Append(unmounts, [id |-> i, at |-> place[i], answer |-> "none"])
  /\ UNCHANGED <<remotesKnown, nextId, place, mountProcess, mounted, heard, timer>>

(* Slip: the answer of fusermount takes the row away.                      *)
RowAfterUnmountAtOnce(u) ==
  IF u.answer = "ok" THEN [row EXCEPT ![u.id] = "absent"]
  ELSE IF row[u.id] = "absent" THEN row ELSE [row EXCEPT ![u.id] = "unmount failed"]

RowAfterUnmount(u) ==
  IF u.answer = "ok" \/ row[u.id] = "absent" THEN row
  ELSE [row EXCEPT ![u.id] = "unmount failed"]

UnmountAnswered(k) ==
  /\ k \in DOMAIN unmounts /\ unmounts[k].answer # "none"
  /\ row' = RowAfterUnmount(unmounts[k])
  /\ unmounts' = RemoveAt(unmounts, k)
  /\ UNCHANGED <<remotesKnown, nextId, place, mountProcess, mounted, heard, timer>>

-----------------------------------------------------------------------------
(* Outside: the processes and the kernel.                                  *)

Looks(i) ==
  /\ mountProcess[i] = "born"
  /\ mountProcess' = [mountProcess EXCEPT ![i] = IF mounted[place[i]] = << >> THEN "checked" ELSE "bad"]
  /\ UNCHANGED <<remotesKnown, nextId, place, mounted, heard, row, timer, unmounts>>

Serves(i) ==
  /\ mountProcess[i] = "checked"
  /\ mountProcess' = [mountProcess EXCEPT ![i] = "serving"]
  /\ mounted' = [mounted EXCEPT ![place[i]] = Append(@, i)]
  /\ UNCHANGED <<remotesKnown, nextId, place, heard, row, timer, unmounts>>

(* Also a program that cannot be started; a mount outlives its process.    *)
Dies(i) ==
  /\ Running(i)
  /\ mountProcess' = [mountProcess EXCEPT ![i] = "bad"]
  /\ UNCHANGED <<remotesKnown, nextId, place, mounted, heard, row, timer, unmounts>>

Fusermount(k) ==
  /\ k \in DOMAIN unmounts /\ unmounts[k].answer = "none"
  /\ LET at == unmounts[k].at
     IN  \/ /\ mounted[at] # << >>
            /\ mounted' = [mounted EXCEPT ![at] = Front(@)]
            /\ mountProcess' = [mountProcess EXCEPT ![Last(mounted[at])] =
                                  IF @ = "serving" THEN "ok" ELSE @]
            /\ unmounts' = [unmounts EXCEPT ![k].answer = "ok"]
         \/ /\ unmounts' = [unmounts EXCEPT ![k].answer = "failed"]
            /\ UNCHANGED <<mounted, mountProcess>>
  /\ UNCHANGED <<remotesKnown, nextId, place, heard, row, timer>>

-----------------------------------------------------------------------------
MountsInit ==
  /\ remotesKnown = FALSE /\ nextId = 1
  /\ place = [i \in Mounts |-> << >>]
  /\ mountProcess = [i \in Mounts |-> "none"]
  /\ mounted = [p \in Places |-> << >>]
  /\ heard = [i \in Mounts |-> FALSE]
  /\ row = [i \in Mounts |-> "absent"]
  /\ timer = [i \in Mounts |-> "off"]
  /\ unmounts = << >>

MountsNext ==
  \/ RemotesListed
  \/ \E m \in MountPoints : DoMount(m)
  \/ \E i \in Mounts : TimerFires(i) \/ FinishedHeard(i) \/ Unmount(i) \/ Looks(i) \/ Serves(i) \/ Dies(i)
  \/ \E k \in 1 .. MaxUnmounts : UnmountAnswered(k) \/ Fusermount(k)

MountsSpec == MountsInit /\ [][MountsNext]_mountVars

(* A mount that runs has a row with an Unmount button: the answer of       *)
(* fusermount may be about another mount on the same place, and the timer  *)
(* may speak after it (mounts.rs:278-287, 290-331).                        *)
RunningHasRow == \A i \in Mounts : Running(i) => row[i] # "absent"

(* However a mount ends, and whatever the timer and the unmounts in flight *)
(* write meanwhile, its row goes and stays away (mounts.rs:290-311).       *)
MountRowEnds ==
  \A i \in Mounts : mountProcess[i] \in {"ok", "bad"} ~> [](row[i] = "absent")
=============================================================================
