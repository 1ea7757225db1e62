---------------------------- MODULE ProcessGroup ----------------------------
(***************************************************************************)
(* The child of one run and what the operating system makes of it.  The    *)
(* child leads a process group of its own (harden_command); it may start   *)
(* one helper (ssh under rsync, a plugin), which inherits both pipes and   *)
(* may outlive it.  The program sees the group only through its pipes, its *)
(* exit status and the signals it sends, so most of this is external.      *)
(***************************************************************************)
EXTENDS Naturals, Sequences

CONSTANTS
  PipeCapacity,   \* bound: lines a pipe holds unread
  MaxLines        \* bound: numbered lines the group writes in all

ASSUME GroupAssumption == PipeCapacity \in Nat \ {0} /\ MaxLines \in Nat

Streams == {"stdout", "stderr"}

VARIABLES
  leader,   \* "unborn", "live", "asked" (sent SIGTERM), "dead"
  status,   \* the leader's exit status: "none", "ok" or "bad"
  helper,   \* "none", "live" or "dead"
  pipe,     \* unread lines of each stream; 0 is a progress line
  wrote     \* how many numbered lines each stream carried so far

groupVars == <<leader, status, helper, pipe, wrote>>

GroupInit ==
  /\ leader = "unborn" /\ status = "none" /\ helper = "none"
  /\ pipe = [s \in Streams |-> <<>>]
  /\ wrote = [s \in Streams |-> 0]

LeaderRuns == leader \in {"live", "asked"}

(* A pipe reads as ended once nobody is left to hold its other end.        *)
GroupAlive == LeaderRuns \/ helper = "live"

Birth == leader' = "live" /\ UNCHANGED <<status, helper, pipe, wrote>>

(* SIGTERM to the group: the leader may clean up, ignore it or die of it;  *)
(* the helper likewise.                                                    *)
Sigterm ==
  /\ leader' = IF leader = "live" THEN "asked" ELSE leader
  /\ helper' \in IF helper = "live" THEN {"live", "dead"} ELSE {helper}
  /\ UNCHANGED <<status, pipe, wrote>>

(* SIGKILL to the group: nobody survives.                                  *)
Sigkill ==
  /\ leader' = IF LeaderRuns THEN "dead" ELSE leader
  /\ status' = IF LeaderRuns THEN "bad" ELSE status
  /\ helper' = IF helper = "live" THEN "dead" ELSE helper
  /\ UNCHANGED <<pipe, wrote>>

-----------------------------------------------------------------------------
WriteLine(s) ==
  /\ GroupAlive
  /\ Len(pipe[s]) < PipeCapacity
  /\ wrote["stdout"] + wrote["stderr"] < MaxLines
  /\ wrote' = [wrote EXCEPT ![s] = @ + 1]
  /\ pipe' = [pipe EXCEPT ![s] = Append(@, wrote'[s])]
  /\ UNCHANGED <<leader, status, helper>>

WriteProgress(s) ==
  /\ GroupAlive
  /\ Len(pipe[s]) < PipeCapacity
  /\ pipe' = [pipe EXCEPT ![s] = Append(@, 0)]
  /\ UNCHANGED <<leader, status, helper, wrote>>

Fork ==
  /\ leader = "live" /\ helper = "none"
  /\ helper' = "live"
  /\ UNCHANGED <<leader, status, pipe, wrote>>

LeaderExits ==
  /\ LeaderRuns
  /\ leader' = "dead"
  /\ status' \in {"ok", "bad"}
  /\ UNCHANGED <<helper, pipe, wrote>>

HelperExits ==
  /\ helper = "live"
  /\ helper' = "dead"
  /\ UNCHANGED <<leader, status, pipe, wrote>>

GroupNext ==
  \/ \E s \in Streams : WriteLine(s) \/ WriteProgress(s)
  \/ Fork \/ LeaderExits \/ HelperExits
=============================================================================
