-------------------------------- MODULE Parts --------------------------------
(***************************************************************************)
(* The parts of the program that need no more than themselves to go wrong: *)
(* the queue with its client, the New Job form, the mounts page, the log   *)
(* of a run, and the start of the program.  The model keeps no state that  *)
(* two of them share, so every step of one commutes with every step of     *)
(* another, and a behaviour is one of a single part, chosen at the start.  *)
(***************************************************************************)
EXTENDS JobScheduler, JobForm, Mounts, RunLog, Startup

CONSTANT Shown   \* the parts a run of the model checker looks at

ASSUME PartsAssumption == Shown \subseteq {"scheduler", "form", "mounts", "log", "startup"}

VARIABLE part

partsVars == <<part, vars, formVars, mountVars, logVars, startupVars>>

(* The parts that are not looked at rest in one of their initial states.   *)
PartsInit ==
  /\ part \in Shown
  /\ Init /\ FormInit /\ MountsInit /\ LogInit /\ StartupInit
  /\ part # "scheduler" => queue = NewQueue(1)
  /\ part # "form" => form = Prefill(TRUE)
  /\ part # "log" => log["old"] = CHOOSE old \in OldLogs : TRUE
  /\ part # "startup" => version = 0

PartsNext ==
  /\ UNCHANGED part
  /\ \/ /\ part = "scheduler" /\ Next
        /\ UNCHANGED <<formVars, mountVars, logVars, startupVars>>
     \/ /\ part = "form" /\ FormNext
        /\ UNCHANGED <<vars, mountVars, logVars, startupVars>>
     \/ /\ part = "mounts" /\ MountsNext
        /\ UNCHANGED <<vars, formVars, logVars, startupVars>>
     \/ /\ part = "log" /\ LogNext
        /\ UNCHANGED <<vars, formVars, mountVars, startupVars>>
     \/ /\ part = "startup" /\ StartupNext
        /\ UNCHANGED <<vars, formVars, mountVars, logVars>>

(* The watcher of a mount is a task of the main loop, which polls it when  *)
(* the run's channel has an event for it.                                  *)
PartsSpec ==
  /\ PartsInit /\ [][PartsNext]_partsVars
  /\ \A i \in Mounts : WF_mountVars(part = "mounts" /\ FinishedHeard(i))
=============================================================================
