----------------------------- MODULE LauncherDrive -----------------------------
(***************************************************************************)
(* scripts/launcher/drive.py and bench.py: a launcher is started, instance *)
(* after instance is created, timed until it is healthy and deleted, the   *)
(* launcher stopped. The launcher is launcher.py, or launcher_coldimport.py*)
(* whose instances import vLLM themselves; here it is one that may die,    *)
(* answer late or leave a log behind. Every wait is limited, if no answer  *)
(* is drawn out byte by byte.                                              *)
(***************************************************************************)
EXTENDS Integers, Sequences

CONSTANT Launches    \* --launches
ASSUME LaunchesAssumption == Launches \in Nat

VARIABLES
  cold,      \* --module launcher_coldimport.py
  place,     \* where main() and run_once() are
  launch,    \* the launch
  launcher,  \* "off", "booting", "up", "asked" to stop, "exited" or "dead"
  inst,      \* per launch, its instance
  logs,      \* the log files, <<whose launcher, launch>>
  launches,  \* out["launches"]
  undeleted, \* the launches whose DELETE was not answered
  ending     \* "open" while it runs; then "printed", "error" or "raised"

driveVars == <<cold, place, launch, launcher, inst, logs, launches, undeleted, ending>>

Launched == 1 .. Launches
Living(j) == inst[j] \in {"forked", "imported", "serving"}

DriveStart(first) ==
  /\ place = first /\ launch = 1 /\ launcher = "off" /\ inst = [j \in Launched |-> "none"]
  /\ launches = <<>> /\ undeleted = {} /\ ending = "open"
DriveInit ==
  /\ cold \in BOOLEAN
  /\ logs \in SUBSET {<<"earlier", j>> : j \in Launched}
  /\ DriveStart("start")
DriveIdle == cold = FALSE /\ logs = {} /\ DriveStart("idle")

-----------------------------------------------------------------------------
\* The launcher and its instances.
LauncherComesUp ==
  /\ launcher = "booting" /\ launcher' = "up"
  /\ UNCHANGED <<cold, place, launch, inst, logs, launches, undeleted, ending>>
LauncherDies ==
  /\ launcher \in {"booting", "up", "asked"} /\ launcher' = "dead"
  /\ UNCHANGED <<cold, place, launch, inst, logs, launches, undeleted, ending>>
\* On the way out it stops its instances and removes their logs.
LauncherExits ==
  /\ launcher = "asked" /\ launcher' = "exited"
  /\ inst' = [j \in Launched |-> IF Living(j) THEN "gone" ELSE inst[j]]
  /\ logs' = {f \in logs : f[1] = "earlier"}
  /\ UNCHANGED <<cold, place, launch, launches, undeleted, ending>>

\* vllm_kickoff() of the cold-import variant: the import is in the child.
InstanceImports(j) ==
  /\ inst[j] = "forked" /\ inst' = [inst EXCEPT ![j] = "imported"]
  /\ UNCHANGED <<cold, place, launch, launcher, logs, launches, undeleted, ending>>
InstanceServes(j) ==
  /\ inst[j] = "imported" /\ inst' = [inst EXCEPT ![j] = "serving"]
  /\ UNCHANGED <<cold, place, launch, launcher, logs, launches, undeleted, ending>>
InstanceDies(j) ==
  /\ Living(j) /\ inst' = [inst EXCEPT ![j] = "gone"]
  /\ UNCHANGED <<cold, place, launch, launcher, logs, launches, undeleted, ending>>

-----------------------------------------------------------------------------
StartLauncher ==
  /\ place = "start" /\ place' = "health" /\ launcher' = "booting"
  /\ UNCHANGED <<cold, launch, inst, logs, launches, undeleted, ending>>

\* launcher_healthy(), for 300 s; if not, what there is is printed.
Healthy ==
  /\ place = "health" /\ launcher = "up"
  /\ place' = IF Launches = 0 THEN "stop" ELSE "create"
  /\ UNCHANGED <<cold, launch, launcher, inst, logs, launches, undeleted, ending>>
NotHealthy ==
  /\ place = "health" /\ place' = "stop" /\ ending' = "error"
  /\ UNCHANGED <<cold, launch, launcher, inst, logs, launches, undeleted>>

\* run_once(): PUT. An error of any kind, also an answer that comes too late, is
\* an exception that nobody catches.
Forks == /\ inst' = [inst EXCEPT ![launch] = IF cold THEN "forked" ELSE "imported"]
         /\ logs' = logs \cup {<<"this", launch>>}
Create ==
  /\ place = "create" /\ launcher = "up" /\ Forks /\ place' = "poll"
  /\ UNCHANGED <<cold, launch, launcher, launches, undeleted, ending>>
CreateRaises ==
  /\ place = "create" /\ place' = "stop" /\ ending' = "raised"
  /\ \/ UNCHANGED <<inst, logs>>
     \/ launcher = "up" /\ Forks
  /\ UNCHANGED <<cold, launch, launcher, launches, undeleted>>

\* poll_ready(), then the first of the log files that the instance's name
\* matches, of whichever launcher; a copy is kept elsewhere.
AwaitInstance ==
  /\ place = "poll" /\ place' = "delete"
  /\ \E ready \in BOOLEAN, log \in {f \in logs : f[2] = launch} \cup {<<"none", launch>>} :
       /\ ready => inst[launch] = "serving"
       /\ log[1] = "none" => \A f \in logs : f[2] # launch
       /\ launches' = Append(launches, [ready |-> ready, log |-> log[1]])
  /\ UNCHANGED <<cold, launch, launcher, inst, logs, undeleted, ending>>

\* delete_instance(): an error is only a return value, and that is dropped.
Delete ==
  /\ place = "delete"
  /\ \/ /\ launcher = "up"
        /\ inst' = [inst EXCEPT ![launch] = "gone"] /\ logs' = logs \ {<<"this", launch>>}
        /\ undeleted' \in {undeleted, undeleted \cup {launch}}
     \/ undeleted' = undeleted \cup {launch} /\ UNCHANGED <<inst, logs>>
  /\ place' = IF launch = Launches THEN "stop" ELSE "create"
  /\ launch' = IF launch = Launches THEN launch ELSE launch + 1
  /\ UNCHANGED <<cold, launcher, launches, ending>>

\* finally: TERM, 30 s, KILL; what was printed before, or is now.
Stop ==
  /\ place = "stop" /\ place' = "wait"
  /\ launcher' = IF launcher \in {"booting", "up"} THEN "asked" ELSE launcher
  /\ UNCHANGED <<cold, launch, inst, logs, launches, undeleted, ending>>
Waited ==
  /\ place = "wait" /\ place' = "exit"
  /\ launcher' = IF launcher = "asked" THEN "dead" ELSE launcher
  /\ ending' = IF ending = "open" THEN "printed" ELSE ending
  /\ UNCHANGED <<cold, launch, inst, logs, launches, undeleted>>

DriveSteps ==
  \/ StartLauncher \/ Healthy \/ NotHealthy \/ Create \/ CreateRaises \/ AwaitInstance \/ Delete
  \/ Stop \/ Waited
DriveNext ==
  \/ DriveSteps \/ LauncherComesUp \/ LauncherDies \/ LauncherExits
  \/ \E j \in Launched : InstanceImports(j) \/ InstanceServes(j) \/ InstanceDies(j)
DriveFairness == WF_driveVars(DriveSteps)

-----------------------------------------------------------------------------
(***************************************************************************)
(* What drive.py prints is of launches that did not disturb each other: a  *)
(* launch is made while an earlier instance lives only if its DELETE was   *)
(* not answered; a result that is printed as a success has every launch;   *)
(* and an instance outlives the script only if the launcher did not exit   *)
(* itself.                                                                 *)
(***************************************************************************)
LaunchesAreApart ==
  /\ \A j, k \in Launched : j < k /\ Living(j) /\ inst[k] # "none" => j \in undeleted
  /\ ending = "printed" => Len(launches) = Launches
  /\ place = "exit" /\ launcher = "exited" => \A j \in Launched : ~ Living(j)

\* The script ends whatever the launcher does.
DriveEnds == <>(place \in {"idle", "exit"})

=============================================================================
