------------------------- MODULE ExperimentsProofs --------------------------
(***************************************************************************)
(* Proofs about the experiments' programs (MCExperiments), for any number  *)
(* of repeats, processes, graphs, threads, plans and launches: what they   *)
(* compare is comparable, and the verdicts of the two CUDA scripts are     *)
(* true.  Each program has an invariant of its own.                        *)
(***************************************************************************)
EXTENDS MCExperiments, SequenceTheorems, FiniteSetTheorems, TLAPS

----------------------------------------------------------------------------
(* The driver of the launcher: LaunchesAreApart. *)

DriveTypes ==
  /\ place \in {"idle", "start", "health", "create", "poll", "delete", "stop", "wait", "exit"}
  /\ launch \in Nat \ {0}
  /\ launcher \in {"off", "booting", "up", "asked", "exited", "dead"}
  /\ inst \in [Launched -> {"none", "forked", "imported", "serving", "gone"}]
  /\ ending \in {"open", "printed", "error", "raised"}

DriveData ==
  /\ logs \subseteq ({"earlier", "this"} \X Launched)
  /\ launches \in Seq([ready : BOOLEAN, log : {"earlier", "this", "none"}])

(* Instances are made launch after launch, and those that went before and still
   live were not deleted. *)
InOrder ==
  /\ place \in {"create", "poll", "delete"} => launch <= Launches
  /\ \A j \in Launched :
       /\ j > launch => inst[j] = "none"
       /\ j = launch /\ place \in {"idle", "start", "health", "create"} => inst[j] = "none"
       /\ j < launch /\ Living(j) => j \in undeleted

(* One result per launch, while nothing went wrong. *)
Results ==
  /\ place \in {"idle", "start", "health"} => launch = 1 /\ Len(launches) = 0
  /\ place \in {"create", "poll"} => Len(launches) = launch - 1
  /\ place = "delete" => Len(launches) = launch
  /\ place \in {"stop", "wait", "exit"} /\ ending \in {"open", "printed"} => Len(launches) = Launches
  /\ ending = "printed" => place = "exit"
  /\ ending # "open" => place \in {"stop", "wait", "exit"}

(* A launcher that exited took its instances along, and makes no new ones. *)
LauncherLeft ==
  /\ launcher \in {"asked", "exited"} => place \in {"wait", "exit"}
  /\ launcher = "exited" => \A j \in Launched : ~ Living(j)

DriveInv == DriveTypes /\ DriveData /\ InOrder /\ Results /\ LauncherLeft

(* It holds at the start. *)
LEMMA DriveStarts == DriveInit \/ DriveIdle => DriveInv
<1> SUFFICES ASSUME DriveInit \/ DriveIdle PROVE DriveInv
  OBVIOUS
<1>1. /\ place \in {"idle", "start"} /\ launch = 1 /\ launcher = "off"
      /\ inst = [j \in Launched |-> "none"]
      /\ launches = <<>> /\ undeleted = {} /\ ending = "open"
  BY DEF DriveInit, DriveIdle, DriveStart
<1>2. logs \subseteq ({"earlier", "this"} \X Launched)
  <2>1. logs \subseteq {<<"earlier", j>> : j \in Launched}
    BY DEF DriveInit, DriveIdle
  <2>2. \A j \in Launched : <<"earlier", j>> \in {"earlier", "this"} \X Launched
    OBVIOUS
  <2> QED
    BY <2>1, <2>2
<1>3. launches \in Seq([ready : BOOLEAN, log : {"earlier", "this", "none"}]) /\ Len(launches) = 0
  BY <1>1
<1>4. inst \in [Launched -> {"none", "forked", "imported", "serving", "gone"}]
  BY <1>1
<1>5. DriveTypes
  BY <1>1, <1>4 DEF DriveTypes
<1>6. \A j \in Launched : inst[j] = "none" /\ ~ Living(j)
  BY <1>1 DEF Living
<1>7. \A j \in Launched : ~ (j < 1)
  BY LaunchesAssumption DEF Launched
<1>8. InOrder
  BY <1>1, <1>6, <1>7 DEF InOrder
<1>9. Results /\ LauncherLeft
  BY <1>1, <1>3, <1>6 DEF Results, LauncherLeft
<1> QED
  BY <1>2, <1>3, <1>5, <1>8, <1>9 DEF DriveInv, DriveData

(* What the steps rely on. *)
LEMMA DriveFacts ==
  ASSUME DriveInv
  PROVE  /\ launch \in Nat \ {0} /\ Launches \in Nat /\ Len(launches) \in Nat
         /\ place \in {"create", "poll", "delete"} => launch \in Launched
         /\ \A j \in Launched : j \in Nat
<1>1. launch \in Nat \ {0}
  BY DEF DriveInv, DriveTypes
<1>2. Launches \in Nat
  BY LaunchesAssumption
<1>3. Len(launches) \in Nat
  BY DEF DriveInv, DriveData
<1>4. place \in {"create", "poll", "delete"} => launch <= Launches
  BY DEF DriveInv, InOrder
<1> QED
  BY <1>1, <1>2, <1>3, <1>4 DEF Launched

(* The launcher and its instances keep it. *)
LEMMA LauncherKeeps ==
  ASSUME DriveInv,
         \/ LauncherComesUp \/ LauncherDies \/ LauncherExits
         \/ \E j \in Launched : InstanceImports(j) \/ InstanceServes(j) \/ InstanceDies(j)
  PROVE  DriveInv'
<1>1. UNCHANGED <<place, launch, launches, undeleted, ending>>
  BY DEF LauncherComesUp, LauncherDies, LauncherExits, InstanceImports, InstanceServes, InstanceDies
<1>2. /\ launcher' \in {"off", "booting", "up", "asked", "exited", "dead"}
      /\ launcher' \in {"asked", "exited"} => launcher \in {"asked", "exited"}
  BY DEF LauncherComesUp, LauncherDies, LauncherExits, InstanceImports, InstanceServes,
         InstanceDies, DriveInv, DriveTypes
<1>3. /\ inst' \in [Launched -> {"none", "forked", "imported", "serving", "gone"}]
      /\ \A j \in Launched : /\ Living(j)' => Living(j)
                             /\ inst[j] = "none" => inst'[j] = "none"
      /\ launcher' = "exited" => \A j \in Launched : ~ Living(j)'
  BY DEF LauncherComesUp, LauncherDies, LauncherExits, InstanceImports, InstanceServes,
         InstanceDies, DriveInv, DriveTypes, Living, LauncherLeft
<1>4. logs' \subseteq logs
  BY DEF LauncherComesUp, LauncherDies, LauncherExits, InstanceImports, InstanceServes, InstanceDies
<1>5. DriveTypes' /\ DriveData'
  BY <1>1, <1>2, <1>3, <1>4 DEF DriveInv, DriveTypes, DriveData
<1>6. InOrder'
  <2>1. ASSUME NEW j \in Launched
        PROVE  /\ j > launch' => inst'[j] = "none"
               /\ j = launch' /\ place' \in {"idle", "start", "health", "create"} => inst'[j] = "none"
               /\ j < launch' /\ Living(j)' => j \in undeleted'
    <3>1. /\ j > launch => inst[j] = "none"
          /\ j = launch /\ place \in {"idle", "start", "health", "create"} => inst[j] = "none"
          /\ j < launch /\ Living(j) => j \in undeleted
      BY DEF DriveInv, InOrder
    <3>2. (Living(j)' => Living(j)) /\ (inst[j] = "none" => inst'[j] = "none")
      BY <1>3 DEF Living
    <3> QED
      BY <1>1, <3>1, <3>2
  <2> QED
    BY <1>1, <2>1 DEF DriveInv, InOrder
<1>7. Results' /\ LauncherLeft'
  BY <1>1, <1>2, <1>3 DEF DriveInv, Results, LauncherLeft
<1> QED
  BY <1>5, <1>6, <1>7 DEF DriveInv

(* A launch: the first instance of its number, for which nothing was there. *)
LEMMA CreateKeeps == ASSUME DriveInv, Create \/ CreateRaises PROVE DriveInv'
<1>1. launch \in Launched
  BY DriveFacts DEF Create, CreateRaises
<1>2. \/ UNCHANGED <<inst, logs>>
      \/ \E fresh \in {"forked", "imported"} :
           /\ launcher = "up"
           /\ inst' = [inst EXCEPT ![launch] = fresh]
           /\ logs' = logs \cup {<<"this", launch>>}
  BY DEF Create, CreateRaises, Forks
<1>3. /\ UNCHANGED <<launch, launcher, launches, undeleted>>
      /\ place = "create"
      /\ \/ place' = "poll" /\ ending' = ending
         \/ place' = "stop" /\ ending' = "raised"
  BY DEF Create, CreateRaises
<1>4. DriveTypes'
  BY <1>1, <1>2, <1>3 DEF DriveInv, DriveTypes
<1>5. DriveData'
  BY <1>1, <1>2, <1>3 DEF DriveInv, DriveData
<1>6. InOrder'
  <2>1. inst[launch] = "none"
    BY <1>1, <1>3 DEF DriveInv, InOrder
  <2>2. \A j \in Launched : inst'[j] = inst[j] \/ j = launch
    BY <1>1, <1>2 DEF DriveInv, DriveTypes
  <2> QED
    BY <1>1, <1>3, <2>1, <2>2, DriveFacts DEF DriveInv, InOrder, Living
<1>7. Results'
  BY <1>3 DEF DriveInv, Results
<1>8. LauncherLeft'
  BY <1>2, <1>3 DEF DriveInv, LauncherLeft, Living
<1> QED
  BY <1>4, <1>5, <1>6, <1>7, <1>8 DEF DriveInv

(* The result of a launch is recorded. *)
LEMMA AwaitInstanceKeeps == ASSUME DriveInv, AwaitInstance PROVE DriveInv'
<1>1. PICK entry : /\ entry \in [ready : BOOLEAN, log : {"earlier", "this", "none"}]
                   /\ launches' = Append(launches, entry)
  BY DEF AwaitInstance, DriveInv, DriveData
<1>2. /\ launches' \in Seq([ready : BOOLEAN, log : {"earlier", "this", "none"}])
      /\ Len(launches') = Len(launches) + 1
  BY <1>1, AppendProperties DEF DriveInv, DriveData
<1>3. DriveTypes' /\ DriveData'
  BY <1>2 DEF AwaitInstance, DriveInv, DriveTypes, DriveData
<1>4. InOrder' /\ LauncherLeft'
  BY DEF AwaitInstance, DriveInv, InOrder, LauncherLeft, Living
<1>5. Results'
  BY <1>2, DriveFacts DEF AwaitInstance, DriveInv, Results
<1> QED
  BY <1>3, <1>4, <1>5 DEF DriveInv

(* After the DELETE, answered or not, the next launch. *)
LEMMA DeleteKeeps == ASSUME DriveInv, Delete PROVE DriveInv'
<1>1. launch \in Launched
  BY DriveFacts DEF Delete
<1>2. /\ UNCHANGED <<launcher, launches, ending>>
      /\ place = "delete"
      /\ \/ launch = Launches /\ place' = "stop" /\ launch' = launch
         \/ launch # Launches /\ place' = "create" /\ launch' = launch + 1
      /\ undeleted \subseteq undeleted'
      /\ logs' \subseteq logs
      /\ \/ inst' = [inst EXCEPT ![launch] = "gone"]
         \/ inst' = inst /\ launch \in undeleted'
  BY DEF Delete
<1>3. DriveTypes'
  BY <1>1, <1>2 DEF DriveInv, DriveTypes
<1>4. DriveData'
  BY <1>2 DEF DriveInv, DriveData
<1>5. InOrder'
  <2>1. launch' >= launch /\ launch' <= launch + 1 /\ launch' \in Nat
        /\ launch' <= Launches
    BY <1>1, <1>2, DriveFacts DEF Launched
  <2>2. ASSUME NEW j \in Launched
        PROVE  /\ j > launch' => inst'[j] = "none"
               /\ j = launch' /\ place' = "create" => inst'[j] = "none"
               /\ j < launch' /\ Living(j)' => j \in undeleted'
    <3>1. j # launch => inst'[j] = inst[j]
      BY <1>1, <1>2 DEF DriveInv, DriveTypes
    <3>2. j = launch /\ Living(j)' => j \in undeleted'
      BY <1>1, <1>2 DEF DriveInv, DriveTypes, Living
    <3>3. /\ j > launch => inst[j] = "none"
          /\ j < launch /\ Living(j) => j \in undeleted
      BY DEF DriveInv, InOrder
    <3>4. j \in Nat /\ launch \in Nat
      BY DriveFacts
    <3>5. Living(j)' /\ j # launch => Living(j)
      BY <3>1 DEF Living
    <3> QED
      BY <1>2, <2>1, <3>1, <3>2, <3>3, <3>4, <3>5
  <2> QED
    BY <1>2, <2>1, <2>2 DEF InOrder
<1>6. Results'
  BY <1>2, DriveFacts DEF DriveInv, Results
<1>7. LauncherLeft'
  BY <1>2 DEF DriveInv, LauncherLeft, Living
<1> QED
  BY <1>3, <1>4, <1>5, <1>6, <1>7 DEF DriveInv

(* Start and end of the script. *)
LEMMA FrameKeeps ==
  ASSUME DriveInv, StartLauncher \/ Healthy \/ NotHealthy \/ Stop \/ Waited PROVE DriveInv'
<1>1. DriveTypes'
  BY DEF StartLauncher, Healthy, NotHealthy, Stop, Waited, DriveInv, DriveTypes
<1>2. DriveData'
  BY DEF StartLauncher, Healthy, NotHealthy, Stop, Waited, DriveInv, DriveData
<1>3. InOrder'
  <2>1. UNCHANGED <<inst, launch, undeleted>>
    BY DEF StartLauncher, Healthy, NotHealthy, Stop, Waited
  <2>2. place' = "create" => launch = 1 /\ Launches # 0 /\ place = "health"
    BY DEF StartLauncher, Healthy, NotHealthy, Stop, Waited, DriveInv, Results
  <2>3. place' \in {"health", "create"} => place \in {"start", "health"}
    BY DEF StartLauncher, Healthy, NotHealthy, Stop, Waited
  <2>4. place' \notin {"idle", "start", "poll", "delete"}
    BY DEF StartLauncher, Healthy, NotHealthy, Stop, Waited
  <2>5. place' = "create" => launch <= Launches
    BY <2>2, DriveFacts
  <2> QED
    BY <2>1, <2>3, <2>4, <2>5 DEF DriveInv, InOrder, Living
<1>4. Results'
  BY DriveFacts DEF StartLauncher, Healthy, NotHealthy, Stop, Waited, DriveInv, DriveTypes, Results
<1>5. LauncherLeft'
  BY DEF StartLauncher, Healthy, NotHealthy, Stop, Waited, DriveInv, LauncherLeft, Living
<1> QED
  BY <1>1, <1>2, <1>3, <1>4, <1>5 DEF DriveInv

(* So every step keeps it. *)
LEMMA DriveKeeps == ASSUME DriveInv, [DriveNext]_driveVars PROVE DriveInv'
<1>1. CASE UNCHANGED driveVars
  BY <1>1 DEF driveVars, DriveInv, DriveTypes, DriveData, InOrder, Results, LauncherLeft, Living
<1> QED
  BY <1>1, LauncherKeeps, CreateKeeps, AwaitInstanceKeeps, DeleteKeeps, FrameKeeps
     DEF DriveNext, DriveSteps

(* With it, the launches are apart. *)
LEMMA DriveIsApart == ASSUME DriveInv PROVE LaunchesAreApart
<1>1. ASSUME NEW j \in Launched, NEW k \in Launched, j < k, Living(j), inst[k] # "none"
      PROVE  j \in undeleted
  <2>1. j \in Nat /\ k \in Nat /\ launch \in Nat
    BY DriveFacts
  <2>2. ~ (k > launch)
    BY <1>1 DEF DriveInv, InOrder
  <2>3. j < launch
    BY <1>1, <2>1, <2>2
  <2> QED
    BY <1>1, <2>3 DEF DriveInv, InOrder
<1>2. ending = "printed" => Len(launches) = Launches
  BY DEF DriveInv, Results
<1>3. place = "exit" /\ launcher = "exited" => \A j \in Launched : ~ Living(j)
  BY DEF DriveInv, LauncherLeft
<1> QED
  BY <1>1, <1>2, <1>3 DEF LaunchesAreApart

----------------------------------------------------------------------------
(* The elections of the processes in one trace directory: OneElected. *)

HoldsGpu(p) ==
  sampler[p] \in {"open", "gpu"} \/ <<"gpu", p>> \in wrote \/ <<"gpu.inventory", p>> \in wrote
Scans(p) == scanner[p] \in {"full", "caches", "lost"} \/ <<"run.caches", p>> \in wrote

ElectionTypes ==
  /\ before \in {{}, {GpuLock, EnvLock}} /\ before \subseteq locks
  /\ startup \in [Proc -> {"none", "idle", "sampler", "env", "elect", "up", "forked", "dead"}]
  /\ sampler \in [Proc -> {"off", "elect", "open", "gpu", "proc"}]
  /\ scanner \in [Proc -> {"off", "full", "context", "caches", "lost"}]

(* The lock of the GPU's sampler has at most one holder, now or ever; without
   the lock file there was none, and none after an earlier run's. *)
GpuHeldOnce ==
  /\ \A p, q \in Proc : HoldsGpu(p) /\ HoldsGpu(q) => p = q
  /\ \A p \in Proc :
       /\ HoldsGpu(p) => GpuLock \in locks /\ GpuLock \notin before
       /\ sampler[p] = "gpu" \/ <<"gpu", p>> \in wrote => <<"gpu.inventory", p>> \in wrote

(* The same of the scan of the caches, which the elected one still has before it,
   has made or was unable to start. *)
ScannedOnce ==
  /\ \A p, q \in Proc : Scans(p) /\ Scans(q) => p = q
  /\ \A p \in Proc :
       /\ Scans(p) => EnvLock \in locks /\ EnvLock \notin before
       /\ scanner[p] = "caches" \/ <<"run.caches", p>> \in wrote => <<"run.context", p>> \in wrote
       /\ startup[p] = "up" => EnvLock \in locks
       /\ startup[p] \in {"none", "sampler", "env", "elect", "forked"} => scanner[p] = "off" /\ <<"run.context", p>> \notin wrote
  /\ before = {} /\ EnvLock \in locks => \E p \in Proc : Scans(p)

ElectionInv == ElectionTypes /\ GpuHeldOnce /\ ScannedOnce

(* It holds at the start, in a fresh directory as in a used one. *)
LEMMA ElectionStarts == ElectionInit \/ ElectionIdle => ElectionInv
<1> SUFFICES ASSUME ElectionInit \/ ElectionIdle PROVE ElectionInv
  OBVIOUS
<1>1. /\ before \in {{}, {GpuLock, EnvLock}} /\ locks = before /\ wrote = {}
      /\ startup \in [Proc -> {"none", "idle"}]
      /\ sampler = [p \in Proc |-> "off"] /\ scanner = [p \in Proc |-> "off"]
  BY DEF ElectionInit, ElectionIdle, ElectionStart
<1>2. \A p \in Proc : startup[p] # "up" /\ ~ HoldsGpu(p) /\ ~ Scans(p)
  BY <1>1 DEF HoldsGpu, Scans
<1> QED
  BY <1>1, <1>2 DEF ElectionInv, ElectionTypes, GpuHeldOnce, ScannedOnce, HoldsGpu, Scans, GpuLock, EnvLock

(* No step leaves the domains. *)
LEMMA ElectionTyped == ASSUME ElectionInv, ElectionNext PROVE ElectionTypes'
<1>1. ElectionTypes
  BY DEF ElectionInv
<1>2. PICK p \in Proc :
        \/ Exec(p) \/ InstallSampler(p) \/ ElectSampler(p) \/ NvmlOpen(p) \/ Sample(p)
        \/ CaptureEnv(p) \/ ElectScanner(p) \/ CaptureSlow(p) \/ CaptureCaches(p) \/ Die(p)
        \/ \E q \in Proc : Fork(p, q)
  BY DEF ElectionNext
<1>3. before' = before /\ locks \subseteq locks'
  BY <1>2 DEF Exec, InstallSampler, ElectSampler, NvmlOpen, Sample, CaptureEnv, ElectScanner, CaptureSlow,
              CaptureCaches, Die, Fork
<1>4. startup' \in [Proc -> {"none", "idle", "sampler", "env", "elect", "up", "forked", "dead"}]
  BY <1>1, <1>2 DEF ElectionTypes, Exec, InstallSampler, ElectSampler, NvmlOpen, Sample, CaptureEnv,
                    ElectScanner, CaptureSlow, CaptureCaches, Die, Fork
<1>5. sampler' \in [Proc -> {"off", "elect", "open", "gpu", "proc"}]
  BY <1>1, <1>2 DEF ElectionTypes, Exec, InstallSampler, ElectSampler, NvmlOpen, Sample, CaptureEnv,
                    ElectScanner, CaptureSlow, CaptureCaches, Die, Fork
<1>6. scanner' \in [Proc -> {"off", "full", "context", "caches", "lost"}]
  BY <1>1, <1>2 DEF ElectionTypes, Exec, InstallSampler, ElectSampler, NvmlOpen, Sample, CaptureEnv,
                    ElectScanner, CaptureSlow, CaptureCaches, Die, Fork
<1> QED
  BY <1>1, <1>3, <1>4, <1>5, <1>6 DEF ElectionTypes

(* A process comes to hold the GPU's lock only by creating the file. *)
LEMMA GpuElection == ASSUME ElectionInv, ElectionNext PROVE GpuHeldOnce'
<1>1. ElectionTypes /\ GpuHeldOnce
  BY DEF ElectionInv
<1>2. /\ before' = before /\ locks \subseteq locks' /\ before \subseteq locks
      /\ \E p \in Proc : \A r \in Proc :
           /\ HoldsGpu(r)' => HoldsGpu(r) \/ (r = p /\ GpuLock \notin locks /\ GpuLock \in locks')
           /\ (sampler'[r] = "gpu" \/ <<"gpu", r>> \in wrote') => <<"gpu.inventory", r>> \in wrote'
  <2>1. PICK p \in Proc :
          \/ Exec(p) \/ InstallSampler(p) \/ ElectSampler(p) \/ NvmlOpen(p) \/ Sample(p)
          \/ CaptureEnv(p) \/ ElectScanner(p) \/ CaptureSlow(p) \/ CaptureCaches(p) \/ Die(p)
          \/ \E q \in Proc : Fork(p, q)
    BY DEF ElectionNext
  <2>2. before' = before /\ locks \subseteq locks' /\ before \subseteq locks
    BY <1>1, <2>1 DEF ElectionTypes, Exec, InstallSampler, ElectSampler, NvmlOpen, Sample, CaptureEnv,
                      ElectScanner, CaptureSlow, CaptureCaches, Die, Fork
  <2>3. ASSUME NEW r \in Proc
        PROVE  /\ HoldsGpu(r)' => HoldsGpu(r) \/ (r = p /\ GpuLock \notin locks /\ GpuLock \in locks')
               /\ (sampler'[r] = "gpu" \/ <<"gpu", r>> \in wrote') => <<"gpu.inventory", r>> \in wrote'
    <3>1. /\ sampler \in [Proc -> {"off", "elect", "open", "gpu", "proc"}]
          /\ sampler[r] = "gpu" \/ <<"gpu", r>> \in wrote => <<"gpu.inventory", r>> \in wrote
      BY <1>1 DEF ElectionTypes, GpuHeldOnce
    <3>2. CASE UNCHANGED <<sampler, wrote>>
      BY <3>1, <3>2 DEF HoldsGpu
    <3>3. CASE InstallSampler(p)
      BY <3>1, <3>3 DEF InstallSampler, HoldsGpu
    <3>4. CASE ElectSampler(p)
      BY <3>1, <3>4 DEF ElectSampler, OpenExclusive, HoldsGpu
    <3>5. CASE NvmlOpen(p)
      BY <3>1, <3>5 DEF NvmlOpen, HoldsGpu
    <3>6. CASE Sample(p)
      BY <3>1, <3>6 DEF Sample, HoldsGpu
    <3>7. CASE CaptureEnv(p) \/ ElectScanner(p) \/ CaptureSlow(p) \/ CaptureCaches(p)
      BY <3>1, <3>7 DEF CaptureEnv, ElectScanner, CaptureSlow, CaptureCaches, HoldsGpu
    <3>8. CASE \E q \in Proc : Fork(p, q)
      BY <3>1, <3>8 DEF Fork, HoldsGpu
    <3>9. Exec(p) \/ Die(p) => UNCHANGED <<sampler, wrote>>
      BY DEF Exec, Die
    <3> QED
      BY <2>1, <3>2, <3>3, <3>4, <3>5, <3>6, <3>7, <3>8, <3>9
  <2> QED
    BY <2>2, <2>3
<1>3. PICK p \in Proc : \A r \in Proc :
        /\ HoldsGpu(r)' => HoldsGpu(r) \/ (r = p /\ GpuLock \notin locks /\ GpuLock \in locks')
        /\ (sampler'[r] = "gpu" \/ <<"gpu", r>> \in wrote') => <<"gpu.inventory", r>> \in wrote'
  BY <1>2
<1> HIDE DEF HoldsGpu
<1>4. \A q, r \in Proc : HoldsGpu(q)' /\ HoldsGpu(r)' => q = r
  BY <1>1, <1>3 DEF GpuHeldOnce
<1>5. \A r \in Proc : HoldsGpu(r)' => GpuLock \in locks' /\ GpuLock \notin before'
  BY <1>1, <1>2, <1>3 DEF GpuHeldOnce, ElectionTypes
<1> QED
  BY <1>3, <1>4, <1>5 DEF GpuHeldOnce

(* Only the process that creates the other file comes to scan, and what it scans
   it writes after the context. *)
LEMMA EnvElection == ASSUME ElectionInv, ElectionNext PROVE ScannedOnce'
<1>1. ElectionTypes /\ ScannedOnce
  BY DEF ElectionInv
<1>2. PICK p \in Proc :
        \/ Exec(p) \/ InstallSampler(p) \/ ElectSampler(p) \/ NvmlOpen(p) \/ Sample(p)
        \/ CaptureEnv(p) \/ ElectScanner(p) \/ CaptureSlow(p) \/ CaptureCaches(p) \/ Die(p)
        \/ \E q \in Proc : Fork(p, q)
  BY DEF ElectionNext
<1>3. before' = before /\ locks \subseteq locks' /\ before \subseteq locks
  BY <1>1, <1>2 DEF ElectionTypes, Exec, InstallSampler, ElectSampler, NvmlOpen, Sample, CaptureEnv,
                    ElectScanner, CaptureSlow, CaptureCaches, Die, Fork
<1>4. ASSUME NEW r \in Proc
      PROVE  /\ Scans(r)' => Scans(r) \/ (r = p /\ EnvLock \notin locks /\ EnvLock \in locks')
             /\ Scans(r) => Scans(r)'
             /\ (scanner'[r] = "caches" \/ <<"run.caches", r>> \in wrote') => <<"run.context", r>> \in wrote'
             /\ startup'[r] = "up" => EnvLock \in locks'
             /\ startup'[r] \in {"none", "sampler", "env", "elect", "forked"} =>
                  scanner'[r] = "off" /\ <<"run.context", r>> \notin wrote'
  <2>1. /\ scanner \in [Proc -> {"off", "full", "context", "caches", "lost"}]
        /\ startup \in [Proc -> {"none", "idle", "sampler", "env", "elect", "up", "forked", "dead"}]
        /\ scanner[r] = "caches" \/ <<"run.caches", r>> \in wrote => <<"run.context", r>> \in wrote
        /\ startup[r] = "up" => EnvLock \in locks
        /\ startup[r] \in {"none", "sampler", "env", "elect", "forked"} => scanner[r] = "off" /\ <<"run.context", r>> \notin wrote
    BY <1>1 DEF ElectionTypes, ScannedOnce
  <2>2. CASE Exec(p) \/ InstallSampler(p) \/ Die(p)
    BY <2>1, <2>2 DEF Exec, InstallSampler, Die, Scans
  <2>3. CASE ElectSampler(p) \/ NvmlOpen(p) \/ Sample(p)
    BY <2>1, <2>3 DEF ElectSampler, NvmlOpen, Sample, Scans
  <2>4. CASE CaptureEnv(p)
    BY <2>1, <2>4 DEF CaptureEnv, Scans
  <2>8. CASE ElectScanner(p)
    BY <2>1, <2>8 DEF ElectScanner, OpenExclusive, Scans
  <2>5. CASE CaptureSlow(p)
    BY <2>1, <2>5 DEF CaptureSlow, Scans, Lives
  <2>6. CASE CaptureCaches(p)
    BY <2>1, <2>6 DEF CaptureCaches, Scans, Lives
  <2>7. CASE \E q \in Proc : Fork(p, q)
    BY <2>1, <2>7 DEF Fork, Scans
  <2> QED
    BY <1>2, <2>2, <2>3, <2>4, <2>5, <2>6, <2>7, <2>8
<1>5. EnvLock \in locks' => EnvLock \in locks \/ \E r \in Proc : Scans(r)'
  <2>1. CASE ElectScanner(p)
    BY <1>1, <2>1 DEF ElectScanner, OpenExclusive, Scans, ElectionTypes
  <2>2. CASE ~ ElectScanner(p)
    BY <1>2, <2>2 DEF Exec, InstallSampler, ElectSampler, NvmlOpen, Sample, CaptureEnv, CaptureSlow,
                      CaptureCaches, Die, Fork, GpuLock, EnvLock
  <2> QED
    BY <2>1, <2>2
<1> HIDE DEF Scans
<1>6. \A q, r \in Proc : Scans(q)' /\ Scans(r)' => q = r
  BY <1>1, <1>4 DEF ScannedOnce
<1>7. \A r \in Proc : Scans(r)' => EnvLock \in locks' /\ EnvLock \notin before'
  BY <1>1, <1>3, <1>4 DEF ScannedOnce, ElectionTypes
<1>8. before' = {} /\ EnvLock \in locks' => \E r \in Proc : Scans(r)'
  BY <1>1, <1>3, <1>4, <1>5 DEF ScannedOnce
<1> QED
  BY <1>4, <1>6, <1>7, <1>8 DEF ScannedOnce

(* So every step keeps it. *)
LEMMA ElectionKeeps == ASSUME ElectionInv, [ElectionNext]_electionVars PROVE ElectionInv'
<1>1. CASE UNCHANGED electionVars
  BY <1>1 DEF electionVars, ElectionInv, ElectionTypes, GpuHeldOnce, ScannedOnce, HoldsGpu, Scans
<1> QED
  BY <1>1, ElectionTyped, GpuElection, EnvElection DEF ElectionInv

(* A set whose members are all the same has at most one. *)
LEMMA AtMostOne == ASSUME NEW S, \A x, y \in S : x = y PROVE Cardinality(S) <= 1
<1>1. CASE S = {}
  BY <1>1, FS_EmptySet
<1>2. CASE S # {}
  <2>1. PICK x : x \in S
    BY <1>2
  <2>2. S = {x}
    BY <2>1
  <2> QED
    BY <2>2, FS_Singleton
<1> QED
  BY <1>1, <1>2

(* With it, one process is elected. *)
LEMMA ElectionIsOne == ASSUME ElectionInv PROVE OneElected
<1>1. GpuHeldOnce /\ ScannedOnce /\ ElectionTypes
  BY DEF ElectionInv
<1>2. \A p \in MayHold \cup Wrote("gpu") \cup Wrote("gpu.inventory") : p \in Proc /\ HoldsGpu(p)
  BY DEF MayHold, Wrote, HoldsGpu
<1>3. \A p : p \in Elected <=> p \in Proc /\ Scans(p)
  BY DEF Elected, Wrote, Scans
<1>4. Cardinality(MayHold \cup Wrote("gpu") \cup Wrote("gpu.inventory")) <= 1
  BY <1>1, <1>2, AtMostOne DEF GpuHeldOnce
<1>5. Cardinality(Elected) <= 1
  BY <1>1, <1>3, AtMostOne DEF ScannedOnce
<1>6. Wrote("gpu") \subseteq Wrote("gpu.inventory") /\ Wrote("run.caches") \subseteq Wrote("run.context")
  BY <1>1 DEF GpuHeldOnce, ScannedOnce, Wrote
<1>7. before # {} => Wrote("gpu") \cup Wrote("run.caches") = {}
  BY <1>1 DEF GpuHeldOnce, ScannedOnce, ElectionTypes, HoldsGpu, Scans, Wrote
<1>8. \A p \in Proc : startup[p] = "forked" => p \notin Wrote("run.context")
  BY <1>1 DEF ScannedOnce, Wrote
<1>9. before = {} /\ (\E p \in Proc : startup[p] = "up") => Elected # {}
  BY <1>1, <1>3 DEF ScannedOnce
<1> QED
  BY <1>4, <1>5, <1>6, <1>7, <1>8, <1>9 DEF OneElected

----------------------------------------------------------------------------
(* The repeats of the harness: SuccessIsComparable. *)

Entry == [free : BOOLEAN, ready : BOOLEAN, alive : BOOLEAN, asked : BOOLEAN, drained : BOOLEAN,
          rc : {0, 1}]
Good(i) == /\ log[i].ready /\ log[i].alive
           /\ log[i].asked => log[i].drained
           /\ i = 1 \/ log[i - 1].asked => log[i].free

HarnessTypes ==
  /\ flags \in [reuse : BOOLEAN, token : BOOLEAN]
  /\ run \in Runs
  /\ stage \in {"idle", "begin", "launch", "poll", "grace", "drain", "return", "exit", "stuck"}
  /\ rc \in {0, 1} /\ status \in {0, 1}
  /\ api \in {"none", "dead", "starting", "listening", "healthy", "serving"}
  /\ engines \in [Runs -> {"none", "coming", "holding", "gone"}]

(* One entry per repeat that was launched. *)
HarnessLog ==
  /\ log \in Seq(Entry)
  /\ stage \in {"idle", "begin", "launch"} => Len(log) = run - 1
  /\ stage \in {"poll", "grace", "drain", "return"} => Len(log) = run
  /\ stage = "exit" => \/ Len(log) = run - 1 /\ status = 1
                       \/ Len(log) = run /\ run = Repeat

(* The poller's edges are a prefix of all of them. *)
PollerSees ==
  /\ poller \in {"off", "polling", "ready", "timeout"}
  /\ poller # "off" => stage = "poll"
  /\ poller = "polling" => /\ seen \in Seq({"port_open", "health_200", "models_200", "first_token"})
                           /\ Len(seen) < Len(Edges)
                           /\ \A k \in 1 .. Len(seen) : seen[k] = Edges[k]
  /\ poller = "ready" => seen = Edges

(* An engine belongs to a repeat that was launched; a server that listens has
   one on the GPU; as long as all is well the engines of the repeats before
   this one have been there, and are gone if the last drain had an answer. *)
EnginesInOrder ==
  /\ \A i \in Runs :
       /\ i > run \/ (i = run /\ stage \in {"idle", "begin", "launch"}) => engines[i] = "none"
       /\ status = 0 /\ i < run => engines[i] \in {"holding", "gone"}
       /\ status = 0 /\ i < run /\ log[run - 1].asked => engines[i] = "gone"
       /\ status = 0 /\ stage = "return" /\ rc = 0 /\ i <= run /\ log[run].asked => engines[i] = "gone"
  /\ api \in {"starting", "listening", "healthy", "serving"} => stage \in {"poll", "grace", "stuck"}
  /\ \/ api \in {"listening", "healthy", "serving"}
     \/ stage = "poll" /\ seen # <<>>
     \/ stage \in {"grace", "drain", "return"} /\ rc = 0
     => engines[run] \in {"holding", "gone"}

(* What the entries say, those of the repeats before and that of this one. *)
Recorded ==
  /\ \A i \in 1 .. Len(log) :
       /\ i < run \/ stage = "exit" => (status = 0 => Good(i))
       /\ i < run /\ log[i].rc = 1 => status = 1
  /\ stage \in {"poll", "grace", "drain", "return"} /\ status = 0 /\ (run = 1 \/ log[run - 1].asked) =>
       log[run].free
  /\ stage \in {"grace", "drain", "return"} /\ rc = 0 => log[run].ready /\ log[run].alive
  /\ stage = "return" => log[run].rc = rc /\ (rc = 0 /\ log[run].asked => log[run].drained)

HarnessInv == HarnessTypes /\ HarnessLog /\ PollerSees /\ EnginesInOrder /\ Recorded

(* The index of a phase. *)
PhaseNumber(phase) == CHOOSE i \in DOMAIN Phases : Phases[i] = phase

(* The phases are numbered in their order. *)
LEMMA PhaseIndex ==
  /\ PhaseNumber("starting") = 1 /\ PhaseNumber("listening") = 2
  /\ PhaseNumber("healthy") = 3 /\ PhaseNumber("serving") = 4
<1>1. /\ DOMAIN Phases = 1 .. 4
      /\ Phases[1] = "starting" /\ Phases[2] = "listening" /\ Phases[3] = "healthy" /\ Phases[4] = "serving"
  BY DEF Phases
<1>2. \A i \in DOMAIN Phases : i = 1 \/ i = 2 \/ i = 3 \/ i = 4
  BY <1>1
<1> QED
  BY <1>1, <1>2 DEF PhaseNumber

(* A server is alive in one of the four. *)
LEMMA AliveIs == Alive <=> api \in {"starting", "listening", "healthy", "serving"}
<1>1. ToSet(Phases) = {"starting", "listening", "healthy", "serving"}
  BY DEF ToSet, Phases
<1> QED
  BY <1>1 DEF Alive

(* No edge is answered before the server listens. *)
LEMMA AnswersMeansUp ==
  ASSUME NEW edge, Answers(edge) PROVE api \in {"listening", "healthy", "serving"}
<1>1. AtLeast("listening") \/ AtLeast("healthy") \/ AtLeast("serving")
  BY DEF Answers
<1>2. ASSUME api = "starting" PROVE FALSE
  <2>1. PhaseNumber("listening") <= PhaseNumber(api) \/ PhaseNumber("healthy") <= PhaseNumber(api)
        \/ PhaseNumber("serving") <= PhaseNumber(api)
    BY <1>1 DEF AtLeast, PhaseNumber
  <2> QED
    BY <1>2, <2>1, PhaseIndex
<1>3. Alive
  BY <1>1 DEF AtLeast
<1> QED
  BY <1>2, <1>3, AliveIs

(* The server's next phase. *)
LEMMA Proceeds ==
  ASSUME ServerProceeds
  PROVE  /\ api \in {"starting", "listening", "healthy"}
         /\ api' \in {"listening", "healthy", "serving"}
         /\ api = "starting" => run \in Runs /\ engines[run] = "holding"
<1>1. api \in {"starting", "listening", "healthy"}
  BY AliveIs DEF ServerProceeds
<1>2. api' = Phases[1 + PhaseNumber(api)] /\ (api = "starting" => run \in Runs /\ engines[run] = "holding")
  BY DEF ServerProceeds, PhaseNumber, holders
<1>3. Phases[2] = "listening" /\ Phases[3] = "healthy" /\ Phases[4] = "serving"
  BY DEF Phases
<1>4. CASE api = "starting"
  BY <1>2, <1>3, <1>4, PhaseIndex
<1>5. CASE api = "listening"
  BY <1>2, <1>3, <1>5, PhaseIndex
<1>6. CASE api = "healthy"
  BY <1>2, <1>3, <1>6, PhaseIndex
<1> QED
  BY <1>1, <1>4, <1>5, <1>6

(* The edges. *)
LEMMA EdgesFacts ==
  /\ Edges \in Seq({"port_open", "health_200", "models_200", "first_token"})
  /\ Len(Edges) \in Nat /\ Len(Edges) > 0 /\ Edges # <<>>
<1> DEFINE S == {"port_open", "health_200", "models_200", "first_token"}
           a == <<"port_open", "health_200", "models_200">>
           b == IF flags.token THEN <<"first_token">> ELSE <<>>
<1>1. a \in Seq(S) /\ Len(a) = 3
  OBVIOUS
<1>2. b \in Seq(S) /\ Len(b) \in Nat
  <2>1. <<"first_token">> \in Seq(S) /\ Len(<<"first_token">>) = 1
    OBVIOUS
  <2>2. <<>> \in Seq(S) /\ Len(<<>>) = 0
    OBVIOUS
  <2>3. b = <<"first_token">> \/ b = <<>>
    OBVIOUS
  <2> HIDE DEF S, b
  <2>4. CASE b = <<"first_token">>
    BY <2>1, <2>4
  <2>5. CASE b = <<>>
    BY <2>2, <2>5
  <2> QED
    BY <2>3, <2>4, <2>5
<1>3. Edges = a \o b
  BY DEF Edges
<1> HIDE DEF S, a, b
<1>4. Edges \in Seq(S) /\ Len(Edges) = Len(a) + Len(b)
  BY <1>1, <1>2, <1>3, ConcatProperties
<1>5. Len(Edges) \in Nat /\ Len(Edges) > 0
  BY <1>1, <1>2, <1>4
<1>6. Edges # <<>>
  BY <1>5
<1> QED
  BY <1>4, <1>5, <1>6 DEF S

(* It holds at the start. *)
LEMMA HarnessStarts == HarnessInit \/ HarnessIdle => HarnessInv
<1> SUFFICES ASSUME HarnessInit \/ HarnessIdle PROVE HarnessInv
  OBVIOUS
<1>0. flags \in [reuse : BOOLEAN, token : BOOLEAN]
  <2>1. [reuse |-> FALSE, token |-> FALSE] \in [reuse : BOOLEAN, token : BOOLEAN]
    OBVIOUS
  <2> QED
    BY <2>1 DEF HarnessInit, HarnessIdle
<1>1. /\ run = 1 /\ stage \in {"begin", "idle"} /\ rc = 0 /\ status = 0 /\ api = "none"
      /\ engines = [i \in Runs |-> "none"] /\ poller = "off" /\ log = <<>>
  BY DEF HarnessInit, HarnessIdle, HarnessStart
<1>2. log \in Seq(Entry) /\ Len(log) = 0
  BY <1>1
<1>3. 1 \in Runs /\ \A i \in Runs : ~ (i < 1)
  BY RepeatAssumption DEF Runs
<1>4. HarnessTypes
  BY <1>0, <1>1, <1>3 DEF HarnessTypes
<1>5. HarnessLog
  BY <1>1, <1>2 DEF HarnessLog
<1>6. PollerSees
  BY <1>1 DEF PollerSees
<1>7. EnginesInOrder
  BY <1>1, <1>3 DEF EnginesInOrder
<1>8. Recorded
  <2>1. 1 .. Len(log) = {}
    BY <1>2
  <2> QED
    BY <1>1, <2>1 DEF Recorded
<1> QED
  BY <1>4, <1>5, <1>6, <1>7, <1>8 DEF HarnessInv

(* The server, its engine and what looks at the GPU: they leave alone what the
   script knows. *)
LEMMA ServerKeeps ==
  ASSUME HarnessInv,
         \/ ServerProceeds \/ ServerDies \/ StillHeld \/ KillHolder
         \/ \E i \in Runs : EngineStarts(i) \/ EngineLeaves(i)
  PROVE  HarnessInv'
<1>1. UNCHANGED <<flags, run, stage, rc, status, seen, poller, log>>
  BY DEF ServerProceeds, ServerDies, StillHeld, KillHolder, EngineStarts, EngineLeaves
<1>2. HarnessTypes /\ EnginesInOrder
  BY DEF HarnessInv
<1>3. /\ \/ api' = api
         \/ api \in {"starting", "listening", "healthy", "serving"} /\ api' = "dead"
         \/ /\ api \in {"starting", "listening", "healthy"} /\ api' \in {"listening", "healthy", "serving"}
            /\ api = "starting" => engines[run] = "holding"
      /\ engines' \in [Runs -> {"none", "coming", "holding", "gone"}]
      /\ \A i \in Runs :
           /\ engines[i] \in {"none", "gone"} => engines'[i] = engines[i]
           /\ engines[i] \in {"holding", "gone"} => engines'[i] \in {"holding", "gone"}
  <2>1. CASE ServerProceeds
    <3>1. engines' = engines
      BY <2>1 DEF ServerProceeds
    <3> QED
      BY <1>2, <2>1, <3>1, Proceeds DEF HarnessTypes
  <2>2. CASE ServerDies
    BY <1>2, <2>2, AliveIs DEF ServerDies, HarnessTypes
  <2>3. CASE StillHeld \/ KillHolder
    BY <1>2, <2>3 DEF StillHeld, KillHolder, HarnessTypes, holders
  <2>4. CASE \E i \in Runs : EngineStarts(i) \/ EngineLeaves(i)
    BY <1>2, <2>4 DEF EngineStarts, EngineLeaves, HarnessTypes
  <2> QED
    BY <2>1, <2>2, <2>3, <2>4
<1>4. HarnessTypes'
  BY <1>1, <1>2, <1>3 DEF HarnessTypes
<1>5. HarnessLog' /\ Recorded'
  BY <1>1 DEF HarnessInv, HarnessLog, Recorded, Good
<1>6. PollerSees'
  BY <1>1 DEF HarnessInv, PollerSees, Edges
<1>7. EnginesInOrder'
  <2>1. run \in Runs
    BY <1>2 DEF HarnessTypes
  <2>2. ASSUME NEW i \in Runs
        PROVE  /\ i > run \/ (i = run /\ stage \in {"idle", "begin", "launch"}) => engines'[i] = "none"
               /\ status = 0 /\ i < run => engines'[i] \in {"holding", "gone"}
               /\ status = 0 /\ i < run /\ log[run - 1].asked => engines'[i] = "gone"
               /\ status = 0 /\ stage = "return" /\ rc = 0 /\ i <= run /\ log[run].asked =>
                    engines'[i] = "gone"
    BY <1>2, <1>3 DEF EnginesInOrder
  <2>3. api' \in {"starting", "listening", "healthy", "serving"} => stage \in {"poll", "grace", "stuck"}
    BY <1>2, <1>3 DEF EnginesInOrder
  <2>4. \/ api' \in {"listening", "healthy", "serving"}
        \/ stage = "poll" /\ seen # <<>>
        \/ stage \in {"grace", "drain", "return"} /\ rc = 0
        => engines'[run] \in {"holding", "gone"}
    BY <1>2, <1>3, <2>1 DEF EnginesInOrder
  <2> QED
    BY <1>1, <2>2, <2>3, <2>4 DEF EnginesInOrder
<1> QED
  BY <1>4, <1>5, <1>6, <1>7 DEF HarnessInv

(* The poller. *)
LEMMA PollerKeeps == ASSUME HarnessInv, Poll \/ PollTimesOut PROVE HarnessInv'
<1>1. UNCHANGED <<flags, run, stage, rc, status, api, engines, log>>
  BY DEF Poll, PollTimesOut
<1>2. poller = "polling" /\ stage = "poll"
  BY DEF Poll, PollTimesOut, HarnessInv, PollerSees
<1>3. HarnessTypes' /\ HarnessLog' /\ Recorded'
  BY <1>1 DEF HarnessInv, HarnessTypes, HarnessLog, Recorded, Good
<1>4. EnginesInOrder'
  <2>1. seen' # <<>> => engines[run] \in {"holding", "gone"}
    <3>1. CASE Poll
      BY <3>1, AnswersMeansUp DEF Poll, HarnessInv, EnginesInOrder
    <3>2. CASE PollTimesOut
      BY <1>2, <3>2 DEF PollTimesOut, HarnessInv, EnginesInOrder
    <3> QED
      BY <3>1, <3>2
  <2> QED
    BY <1>1, <1>2, <2>1 DEF HarnessInv, EnginesInOrder
<1>5. PollerSees'
  <2> DEFINE S == {"port_open", "health_200", "models_200", "first_token"}
  <2>1. /\ seen \in Seq(S) /\ Len(seen) < Len(Edges)
        /\ \A k \in 1 .. Len(seen) : seen[k] = Edges[k]
    BY <1>2 DEF HarnessInv, PollerSees
  <2>2. Edges' = Edges
    BY <1>1 DEF Edges
  <2>3. Len(seen) \in Nat /\ Len(Edges) \in Nat /\ Edges \in Seq(S)
    BY <2>1, EdgesFacts
  <2>4. CASE PollTimesOut
    BY <1>1, <1>2, <2>4 DEF PollTimesOut, PollerSees
  <2>5. CASE Poll
    <3> DEFINE n == Len(seen) + 1
    <3>1. NextEdge \in S /\ NextEdge = Edges[n] /\ seen' = Append(seen, NextEdge)
      <4>1. n \in 1 .. Len(Edges)
        BY <2>1, <2>3
      <4> QED
        BY <2>3, <2>5, <4>1 DEF Poll, NextEdge
    <3> HIDE DEF S
    <3>2. /\ seen' \in Seq(S) /\ Len(seen') = n
          /\ seen'[n] = Edges[n]
          /\ \A k \in 1 .. Len(seen) : seen'[k] = Edges[k]
      BY <2>1, <3>1, AppendProperties
    <3>3. \A k \in 1 .. n : seen'[k] = Edges[k]
      <4>1. \A k \in 1 .. n : k = n \/ k \in 1 .. Len(seen)
        BY <2>3
      <4> QED
        BY <3>2, <4>1
    <3>4. CASE n = Len(Edges)
      <4>1. seen' = Edges
        BY <2>3, <3>2, <3>3, <3>4, SeqEqual
      <4>2. poller' = "ready"
        BY <2>5, <3>2, <3>4 DEF Poll
      <4> QED
        BY <1>1, <1>2, <2>2, <4>1, <4>2 DEF PollerSees
    <3>5. CASE n # Len(Edges)
      <4>1. n < Len(Edges)
        BY <2>1, <2>3, <3>5
      <4>2. poller' = "polling"
        BY <1>2, <2>5, <3>2, <3>5 DEF Poll
      <4> HIDE DEF n
      <4> QED
        BY <1>1, <1>2, <2>2, <3>2, <3>3, <4>1, <4>2 DEF PollerSees, S
    <3> QED
      BY <3>4, <3>5
  <2> QED
    BY <2>4, <2>5
<1> QED
  BY <1>3, <1>4, <1>5 DEF HarnessInv

(* What the steps of the script rely on. *)
LEMMA HarnessFacts ==
  ASSUME HarnessInv
  PROVE  /\ run \in Runs /\ run \in Nat /\ Repeat \in Nat /\ run >= 1 /\ run <= Repeat /\ Len(log) \in Nat
         /\ \A i \in Runs : i \in Nat /\ i >= 1 /\ i <= Repeat
<1>1. run \in Runs
  BY DEF HarnessInv, HarnessTypes
<1>2. Len(log) \in Nat
  BY DEF HarnessInv, HarnessLog
<1> QED
  BY <1>1, <1>2, RepeatAssumption DEF Runs

(* A repeat begins, or is refused. *)
LEMMA BeginKeeps == ASSUME HarnessInv, Begin PROVE HarnessInv'
<1>1. /\ UNCHANGED <<flags, run, api, engines, seen, poller, log>>
      /\ stage = "begin" /\ rc' = 0
      /\ \/ stage' = "exit" /\ status' = 1
         \/ stage' = "launch" /\ status' = status
  BY DEF Begin
<1>2. HarnessTypes' /\ HarnessLog'
  BY <1>1, HarnessFacts DEF HarnessInv, HarnessTypes, HarnessLog
<1>3. PollerSees'
  BY <1>1 DEF HarnessInv, PollerSees
<1>4. EnginesInOrder'
  BY <1>1 DEF HarnessInv, EnginesInOrder
<1>5. Recorded'
  BY <1>1 DEF HarnessInv, Recorded, Good
<1> QED
  BY <1>2, <1>3, <1>4, <1>5 DEF HarnessInv

(* A launch finds the GPU free if all went well before. *)
LEMMA LaunchKeeps == ASSUME HarnessInv, Launch PROVE HarnessInv'
<1> DEFINE entry == [free |-> holders = {}, ready |-> FALSE, alive |-> FALSE, asked |-> FALSE,
                   drained |-> FALSE, rc |-> 0]
<1>1. /\ UNCHANGED <<flags, run, rc, status>>
      /\ stage = "launch" /\ stage' = "poll" /\ api' = "starting"
      /\ engines' = [engines EXCEPT ![run] = "coming"]
      /\ seen' = <<>> /\ poller' = "polling" /\ log' = Append(log, entry)
  BY DEF Launch
<1>2. /\ entry \in Entry /\ entry.rc = 0 /\ entry.free = (holders = {})
      /\ log \in Seq(Entry) /\ Len(log) = run - 1
  BY <1>1 DEF HarnessInv, HarnessLog, Entry
<1> HIDE DEF entry
<1>3. /\ log' \in Seq(Entry) /\ Len(log') = run /\ log'[run] = entry
      /\ \A i \in 1 .. Len(log) : log'[i] = log[i]
  BY <1>1, <1>2, AppendProperties, HarnessFacts
<1>4. HarnessTypes' /\ HarnessLog'
  <2>1. engines' \in [Runs -> {"none", "coming", "holding", "gone"}]
    BY <1>1 DEF HarnessInv, HarnessTypes
  <2>2. HarnessTypes'
    BY <1>1, <2>1 DEF HarnessInv, HarnessTypes
  <2> QED
    BY <1>1, <1>3, <2>2 DEF HarnessLog
<1>5. PollerSees'
  <2>1. /\ seen' \in Seq({"port_open", "health_200", "models_200", "first_token"})
        /\ Len(seen') = 0
    BY <1>1
  <2>2. Edges' = Edges /\ Len(Edges) > 0 /\ 1 .. Len(seen') = {}
    BY <1>1, <2>1, EdgesFacts DEF Edges
  <2> QED
    BY <1>1, <2>1, <2>2 DEF PollerSees
<1>6. EnginesInOrder'
  <2>1. \A i \in Runs : i # run => engines'[i] = engines[i]
    BY <1>1 DEF HarnessInv, HarnessTypes
  <2>2. \A i \in Runs : (i > run => i # run) /\ (i < run => i # run)
    BY HarnessFacts
  <2>3. \A i \in Runs :
          /\ i > run => engines'[i] = "none"
          /\ status = 0 /\ i < run => engines'[i] \in {"holding", "gone"}
          /\ status = 0 /\ i < run /\ log[run - 1].asked => engines'[i] = "gone"
    BY <2>1, <2>2 DEF HarnessInv, EnginesInOrder
  <2>4. \A i \in Runs : i < run => run - 1 \in 1 .. Len(log)
    BY <1>2, HarnessFacts
  <2>5. \A i \in Runs : i < run => log'[run - 1] = log[run - 1]
    BY <1>3, <2>4
  <2> QED
    BY <1>1, <2>3, <2>5 DEF EnginesInOrder
<1>7. Recorded'
  <2>0. run # 1 => run - 1 \in 1 .. Len(log) /\ log'[run - 1] = log[run - 1]
    <3>1. run # 1 => run - 1 \in 1 .. Len(log)
      BY <1>2, HarnessFacts
    <3> QED
      BY <1>3, <3>1
  <2>1. status = 0 /\ (run = 1 \/ log[run - 1].asked) => holders = {}
    <3>1. ASSUME status = 0, run = 1 \/ log[run - 1].asked, NEW i \in Runs PROVE engines[i] # "holding"
      <4>1. i < run \/ i = run \/ i > run
        BY HarnessFacts
      <4>2. i < run => run # 1
        BY HarnessFacts
      <4> QED
        BY <1>1, <3>1, <4>1, <4>2 DEF HarnessInv, EnginesInOrder
    <3> QED
      BY <3>1 DEF holders
  <2>2. log'[run].rc = 0 /\ (status = 0 /\ (run = 1 \/ log'[run - 1].asked) => log'[run].free)
    BY <1>2, <1>3, <2>0, <2>1
  <2>3. \A i \in 1 .. Len(log') : i < run => i \in 1 .. Len(log) /\ log'[i] = log[i]
    BY <1>2, <1>3, HarnessFacts
  <2>4. \A i \in 1 .. Len(log') : i < run /\ i # 1 => log'[i - 1] = log[i - 1]
    <3>1. \A i \in 1 .. Len(log') : i < run /\ i # 1 => i - 1 \in 1 .. Len(log)
      BY <1>2, <1>3, HarnessFacts
    <3> QED
      BY <1>3, <3>1
  <2>5. \A i \in 1 .. Len(log') : i < run =>
          /\ status = 0 => Good(i)'
          /\ log'[i].rc = 1 => status = 1
    BY <1>1, <2>3, <2>4 DEF HarnessInv, Recorded, Good
  <2> QED
    BY <1>1, <2>2, <2>5 DEF Recorded
<1> QED
  BY <1>4, <1>5, <1>6, <1>7 DEF HarnessInv

(* What changes in the entry of this repeat. *)
LEMMA EntryChanges ==
  ASSUME NEW entries \in Seq(Entry), NEW n \in 1 .. Len(entries), NEW e \in Entry
  PROVE  /\ [entries EXCEPT ![n] = e] \in Seq(Entry)
         /\ Len([entries EXCEPT ![n] = e]) = Len(entries)
         /\ [entries EXCEPT ![n] = e][n] = e
         /\ \A i \in 1 .. Len(entries) : i # n => [entries EXCEPT ![n] = e][i] = entries[i]
OBVIOUS

(* The poller has come back: ready means that every edge was seen. *)
LEMMA CheckAliveKeeps == ASSUME HarnessInv, CheckAlive PROVE HarnessInv'
<1> DEFINE entry == [log[run] EXCEPT !.alive = Alive, !.ready = (seen = Edges)]
<1>1. /\ UNCHANGED <<flags, run, status, api, engines, seen>>
      /\ stage = "poll" /\ stage' = "grace" /\ poller' = "off" /\ poller \in {"ready", "timeout"}
      /\ rc' \in {0, 1} /\ (rc' = 0 => Alive /\ poller = "ready")
  BY DEF CheckAlive, Pipeline
<1>2. log' = [log EXCEPT ![run] = entry]
  BY DEF CheckAlive
<1>3. /\ log \in Seq(Entry) /\ Len(log) = run /\ run \in 1 .. Len(log)
      /\ 1 .. Len(log) = DOMAIN log
  BY <1>1, HarnessFacts DEF HarnessInv, HarnessLog
<1>4. log[run] \in Entry
  BY <1>3
<1>5. /\ entry \in Entry /\ entry.rc = log[run].rc /\ entry.free = log[run].free
      /\ entry.alive = Alive /\ entry.ready = (seen = Edges) /\ entry.asked = log[run].asked
  <2>1. Alive \in BOOLEAN
    BY DEF Alive
  <2> QED
    BY <1>4, <2>1 DEF Entry
<1> HIDE DEF entry
<1>6. /\ log' \in Seq(Entry) /\ Len(log') = Len(log) /\ log'[run] = entry
      /\ \A i \in 1 .. Len(log) : i # run => log'[i] = log[i]
  BY <1>2, <1>3, <1>5, EntryChanges
<1>7. HarnessTypes' /\ HarnessLog'
  <2>1. HarnessTypes'
    BY <1>1 DEF HarnessInv, HarnessTypes
  <2> QED
    BY <1>1, <1>3, <1>6, <2>1 DEF HarnessLog
<1>8. PollerSees'
  BY <1>1 DEF PollerSees
<1>9. rc' = 0 => seen = Edges /\ seen # <<>>
  BY <1>1, EdgesFacts DEF HarnessInv, PollerSees
<1>12. /\ run # 1 => log'[run - 1] = log[run - 1]
       /\ \A i \in 1 .. Len(log') : i < run /\ i # 1 => log'[i - 1] = log[i - 1]
  <2>1. /\ run # 1 => run - 1 \in 1 .. Len(log) /\ run - 1 # run
        /\ \A i \in 1 .. Len(log') : i < run /\ i # 1 => i - 1 \in 1 .. Len(log) /\ i - 1 # run
    BY <1>3, <1>6, HarnessFacts
  <2> QED
    BY <1>6, <2>1
<1>10. EnginesInOrder'
  <2>1. \A i \in Runs : i < run => run # 1
    BY HarnessFacts
  <2> QED
    BY <1>1, <1>9, <1>12, <2>1 DEF HarnessInv, EnginesInOrder
<1>11. Recorded'
  <2>1. \A i \in 1 .. Len(log') : i < run => i \in 1 .. Len(log) /\ log'[i] = log[i]
    BY <1>3, <1>6, HarnessFacts
  <2>2. \A i \in 1 .. Len(log') : i < run =>
          /\ status = 0 => Good(i)'
          /\ log'[i].rc = 1 => status = 1
    BY <1>1, <1>12, <2>1 DEF HarnessInv, Recorded, Good
  <2>3. /\ status = 0 /\ (run = 1 \/ log'[run - 1].asked) => log'[run].free
        /\ rc' = 0 => log'[run].ready /\ log'[run].alive
    BY <1>1, <1>5, <1>6, <1>9, <1>12 DEF HarnessInv, Recorded
  <2> QED
    BY <1>1, <2>2, <2>3 DEF Recorded
<1> QED
  BY <1>7, <1>8, <1>10, <1>11 DEF HarnessInv

(* After the grace the server is gone; its engine may not be. *)
LEMMA KillKeeps == ASSUME HarnessInv, Kill PROVE HarnessInv'
<1>1. /\ UNCHANGED <<flags, run, rc, status, engines, seen, poller, log>>
      /\ stage = "grace" /\ stage' = "drain" /\ api' = "dead"
  BY DEF Kill
<1>2. HarnessTypes' /\ HarnessLog' /\ Recorded'
  BY <1>1 DEF HarnessInv, HarnessTypes, HarnessLog, Recorded, Good
<1>3. PollerSees'
  BY <1>1 DEF HarnessInv, PollerSees
<1>4. EnginesInOrder'
  BY <1>1 DEF HarnessInv, EnginesInOrder
<1> QED
  BY <1>2, <1>3, <1>4 DEF HarnessInv

(* The GPU is free, the repeat fails, or there was no answer. *)
LEMMA DrainEndsKeeps == ASSUME HarnessInv, DrainEnds PROVE HarnessInv'
<1>0. PICK reading \in {"free", "held", "nothing"} :
        /\ reading = "free" => holders = {}
        /\ rc' = IF reading = "held" THEN 1 ELSE rc
        /\ log' = [log EXCEPT ![run].asked = (reading # "nothing"), ![run].drained = (holders = {}),
                              ![run].rc = rc']
  BY DEF DrainEnds
<1>01. /\ reading = "free" => holders = {}
       /\ rc' = IF reading = "held" THEN 1 ELSE rc
  BY <1>0
<1>02. rc' \in {rc, 1} /\ (rc' = 0 /\ reading # "nothing" => holders = {})
  BY <1>01
<1> DEFINE entry == [log[run] EXCEPT !.asked = (reading # "nothing"), !.drained = (holders = {}), !.rc = rc']
<1>1. /\ UNCHANGED <<flags, run, status, api, engines, seen, poller>>
      /\ stage = "drain" /\ stage' = "return"
      /\ rc' \in {rc, 1}
      /\ rc' = 0 /\ reading # "nothing" => holders = {}
  BY <1>02 DEF DrainEnds
<1>3. /\ log \in Seq(Entry) /\ Len(log) = run /\ run \in 1 .. Len(log)
      /\ rc' \in {0, 1}
  BY <1>1, HarnessFacts DEF HarnessInv, HarnessLog, HarnessTypes
<1>4. log[run] \in Entry
  BY <1>3
<1>2. log' = [log EXCEPT ![run] = entry]
  BY <1>0, <1>3, <1>4
<1>5. /\ entry \in Entry /\ entry.rc = rc' /\ entry.free = log[run].free
      /\ entry.alive = log[run].alive /\ entry.ready = log[run].ready /\ entry.drained = (holders = {})
      /\ entry.asked = (reading # "nothing")
  BY <1>3, <1>4 DEF Entry
<1> HIDE DEF entry
<1>6. /\ log' \in Seq(Entry) /\ Len(log') = Len(log) /\ log'[run] = entry
      /\ \A i \in 1 .. Len(log) : i # run => log'[i] = log[i]
  BY <1>2, <1>3, <1>5, EntryChanges
<1>7. HarnessTypes' /\ HarnessLog'
  <2>1. HarnessTypes'
    BY <1>1, <1>3 DEF HarnessInv, HarnessTypes
  <2> QED
    BY <1>1, <1>3, <1>6, <2>1 DEF HarnessLog
<1>8. PollerSees'
  BY <1>1 DEF HarnessInv, PollerSees
<1>9. rc' = 0 => rc = 0
  BY <1>1, <1>3 DEF HarnessInv, HarnessTypes
<1>12. /\ run # 1 => log'[run - 1] = log[run - 1]
       /\ \A i \in 1 .. Len(log') : i < run /\ i # 1 => log'[i - 1] = log[i - 1]
  <2>1. /\ run # 1 => run - 1 \in 1 .. Len(log) /\ run - 1 # run
        /\ \A i \in 1 .. Len(log') : i < run /\ i # 1 => i - 1 \in 1 .. Len(log) /\ i - 1 # run
    BY <1>3, <1>6, HarnessFacts
  <2> QED
    BY <1>6, <2>1
<1>10. EnginesInOrder'
  <2>1. ASSUME NEW i \in Runs, status = 0, rc' = 0, i <= run, log'[run].asked PROVE engines[i] = "gone"
    <3>1. holders = {}
      BY <1>1, <1>5, <1>6, <2>1
    <3>2. i < run \/ i = run
      BY <2>1, HarnessFacts
    <3>3. engines[i] \in {"holding", "gone"}
      BY <1>1, <1>9, <2>1, <3>2 DEF HarnessInv, EnginesInOrder
    <3> QED
      BY <3>1, <3>3 DEF holders
  <2>2. \A i \in Runs : i < run => run # 1
    BY HarnessFacts
  <2> QED
    BY <1>1, <1>9, <1>12, <2>1, <2>2 DEF HarnessInv, EnginesInOrder
<1>11. Recorded'
  <2>1. \A i \in 1 .. Len(log') : i < run => i \in 1 .. Len(log) /\ log'[i] = log[i]
    BY <1>3, <1>6, HarnessFacts
  <2>2. \A i \in 1 .. Len(log') : i < run =>
          /\ status = 0 => Good(i)'
          /\ log'[i].rc = 1 => status = 1
    BY <1>1, <1>12, <2>1 DEF HarnessInv, Recorded, Good
  <2>3. /\ status = 0 /\ (run = 1 \/ log'[run - 1].asked) => log'[run].free
        /\ rc' = 0 => log'[run].ready /\ log'[run].alive
        /\ log'[run].rc = rc' /\ (rc' = 0 /\ log'[run].asked => log'[run].drained)
    BY <1>1, <1>5, <1>6, <1>9, <1>12 DEF HarnessInv, Recorded
  <2> QED
    BY <1>1, <2>2, <2>3 DEF Recorded
<1> QED
  BY <1>7, <1>8, <1>10, <1>11 DEF HarnessInv

(* A call that never comes back. *)
LEMMA HarnessHangsKeeps == ASSUME HarnessInv, HarnessHangs PROVE HarnessInv'
<1>1. /\ UNCHANGED <<flags, run, rc, status, api, engines, seen, poller, log>>
      /\ stage \in {"launch", "grace", "drain"} /\ stage' = "stuck"
  BY DEF HarnessHangs
<1>2. HarnessTypes' /\ HarnessLog' /\ Recorded'
  BY <1>1 DEF HarnessInv, HarnessTypes, HarnessLog, Recorded, Good
<1>3. PollerSees'
  BY <1>1 DEF HarnessInv, PollerSees
<1>4. EnginesInOrder'
  BY <1>1 DEF HarnessInv, EnginesInOrder
<1> QED
  BY <1>2, <1>3, <1>4 DEF HarnessInv

(* A repeat that failed is in the status from here on. *)
LEMMA ReturnKeeps == ASSUME HarnessInv, Return PROVE HarnessInv'
<1>1. /\ UNCHANGED <<flags, rc, engines, seen, poller, log>>
      /\ stage = "return"
      /\ status' = IF rc # 0 THEN 1 ELSE status
      /\ \/ run = Repeat /\ stage' = "exit" /\ run' = run /\ api' = api
         \/ run # Repeat /\ stage' = "begin" /\ run' = run + 1 /\ api' = "none"
  BY DEF Return
<1>2. run' \in Runs /\ Len(log) = run /\ run' >= run /\ run' <= run + 1 /\ run' \in Nat
  BY <1>1, HarnessFacts, RepeatAssumption DEF HarnessInv, HarnessLog, Runs
<1>3. status' \in {0, 1} /\ rc \in {0, 1} /\ (status' = 0 => status = 0 /\ rc = 0)
      /\ (status = 1 => status' = 1) /\ (rc = 1 => status' = 1)
  BY <1>1 DEF HarnessInv, HarnessTypes
<1>4. HarnessTypes'
  BY <1>1, <1>2, <1>3 DEF HarnessInv, HarnessTypes
<1>5. HarnessLog'
  <2>1. log \in Seq(Entry)
    BY DEF HarnessInv, HarnessLog
  <2>2. stage' = "begin" => Len(log) = run' - 1
    BY <1>1, <1>2, HarnessFacts
  <2> QED
    BY <1>1, <1>2, <2>1, <2>2 DEF HarnessLog
<1>6. PollerSees'
  BY <1>1 DEF HarnessInv, PollerSees
<1>7. EnginesInOrder'
  <2>1. ASSUME NEW i \in Runs
        PROVE  /\ i > run' \/ (i = run' /\ stage' \in {"idle", "begin", "launch"}) => engines[i] = "none"
               /\ status' = 0 /\ i < run' => engines[i] \in {"holding", "gone"}
               /\ status' = 0 /\ i < run' /\ log[run' - 1].asked => engines[i] = "gone"
    <3>1. i > run' \/ (i = run' /\ stage' \in {"idle", "begin", "launch"}) => i > run
      <4>1. stage' \in {"idle", "begin", "launch"} => run' = run + 1
        BY <1>1, Zenon
      <4>2. i \in Nat /\ run \in Nat /\ run' \in Nat /\ run' >= run
        BY <1>2, HarnessFacts, Zenon
      <4> QED
        BY <4>1, <4>2
    <3>2. i < run' => i < run \/ i = run
      <4>1. i \in Nat /\ run \in Nat /\ run' \in Nat /\ run' <= run + 1
        BY <1>2, HarnessFacts, Zenon
      <4> QED
        BY <4>1
    <3>3. status' = 0 => engines[run] \in {"holding", "gone"}
      BY <1>1, <1>3 DEF HarnessInv, EnginesInOrder
    <3>4. /\ i > run => engines[i] = "none"
          /\ status = 0 /\ i < run => engines[i] \in {"holding", "gone"}
          /\ status = 0 /\ i < run /\ log[run - 1].asked => engines[i] = "gone"
          /\ status = 0 /\ rc = 0 /\ i <= run /\ log[run].asked => engines[i] = "gone"
      BY <1>1 DEF HarnessInv, EnginesInOrder
    <3>5. \/ run' = run
          \/ run' - 1 = run /\ (i < run' => i <= run)
      <4>1. run' = run \/ run' = run + 1
        BY <1>1
      <4>2. i \in Nat /\ run \in Nat
        BY HarnessFacts
      <4> QED
        BY <4>1, <4>2
    <3>6. status' = 0 /\ i < run' /\ log[run' - 1].asked => engines[i] = "gone"
      BY <1>3, <3>4, <3>5
    <3> QED
      BY <1>3, <3>1, <3>2, <3>3, <3>4, <3>6
  <2>2. api' \notin {"starting", "listening", "healthy", "serving"}
    BY <1>1 DEF HarnessInv, EnginesInOrder
  <2> QED
    BY <1>1, <2>1, <2>2 DEF EnginesInOrder
<1>8. Recorded'
  <2>1. ASSUME NEW i \in 1 .. Len(log)
        PROVE  /\ status' = 0 => Good(i)
               /\ log[i].rc = 1 => status' = 1
    <3>1. i < run \/ i = run
      BY <1>2, HarnessFacts
    <3>2. CASE i < run
      BY <1>3, <3>2 DEF HarnessInv, Recorded
    <3>3. CASE i = run
      BY <1>1, <1>3, <3>3 DEF HarnessInv, Recorded, Good
    <3> QED
      BY <3>1, <3>2, <3>3
  <2>2. \A i : Good(i)' = Good(i)
    BY <1>1 DEF Good
  <2> QED
    BY <1>1, <2>1, <2>2 DEF Recorded
<1> QED
  BY <1>4, <1>5, <1>6, <1>7, <1>8 DEF HarnessInv

(* So every step keeps it. *)
LEMMA HarnessKeeps == ASSUME HarnessInv, [HarnessNext]_harnessVars PROVE HarnessInv'
<1>1. CASE UNCHANGED harnessVars
  BY <1>1 DEF harnessVars, HarnessInv, HarnessTypes, HarnessLog, PollerSees, EnginesInOrder, Recorded,
              Good, Edges
<1> QED
  BY <1>1, ServerKeeps, PollerKeeps, BeginKeeps, LaunchKeeps, CheckAliveKeeps, KillKeeps, DrainEndsKeeps,
     ReturnKeeps, HarnessHangsKeeps DEF HarnessNext

(* With it, a success is comparable. *)
LEMMA HarnessCompares == ASSUME HarnessInv PROVE SuccessIsComparable
<1>1. log \in Seq(Entry) /\ DOMAIN log = 1 .. Len(log)
  BY DEF HarnessInv, HarnessLog
<1>2. ASSUME stage = "exit", status = 0
      PROVE  /\ Len(log) = Repeat
             /\ \A i \in Runs : Good(i)
  <2>1. Len(log) = Repeat
    BY <1>2 DEF HarnessInv, HarnessLog
  <2> QED
    BY <1>2, <2>1 DEF HarnessInv, Recorded, Runs
<1>3. \A i \in DOMAIN log : log[i].rc = 1 /\ i < run => status = 1
  BY <1>1 DEF HarnessInv, Recorded
<1> QED
  BY <1>2, <1>3 DEF SuccessIsComparable, Good

(* What the harness, the driver and one trace directory compare is comparable:
   every repeat behind exit status 0 came up, was alive, and, if the drain had an
   answer to go by, left a free GPU and so the next began with one; the samples of a trace are of one process; no launch was measured
   while an earlier one's instance lived unknown to it. *)
THEOREM Comparable == Spec => []RunsAreComparable
<1> DEFINE Inv == HarnessInv /\ ElectionInv /\ DriveInv
<1>1. Init => Inv
  BY HarnessStarts, ElectionStarts, DriveStarts DEF Init
<1>2. Inv /\ [Next]_allVars => Inv'
  <2> SUFFICES ASSUME Inv, [Next]_allVars PROVE Inv'
    OBVIOUS
  <2>1. [HarnessNext]_harnessVars
    BY DEF Next, allVars
  <2>2. [ElectionNext]_electionVars
    BY DEF Next, allVars
  <2>3. [DriveNext]_driveVars
    BY DEF Next, allVars
  <2> QED
    BY <2>1, <2>2, <2>3, HarnessKeeps, ElectionKeeps, DriveKeeps
<1>3. Inv => RunsAreComparable
  BY HarnessCompares, ElectionIsOne, DriveIsApart DEF RunsAreComparable
<1> QED
  BY <1>1, <1>2, <1>3, PTL DEF Spec

----------------------------------------------------------------------------
(* The threads of an arm: ArmIsTrue. *)

ArmTypes ==
  /\ nthreads \in {0} \cup ThreadsOf /\ rep \in 1 .. Reps
  /\ main \in {"idle", "units", "serial", "arrive", "waiting", "join", "judge", "done", "stuck"}
  /\ worker \in [AllThreads -> {"none", "warmup", "arrive", "waiting", "capture", "abort", "ended"}]
  /\ left \in [AllThreads -> Seq(Units)]
  /\ barrier \in [state : {"filling", "draining", "broken"}, in : SUBSET Parties]
  /\ captured \subseteq Units \X Nat
  /\ spans \subseteq Threads /\ errors \subseteq Parties
  /\ hasty \in BOOLEAN

(* A unit is captured by the thread it was dealt to. *)
Dealt ==
  /\ main = "serial" => nthreads = 0
  /\ nthreads = 0 => \A c \in captured : c[2] = 0
  /\ nthreads # 0 =>
       /\ \A t \in Threads : \A i \in 1 .. Len(left[t]) : (left[t][i] - t) % nthreads = 0
       /\ \A c \in captured : c[2] \in Threads /\ (c[1] - c[2]) % nthreads = 0

(* Who is in the barrier waits, and it has let nobody through before all came. *)
BarrierHolds ==
  /\ \A t \in Threads : t \in barrier.in => worker[t] = "waiting"
  /\ barrier.state = "draining" \/ (\E t \in Threads : worker[t] = "capture") =>
       \A t \in Threads : worker[t] \notin {"warmup", "arrive"}

(* A thread that is over has left its span or an error. *)
EndsAreReported ==
  /\ \A t \in Threads : /\ worker[t] = "ended" => t \in spans \cup errors
                        /\ worker[t] = "abort" => t \in errors
  /\ main \in {"judge", "done"} /\ ~ hasty => \A t \in Threads : worker[t] = "ended"

ArmResult ==
  /\ result # "none" => main = "done"
  /\ result = "ok" => rep = Reps /\ Counted /\ (~ hasty => errors = {})

ArmInv == ArmTypes /\ Dealt /\ BarrierHolds /\ EndsAreReported /\ ArmResult

(* Sizes of an arm, and its threads. *)
LEMMA ArmFacts ==
  ASSUME ArmTypes
  PROVE  /\ Graphs \in Nat \ {0} /\ nthreads \in Nat
         /\ Threads \subseteq AllThreads /\ Host \notin Threads /\ Threads \subseteq Parties
         /\ Host \in Parties /\ Parties \subseteq Nat /\ 1 \in AllThreads /\ 0 \in Nat
BY CaptureAssumption DEF ArmTypes, Threads, AllThreads, Units, Host, Parties

(* Every thread gets the units of its own residue class. *)
LEMMA ChunkIsDealt ==
  ASSUME ArmTypes, NEW t \in Threads
  PROVE  /\ Chunk(t) \in Seq(Units)
         /\ \A i \in 1 .. Len(Chunk(t)) : (Chunk(t)[i] - t) % nthreads = 0
<1> DEFINE n == nthreads
           len == ((Graphs - t) \div n) + 1
<1>1. n \in Nat \ {0} /\ t \in Nat /\ t >= 1 /\ t <= n /\ Graphs \in Nat
  BY ArmFacts DEF Threads
<1>2. len \in Nat
  BY <1>1
<1>3. ASSUME NEW i \in 1 .. len
      PROVE  t + (i - 1) * n \in Units /\ ((t + (i - 1) * n) - t) % n = 0
  <2> HIDE DEF n
  <2>0. (Graphs - t) \div n \in Int
    BY <1>1
  <2>1. i \in Nat /\ i - 1 \in Nat /\ i - 1 <= (Graphs - t) \div n
    BY <1>2, <2>0
  <2>2. (i - 1) * n \in Nat
    BY <1>1, <2>1
  <2>3. n * ((Graphs - t) \div n) <= Graphs - t
    BY <1>1
  <2>4. \A x, y \in Int : x <= y => x * n <= n * y
    BY <1>1
  <2>6. (i - 1) * n <= Graphs - t
    BY <1>1, <2>0, <2>1, <2>2, <2>3, <2>4
  <2>7. t + (i - 1) * n \in Units
    BY <1>1, <2>2, <2>6 DEF Units
  <2>8. (t + (i - 1) * n) - t = (i - 1) * n
    BY <1>1, <2>2
  <2>9. ((i - 1) * n) % n = 0
    BY <1>1, <2>1
  <2> QED
    BY <2>7, <2>8, <2>9
<1>4. Chunk(t) = [i \in 1 .. len |-> t + (i - 1) * n]
  BY DEF Chunk
<1> HIDE DEF n, len
<1>5. Chunk(t) \in [1 .. len -> Units]
  BY <1>3, <1>4
<1>6. Chunk(t) \in Seq(Units) /\ Len(Chunk(t)) = len
  BY <1>2, <1>5
<1>7. \A i \in 1 .. len : Chunk(t)[i] = t + (i - 1) * n
  BY <1>4
<1>8. ASSUME NEW i \in 1 .. len PROVE (Chunk(t)[i] - t) % n = 0
  <2>1. Chunk(t)[i] = t + (i - 1) * n
    BY <1>7
  <2>2. ((t + (i - 1) * n) - t) % n = 0
    BY <1>3
  <2> QED
    BY <2>1, <2>2, Zenon
<1> QED
  BY <1>6, <1>8, Zenon DEF n

(* Threads of the same residue are the same. *)
LEMMA OneOwner ==
  ASSUME NEW n \in Nat \ {0}, NEW u \in Int, NEW s \in 1 .. n, NEW t \in 1 .. n,
         (u - s) % n = 0, (u - t) % n = 0
  PROVE  s = t
<1>1. ASSUME NEW a \in Int, a % n = 0 PROVE \E q \in Int : a = n * q
  <2>1. a = n * (a \div n) + (a % n) /\ a \div n \in Int
    OBVIOUS
  <2>2. a = n * (a \div n)
    BY <1>1, <2>1
  <2> QED
    BY <2>1, <2>2, Zenon
<1>2. PICK p \in Int : u - s = n * p
  <2>1. u - s \in Int
    OBVIOUS
  <2> QED
    BY <1>1, <2>1, Zenon
<1>3. PICK q \in Int : u - t = n * q
  <2>1. u - t \in Int
    OBVIOUS
  <2> QED
    BY <1>1, <2>1, Zenon
<1>4. n * p \in Int /\ n * q \in Int
  OBVIOUS
<1>5. s + n * p = t + n * q
  BY <1>2, <1>3, <1>4
<1> QED
  BY <1>5

(* It holds at the start. *)
LEMMA ArmStarts == ArmInit \/ ArmIdle => ArmInv
<1> SUFFICES ASSUME ArmInit \/ ArmIdle PROVE ArmInv
  OBVIOUS
<1>1. /\ nthreads \in {0} \cup ThreadsOf /\ rep = 1 /\ main \in {"idle", "units"}
      /\ worker = [t \in AllThreads |-> "none"] /\ left = [t \in AllThreads |-> <<>>]
      /\ barrier = Opened /\ captured = {} /\ spans = {} /\ errors = {} /\ hasty = FALSE
      /\ result = "none"
  <2>1. CASE ArmInit
    BY <2>1, CaptureAssumption DEF ArmInit, ArmStart
  <2>2. CASE ArmIdle
    BY <2>2, CaptureAssumption DEF ArmIdle, ArmStart
  <2> QED
    BY <2>1, <2>2
<1>2. ArmTypes
  <2>1. worker \in [AllThreads -> {"none", "warmup", "arrive", "waiting", "capture", "abort", "ended"}]
    BY <1>1
  <2>2. left \in [AllThreads -> Seq(Units)]
    BY <1>1
  <2>3. barrier \in [state : {"filling", "draining", "broken"}, in : SUBSET Parties]
    BY <1>1 DEF Opened
  <2>4. rep \in 1 .. Reps
    BY <1>1, CaptureAssumption
  <2> QED
    BY <1>1, <2>1, <2>2, <2>3, <2>4 DEF ArmTypes
<1>3. Dealt
  <2>1. \A t \in Threads : left[t] = <<>> /\ Len(left[t]) = 0
    BY <1>1, <1>2, ArmFacts
  <2> QED
    BY <1>1, <2>1 DEF Dealt
<1>4. \A t \in Threads : worker[t] = "none" /\ t \notin barrier.in
  BY <1>1, <1>2, ArmFacts DEF Opened
<1>5. BarrierHolds /\ EndsAreReported /\ ArmResult
  BY <1>1, <1>4 DEF BarrierHolds, EndsAreReported, ArmResult, Opened
<1> QED
  BY <1>2, <1>3, <1>5 DEF ArmInv

(* A repetition begins. *)
LEMMA MakeUnitsKeeps == ASSUME ArmInv, MakeUnits PROVE ArmInv'
<1> USE DEF ArmInv
<1>1. /\ main = "units" /\ UNCHANGED <<nthreads, rep, result>>
      /\ captured' = {} /\ spans' = {} /\ errors' = {} /\ barrier' = Opened /\ hasty' = FALSE
      /\ result = "none"
  BY DEF MakeUnits, ArmResult
<1>2. Threads' = Threads /\ Parties' = Parties
  BY <1>1 DEF Threads, Parties
<1>3. CASE nthreads = 0
  <2>1. /\ main' = "serial" /\ left' = [left EXCEPT ![1] = [u \in Units |-> u]] /\ worker' = worker
        /\ Threads = {}
    BY <1>1, <1>3 DEF MakeUnits, Threads
  <2>2. [u \in Units |-> u] \in Seq(Units)
    BY ArmFacts DEF Units
  <2>3. ArmTypes'
    BY <1>1, <1>2, <2>1, <2>2 DEF ArmTypes, Opened
  <2> QED
    BY <1>1, <1>2, <1>3, <2>1, <2>3 DEF Dealt, BarrierHolds, EndsAreReported, ArmResult
<1>4. CASE nthreads # 0
  <2>1. /\ main' = "arrive"
        /\ left' = [t \in AllThreads |-> IF t \in Threads THEN Chunk(t) ELSE <<>>]
        /\ worker' = [t \in AllThreads |-> IF t \in Threads THEN "warmup" ELSE "none"]
    BY <1>1, <1>4 DEF MakeUnits
  <2>2. \A t \in Threads : t \in AllThreads /\ left'[t] = Chunk(t) /\ worker'[t] = "warmup"
    BY <2>1, ArmFacts
  <2>3. left' \in [AllThreads -> Seq(Units)]
    <3>1. \A t \in AllThreads : (IF t \in Threads THEN Chunk(t) ELSE <<>>) \in Seq(Units)
      BY ChunkIsDealt
    <3> QED
      BY <2>1, <3>1
  <2>4. ArmTypes'
    BY <1>1, <1>2, <2>1, <2>3 DEF ArmTypes, Opened
  <2>5. Dealt'
    BY <1>1, <1>2, <1>4, <2>1, <2>2, ChunkIsDealt DEF Dealt
  <2> QED
    BY <1>1, <1>2, <2>1, <2>2, <2>4, <2>5 DEF BarrierHolds, EndsAreReported, ArmResult, Opened
<1> QED
  BY <1>3, <1>4

(* A serial arm. *)
LEMMA SerialKeeps == ASSUME ArmInv, CaptureSerially \/ SerialEnds PROVE ArmInv'
<1> USE DEF ArmInv
<1>1. /\ main = "serial" /\ nthreads = 0 /\ Threads = {} /\ result = "none"
      /\ UNCHANGED <<nthreads, rep, worker, barrier, spans, errors, hasty>>
  BY DEF CaptureSerially, SerialEnds, Dealt, Threads, ArmResult
<1>2. Threads' = Threads /\ Parties' = Parties
  BY <1>1 DEF Threads, Parties
<1>3. left[1] \in Seq(Units) /\ 1 \in AllThreads
  BY ArmFacts DEF ArmTypes
<1>4. \/ /\ left[1] # <<>> /\ captured' = captured \cup {<<Head(left[1]), 0>>}
         /\ left' = [left EXCEPT ![1] = Tail(@)] /\ main' = main /\ result' = result
      \/ main' \in {"judge", "done"} /\ result' \in {"none", "raised"} /\ UNCHANGED <<captured, left>>
         /\ (result' # "none" => main' = "done")
  BY <1>1 DEF CaptureSerially, SerialEnds
<1>5. /\ left' \in [AllThreads -> Seq(Units)]
      /\ captured' \subseteq Units \X Nat
      /\ \A c \in captured' : c[2] = 0
  <2>1. CASE UNCHANGED <<captured, left>>
    BY <1>1, <2>1 DEF ArmTypes, Dealt
  <2>2. CASE /\ left[1] # <<>> /\ captured' = captured \cup {<<Head(left[1]), 0>>}
             /\ left' = [left EXCEPT ![1] = Tail(@)]
    <3>1. Head(left[1]) \in Units /\ Tail(left[1]) \in Seq(Units) /\ 0 \in Nat
      BY <1>3, <2>2, ArmFacts
    <3>2. <<Head(left[1]), 0>> \in Units \X Nat /\ <<Head(left[1]), 0>>[2] = 0
      BY <3>1
    <3>3. left' \in [AllThreads -> Seq(Units)]
      BY <2>2, <3>1 DEF ArmTypes
    <3>4. captured \subseteq Units \X Nat /\ \A c \in captured : c[2] = 0
      BY <1>1 DEF ArmTypes, Dealt
    <3> QED
      BY <2>2, <3>2, <3>3, <3>4
  <2> QED
    BY <1>4, <2>1, <2>2
<1>6. ArmTypes'
  BY <1>1, <1>2, <1>4, <1>5 DEF ArmTypes
<1> QED
  BY <1>1, <1>2, <1>4, <1>5, <1>6 DEF Dealt, BarrierHolds, EndsAreReported, ArmResult

(* Main at the barrier. *)
LEMMA MainBarrierKeeps == ASSUME ArmInv, MainArrives \/ MainLeaves PROVE ArmInv'
<1> USE DEF ArmInv
<1>1. /\ main \in {"arrive", "waiting"} /\ main' \in {"waiting", "join"} /\ result = "none"
      /\ UNCHANGED <<nthreads, rep, worker, left, captured, spans, errors, hasty, result>>
  BY DEF MainArrives, MainLeaves, ArmResult
<1>2. Threads' = Threads /\ Parties' = Parties
  BY <1>1 DEF Threads, Parties
<1>3. /\ barrier.state \in {"filling", "draining", "broken"} /\ barrier.in \subseteq Parties
      /\ barrier = [state |-> barrier.state, in |-> barrier.in]
  BY DEF ArmTypes
<1>4. /\ barrier' \in [state : {"filling", "draining", "broken"}, in : SUBSET Parties]
      /\ \A t \in Threads : t \in barrier'.in => t \in barrier.in
      /\ barrier'.state = "draining" =>
           barrier.state = "draining" \/ barrier.in \cup {Host} = Parties
  <2>1. CASE MainArrives
    <3>1. \/ barrier' = barrier
          \/ IsLast(Host) /\ barrier' = [barrier EXCEPT !.state = "draining"]
          \/ ~ IsLast(Host) /\ barrier' = [barrier EXCEPT !.in = @ \cup {Host}]
      BY <2>1 DEF MainArrives, Arrives
    <3> QED
      BY <1>3, <3>1, ArmFacts DEF IsLast, ArmTypes
  <2>2. CASE MainLeaves
    <3>1. \/ barrier' = [state |-> "broken", in |-> barrier.in \ {Host}]
          \/ \E s \in {barrier.state, "filling"} : barrier' = [state |-> s, in |-> barrier.in \ {Host}]
      BY <2>2 DEF MainLeaves, Leaves
    <3> QED
      BY <1>3, <3>1
  <2> QED
    BY <2>1, <2>2
<1>5. ArmTypes'
  BY <1>1, <1>2, <1>4 DEF ArmTypes
<1>6. BarrierHolds'
  <2>1. barrier.in \cup {Host} = Parties => \A t \in Threads : worker[t] = "waiting"
    BY <1>1, ArmFacts DEF BarrierHolds
  <2> QED
    BY <1>1, <1>2, <1>4, <2>1 DEF BarrierHolds
<1> QED
  BY <1>1, <1>2, <1>5, <1>6 DEF Dealt, EndsAreReported, ArmResult

(* Main joins its threads, and judges. *)
LEMMA JoinKeeps == ASSUME ArmInv, Join PROVE ArmInv'
<1> USE DEF ArmInv
<1>1. /\ main = "join" /\ main' = "judge" /\ result = "none"
      /\ UNCHANGED <<nthreads, rep, worker, left, barrier, captured, spans, result>>
      /\ hasty' = (\E t \in Threads : worker[t] # "ended")
      /\ errors' = errors \/ errors' = errors \cup {Host}
  BY DEF Join, ArmResult
<1>2. Threads' = Threads /\ Parties' = Parties
  BY <1>1 DEF Threads, Parties
<1>3. hasty' \in BOOLEAN /\ (~ hasty' => \A t \in Threads : worker[t] = "ended")
  BY <1>1, Zenon
<1>4. ArmTypes'
  BY <1>1, <1>2, <1>3, ArmFacts DEF ArmTypes
<1>5. EndsAreReported'
  BY <1>1, <1>2, <1>3 DEF EndsAreReported
<1> QED
  BY <1>1, <1>2, <1>4, <1>5 DEF Dealt, BarrierHolds, ArmResult

(* As above. *)
LEMMA JudgeKeeps == ASSUME ArmInv, JudgeArm PROVE ArmInv'
<1> USE DEF ArmInv
<1>1. /\ main = "judge" /\ main' \in {"done", "units"} /\ result = "none"
      /\ UNCHANGED <<nthreads, worker, left, barrier, captured, spans, errors, hasty>>
      /\ rep' = rep \/ (rep < Reps /\ rep' = rep + 1)
      /\ result' # "none" => main' = "done"
      /\ result' = "ok" => rep' = rep /\ rep = Reps /\ Counted /\ errors = {}
  <2>1. /\ main = "judge" /\ result = "none"
        /\ UNCHANGED <<nthreads, worker, left, barrier, captured, spans, errors, hasty>>
    BY DEF JudgeArm, ArmResult
  <2> HIDE DEF ArmInv
  <2>2. \/ main' = "done" /\ result' \in {"error", "raised"} /\ rep' = rep
        \/ main' = "done" /\ result' = "ok" /\ rep' = rep /\ rep = Reps /\ Counted /\ errors = {}
        \/ main' = "units" /\ result' = result /\ rep < Reps /\ rep' = rep + 1
    BY DEF JudgeArm
  <2>3. /\ main' \in {"done", "units"} /\ (result' # "none" => main' = "done")
        /\ rep' = rep \/ (rep < Reps /\ rep' = rep + 1)
    BY <2>1, <2>2
  <2>4. result' = "ok" => rep' = rep /\ rep = Reps /\ Counted /\ errors = {}
    BY <2>1, <2>2
  <2> QED
    BY <2>1, <2>3, <2>4, Zenon
<1>2. Threads' = Threads /\ Parties' = Parties /\ Counted' = Counted
  BY <1>1 DEF Threads, Parties, Counted
<1>3. rep' \in 1 .. Reps
  BY <1>1, CaptureAssumption DEF ArmTypes
<1>4. ArmTypes'
  BY <1>1, <1>2, <1>3 DEF ArmTypes
<1> QED
  BY <1>1, <1>2, <1>4 DEF Dealt, BarrierHolds, EndsAreReported, ArmResult

(* A thread that raises. *)
LEMMA RaiseFacts ==
  ASSUME ArmTypes, NEW t \in Threads, Raise(t)
  PROVE  /\ errors' = errors \cup {t} /\ errors' \subseteq Parties
         /\ worker'[t] = "abort"
         /\ \A u \in Threads \ {t} : worker'[u] = worker[u]
         /\ worker' \in [AllThreads -> {"none", "warmup", "arrive", "waiting", "capture", "abort", "ended"}]
BY ArmFacts DEF Raise, ArmTypes

(* The steps of a thread before and in the barrier, and the abort. *)
LEMMA ThreadAtBarrierKeeps ==
  ASSUME ArmInv, NEW t \in Threads,
         Warmup(t) \/ WorkerArrives(t) \/ WorkerLeaves(t) \/ WorkerTiresOfWaiting(t) \/ Abort(t)
  PROVE  ArmInv'
<1> USE DEF ArmInv
<1>1. UNCHANGED <<nthreads, rep, main, left, captured, spans, hasty, result>>
  BY DEF Warmup, WorkerArrives, WorkerLeaves, WorkerTiresOfWaiting, Abort
<1>2. Threads' = Threads /\ Parties' = Parties /\ Counted' = Counted
  BY <1>1 DEF Threads, Parties, Counted
<1>3. /\ barrier.state \in {"filling", "draining", "broken"} /\ barrier.in \subseteq Parties
      /\ barrier = [state |-> barrier.state, in |-> barrier.in]
      /\ t \in Parties /\ t \in AllThreads
  BY ArmFacts DEF ArmTypes
<1>4. /\ worker[t] \in {"warmup", "arrive", "waiting", "abort"} /\ worker[t] # "ended"
      /\ \A u \in Threads \ {t} : worker'[u] = worker[u]
      /\ worker' \in [AllThreads -> {"none", "warmup", "arrive", "waiting", "capture", "abort", "ended"}]
      /\ errors \subseteq errors' /\ errors' \subseteq Parties
      /\ \/ worker'[t] = "abort" /\ t \in errors'
         \/ worker'[t] = "ended" /\ worker[t] = "abort" /\ errors' = errors
         \/ worker'[t] \in {"arrive", "waiting", "capture"} /\ errors' = errors
  <2>1. CASE \E u \in {t} : Raise(u)
    BY <2>1, RaiseFacts DEF Warmup, WorkerArrives, WorkerLeaves, WorkerTiresOfWaiting, Abort
  <2>2. CASE ~ Raise(t)
    <3>1. \E p \in {"arrive", "waiting", "capture", "ended"} :
            /\ worker' = [worker EXCEPT ![t] = p] /\ errors' = errors
            /\ p = "ended" => worker[t] = "abort"
      <4>1. CASE Warmup(t)
        BY <2>2, <4>1 DEF Warmup
      <4>2. CASE WorkerArrives(t)
        BY <2>2, <4>2 DEF WorkerArrives
      <4>3. CASE WorkerLeaves(t)
        BY <2>2, <4>3 DEF WorkerLeaves
      <4>4. CASE WorkerTiresOfWaiting(t)
        BY <2>2, <4>4 DEF WorkerTiresOfWaiting
      <4>5. CASE Abort(t)
        BY <4>5 DEF Abort
      <4> QED
        BY <4>1, <4>2, <4>3, <4>4, <4>5
    <3>2. worker[t] \in {"warmup", "arrive", "waiting", "abort"}
      BY DEF Warmup, WorkerArrives, WorkerLeaves, WorkerTiresOfWaiting, Abort
    <3>3. errors \subseteq Parties
      BY DEF ArmTypes
    <3> QED
      BY <1>3, <3>1, <3>2, <3>3 DEF ArmTypes
  <2> QED
    BY <2>1, <2>2
<1>5. /\ barrier' \in [state : {"filling", "draining", "broken"}, in : SUBSET Parties]
      /\ \A u \in Threads : u \in barrier'.in => u \in barrier.in \/ (u = t /\ worker'[t] = "waiting")
      /\ worker[t] = "waiting" => t \notin barrier'.in
      /\ barrier'.state = "draining" =>
           barrier.state = "draining" \/ (barrier.in \cup {t} = Parties /\ worker'[t] = "capture")
      /\ worker'[t] = "capture" =>
           barrier.state = "draining" \/ barrier.in \cup {t} = Parties
  <2>1. CASE Warmup(t)
    BY <1>3, <2>1 DEF Warmup, Raise, ArmTypes
  <2>2. CASE WorkerArrives(t)
    <3>1. CASE Open
      <4>1. CASE IsLast(t)
        <5>1. barrier' = [barrier EXCEPT !.state = "draining"] /\ worker'[t] = "capture"
              /\ worker[t] = "arrive"
          BY <1>3, <2>2, <3>1, <4>1 DEF WorkerArrives, Arrives, ArmTypes
        <5> QED
          BY <1>3, <4>1, <5>1 DEF IsLast
      <4>2. CASE ~ IsLast(t)
        <5>1. barrier' = [barrier EXCEPT !.in = @ \cup {t}] /\ worker'[t] = "waiting"
              /\ worker[t] = "arrive"
          BY <1>3, <2>2, <3>1, <4>2 DEF WorkerArrives, Arrives, ArmTypes
        <5> QED
          BY <1>3, <5>1
      <4> QED
        BY <4>1, <4>2
    <3>2. CASE ~ Open
      BY <1>3, <2>2, <3>2 DEF WorkerArrives, Raise, ArmTypes
    <3> QED
      BY <3>1, <3>2
  <2>3. CASE WorkerLeaves(t)
    <3>1. \E s \in {barrier.state, "filling"} : barrier' = [state |-> s, in |-> barrier.in \ {t}]
      BY <2>3 DEF WorkerLeaves, Leaves
    <3>2. worker'[t] = "capture" => barrier.state = "draining"
      BY <1>3, <2>3 DEF WorkerLeaves, Raise, ArmTypes
    <3> QED
      BY <1>3, <3>1, <3>2
  <2>4. CASE WorkerTiresOfWaiting(t)
    <3>1. barrier' = [state |-> "broken", in |-> barrier.in \ {t}] /\ worker'[t] = "abort"
      BY <1>3, <2>4 DEF WorkerTiresOfWaiting, Raise, ArmTypes
    <3> QED
      BY <1>3, <3>1
  <2>5. CASE Abort(t)
    <3>1. barrier' = [barrier EXCEPT !.state = "broken"] /\ worker[t] = "abort" /\ worker'[t] = "ended"
      BY <1>3, <2>5 DEF Abort, Aborted, ArmTypes
    <3> QED
      BY <1>3, <3>1
  <2> QED
    BY <2>1, <2>2, <2>3, <2>4, <2>5
<1>6. ArmTypes'
  BY <1>1, <1>2, <1>4, <1>5 DEF ArmTypes
<1>7. BarrierHolds'
  <2> SUFFICES /\ \A u \in Threads : u \in barrier'.in => worker'[u] = "waiting"
               /\ barrier'.state = "draining" \/ (\E u \in Threads : worker'[u] = "capture") =>
                    \A u \in Threads : worker'[u] \notin {"warmup", "arrive"}
    BY <1>1, <1>2 DEF BarrierHolds
  <2>1. \A u \in Threads : u \in barrier.in => worker[u] = "waiting"
    BY DEF BarrierHolds
  <2>2. barrier.in \cup {t} = Parties => \A u \in Threads \ {t} : worker[u] = "waiting"
    BY <2>1, ArmFacts
  <2>3. \A u \in Threads : u \in barrier'.in => worker'[u] = "waiting"
    BY <1>4, <1>5, <2>1
  <2>4. ASSUME barrier'.state = "draining" \/ (\E u \in Threads : worker'[u] = "capture"), NEW u \in Threads
        PROVE  worker'[u] \notin {"warmup", "arrive"}
    <3>1. CASE worker'[t] = "capture" /\ barrier.in \cup {t} = Parties
      BY <1>4, <2>2, <3>1
    <3>2. CASE barrier.state = "draining" \/ \E x \in Threads : worker[x] = "capture"
      <4>1. \A x \in Threads : worker[x] \notin {"warmup", "arrive"}
        BY <3>2 DEF BarrierHolds
      <4>2. worker'[t] # "arrive"
        <5>1. worker[t] # "warmup"
          BY <4>1
        <5>2. worker'[t] = "arrive" => Warmup(t)
          BY <1>3 DEF WorkerArrives, WorkerLeaves, WorkerTiresOfWaiting, Abort, Raise, ArmTypes
        <5> QED
          BY <5>1, <5>2 DEF Warmup
      <4> QED
        BY <1>4, <4>1, <4>2
    <3> QED
      BY <1>4, <1>5, <2>4, <3>1, <3>2
  <2> QED
    BY <2>3, <2>4
<1>8. EndsAreReported'
  BY <1>1, <1>2, <1>4 DEF EndsAreReported
<1>9. ArmResult'
  <2>1. result = "ok" /\ ~ hasty => worker[t] = "ended"
    BY DEF ArmResult, EndsAreReported
  <2> QED
    BY <1>1, <1>2, <1>4, <2>1 DEF ArmResult
<1> QED
  BY <1>1, <1>2, <1>6, <1>7, <1>8, <1>9 DEF Dealt

(* A capture, of the thread's own unit, and its end. *)
LEMMA ThreadCapturesKeeps ==
  ASSUME ArmInv, NEW t \in Threads, CaptureOne(t) \/ WorkerEnds(t)
  PROVE  ArmInv'
<1> USE DEF ArmInv
<1>1. UNCHANGED <<nthreads, rep, main, barrier, hasty, result>>
  BY DEF CaptureOne, WorkerEnds
<1>2. Threads' = Threads /\ Parties' = Parties /\ t \in AllThreads /\ nthreads # 0 /\ t \in Nat
  BY <1>1, ArmFacts DEF Threads, Parties
<1>3. /\ worker[t] = "capture"
      /\ \/ worker' = worker /\ errors' = errors
         \/ Raise(t)
         \/ worker' = [worker EXCEPT ![t] = "ended"] /\ errors' = errors /\ spans' = spans \cup {t}
      /\ spans' = spans \/ spans' = spans \cup {t}
      /\ \/ left' = left /\ captured' = captured
         \/ /\ left[t] # <<>> /\ left' = [left EXCEPT ![t] = Tail(@)]
            /\ captured' = captured \cup {<<Head(left[t]), t>>}
  BY DEF CaptureOne, WorkerEnds
<1>4. /\ \A u \in Threads \ {t} : worker'[u] = worker[u]
      /\ worker' \in [AllThreads -> {"none", "warmup", "arrive", "waiting", "capture", "abort", "ended"}]
      /\ errors \subseteq errors' /\ errors' \subseteq Parties
      /\ \/ worker'[t] = "capture" /\ errors' = errors
         \/ worker'[t] = "abort" /\ t \in errors'
         \/ worker'[t] = "ended" /\ t \in spans'
      /\ spans \subseteq spans' /\ spans' \subseteq Threads
  <2>1. CASE Raise(t)
    BY <1>3, <2>1, RaiseFacts DEF ArmTypes
  <2>2. CASE worker' = worker /\ errors' = errors
    BY <1>2, <1>3, <2>2 DEF ArmTypes
  <2>3. CASE worker' = [worker EXCEPT ![t] = "ended"] /\ errors' = errors /\ spans' = spans \cup {t}
    BY <1>2, <2>3 DEF ArmTypes
  <2> QED
    BY <1>3, <2>1, <2>2, <2>3, Zenon
<1>5. /\ left' \in [AllThreads -> Seq(Units)] /\ captured' \subseteq Units \X Nat
      /\ captured \subseteq captured'
      /\ \A u \in Threads : \A i \in 1 .. Len(left'[u]) : (left'[u][i] - u) % nthreads = 0
      /\ \A c \in captured' : c[2] \in Threads /\ (c[1] - c[2]) % nthreads = 0
  <2>1. CASE left' = left /\ captured' = captured
    BY <1>2, <2>1 DEF ArmTypes, Dealt
  <2>2. CASE /\ left[t] # <<>> /\ left' = [left EXCEPT ![t] = Tail(@)]
             /\ captured' = captured \cup {<<Head(left[t]), t>>}
    <3>1. /\ left[t] \in Seq(Units) /\ left \in [AllThreads -> Seq(Units)]
          /\ captured \subseteq Units \X Nat
      BY <1>2 DEF ArmTypes
    <3>2. /\ Head(left[t]) = left[t][1] /\ Head(left[t]) \in Units /\ Tail(left[t]) \in Seq(Units)
          /\ 1 \in 1 .. Len(left[t]) /\ Len(Tail(left[t])) = Len(left[t]) - 1 /\ Len(left[t]) \in Nat
          /\ \A i \in 1 .. Len(Tail(left[t])) : Tail(left[t])[i] = left[t][i + 1]
      BY <2>2, <3>1
    <3>3. \A u \in Threads : \A i \in 1 .. Len(left[u]) : (left[u][i] - u) % nthreads = 0
      BY <1>2 DEF Dealt
    <3>4. (Head(left[t]) - t) % nthreads = 0
      BY <3>2, <3>3
    <3>5. \A i \in 1 .. Len(Tail(left[t])) : (Tail(left[t])[i] - t) % nthreads = 0
      <4> SUFFICES ASSUME NEW i \in 1 .. Len(Tail(left[t])) PROVE (Tail(left[t])[i] - t) % nthreads = 0
        OBVIOUS
      <4>1. i + 1 \in 1 .. Len(left[t])
        BY <3>2
      <4>2. Tail(left[t])[i] = left[t][i + 1] /\ (left[t][i + 1] - t) % nthreads = 0
        BY <3>2, <3>3, <4>1
      <4> QED
        BY <4>2, Zenon
    <3>6. \A u \in Threads : left'[u] = IF u = t THEN Tail(left[t]) ELSE left[u]
      BY <2>2, <3>1, ArmFacts
    <3>7. \A u \in Threads : \A i \in 1 .. Len(left'[u]) : (left'[u][i] - u) % nthreads = 0
      <4> SUFFICES ASSUME NEW u \in Threads, NEW i \in 1 .. Len(left'[u])
                   PROVE  (left'[u][i] - u) % nthreads = 0
        OBVIOUS
      <4>1. CASE u = t
        BY <3>5, <3>6, <4>1, Zenon
      <4>2. CASE u # t
        BY <3>3, <3>6, <4>2, Zenon
      <4> QED
        BY <4>1, <4>2
    <3>8. \A c \in captured' : c[2] \in Threads /\ (c[1] - c[2]) % nthreads = 0
      <4> SUFFICES ASSUME NEW c \in captured' PROVE c[2] \in Threads /\ (c[1] - c[2]) % nthreads = 0
        OBVIOUS
      <4>1. CASE c \in captured
        BY <1>2, <4>1 DEF Dealt
      <4>2. CASE c = <<Head(left[t]), t>>
        <5>1. c[1] = Head(left[t]) /\ c[2] = t
          BY <4>2
        <5> QED
          BY <3>4, <5>1, Zenon
      <4> QED
        BY <2>2, <4>1, <4>2
    <3>9. left' \in [AllThreads -> Seq(Units)]
      BY <2>2, <3>1, <3>2
    <3>10. captured' \subseteq Units \X Nat /\ captured \subseteq captured'
      BY <1>2, <2>2, <3>1, <3>2
    <3> QED
      BY <3>7, <3>8, <3>9, <3>10
  <2> QED
    BY <1>3, <2>1, <2>2
<1>6. ArmTypes'
  BY <1>1, <1>2, <1>4, <1>5 DEF ArmTypes
<1>7. Dealt'
  BY <1>1, <1>2, <1>5 DEF Dealt
<1>8. BarrierHolds'
  <2> SUFFICES /\ \A u \in Threads : u \in barrier.in => worker'[u] = "waiting"
               /\ \A u \in Threads : worker'[u] \notin {"warmup", "arrive"}
    BY <1>1, <1>2 DEF BarrierHolds
  <2>1. \A u \in Threads : worker[u] \notin {"warmup", "arrive"}
    BY <1>3 DEF BarrierHolds
  <2>2. t \notin barrier.in
    BY <1>3 DEF BarrierHolds
  <2>3. worker'[t] \notin {"warmup", "arrive"}
    BY <1>4
  <2> QED
    BY <1>4, <2>1, <2>2, <2>3 DEF BarrierHolds
<1>9. EndsAreReported'
  BY <1>1, <1>2, <1>3, <1>4 DEF EndsAreReported
<1>10. ArmResult'
  <2>1. result = "ok" => hasty
    BY <1>3 DEF ArmResult, EndsAreReported
  <2>2. Counted => Counted'
    BY <1>5 DEF Counted
  <2> QED
    BY <1>1, <2>1, <2>2 DEF ArmResult
<1> QED
  BY <1>6, <1>7, <1>8, <1>9, <1>10

(* Main hangs, and nothing else changes. *)
LEMMA HostHangsKeeps == ASSUME ArmInv, HostHangs PROVE ArmInv'
<1> USE DEF ArmInv
<1>1. /\ main \in {"units", "serial", "join", "judge"} /\ main' = "stuck" /\ result = "none"
      /\ UNCHANGED <<nthreads, rep, worker, left, barrier, captured, spans, errors, hasty, result>>
  BY DEF HostHangs, ArmResult
<1>2. Threads' = Threads /\ Parties' = Parties
  BY <1>1 DEF Threads, Parties
<1> QED
  BY <1>1, <1>2 DEF ArmTypes, Dealt, BarrierHolds, EndsAreReported, ArmResult

(* The arm's invariant is one. *)
LEMMA ArmKeeps == ASSUME ArmInv, [ArmNext]_armVars PROVE ArmInv'
<1>1. CASE UNCHANGED armVars
  <2>1. /\ UNCHANGED <<nthreads, rep, main, worker, left, barrier, captured, spans, errors, hasty, result>>
        /\ Threads' = Threads /\ Parties' = Parties /\ Counted' = Counted
    BY <1>1 DEF armVars, Threads, Parties, Counted
  <2> QED
    BY <2>1 DEF ArmInv, ArmTypes, Dealt, BarrierHolds, EndsAreReported, ArmResult
<1>2. CASE Main
  BY <1>2, MakeUnitsKeeps, SerialKeeps, MainBarrierKeeps, JoinKeeps, JudgeKeeps DEF Main
<1>3. ASSUME NEW t \in Threads,
             \/ Warmup(t) \/ WorkerArrives(t) \/ WorkerLeaves(t) \/ WorkerTiresOfWaiting(t)
             \/ CaptureOne(t) \/ WorkerEnds(t) \/ Abort(t)
      PROVE  ArmInv'
  BY <1>3, ThreadAtBarrierKeeps, ThreadCapturesKeeps
<1> QED
  BY <1>1, <1>2, <1>3, HostHangsKeeps DEF ArmNext

(* It says that the arm's figure is of what it says. *)
LEMMA ArmSays == ASSUME ArmInv PROVE ArmIsTrue
<1> USE DEF ArmInv
<1>1. ASSUME result = "ok"
      PROVE  /\ rep = Reps /\ \A u \in Units : \E c \in captured : c[1] = u
             /\ ~ hasty => errors = {} /\ (nthreads = 0 \/ spans = Threads)
  <2>1. /\ rep = Reps /\ \A u \in Units : \E c \in captured : c[1] = u
        /\ main = "done" /\ (~ hasty => errors = {})
    BY <1>1 DEF ArmResult, Counted
  <2>2. ~ hasty => \A t \in Threads : t \in spans
    BY <2>1 DEF EndsAreReported
  <2> QED
    BY <2>1, <2>2 DEF ArmTypes
<1>2. ASSUME NEW c \in captured, NEW d \in captured, c[1] = d[1] PROVE c = d
  <2>1. c \in Units \X Nat /\ d \in Units \X Nat
    BY DEF ArmTypes
  <2>2. c[2] = d[2]
    <3>1. CASE nthreads = 0
      BY <3>1 DEF Dealt
    <3>2. CASE nthreads # 0
      <4>1. /\ c[2] \in Threads /\ (c[1] - c[2]) % nthreads = 0
            /\ d[2] \in Threads /\ (c[1] - d[2]) % nthreads = 0
        BY <1>2, <3>2 DEF Dealt
      <4>2. nthreads \in Nat \ {0} /\ c[1] \in Int
        BY <2>1, <3>2, ArmFacts DEF Units
      <4> QED
        BY <4>1, <4>2, OneOwner DEF Threads
    <3> QED
      BY <3>1, <3>2
  <2> QED
    BY <1>2, <2>1, <2>2
<1>3. nthreads # 0 => \A c \in captured : c[2] \in Threads /\ (c[1] - c[2]) % nthreads = 0
  BY DEF Dealt
<1>4. (\E t \in Threads : worker[t] = "capture") =>
        \A t \in Threads : worker[t] \notin {"warmup", "arrive"}
  BY DEF BarrierHolds
<1> QED
  BY <1>1, <1>2, <1>3, <1>4 DEF ArmIsTrue

----------------------------------------------------------------------------
(* The ranks of the checkpoint matrix: RoundTripIsTrue. *)

Actions == {"lock", "checkpoint", "restore", "unlock"}
Quiet == {"wait", "ask teardown", "write teardown", "teardown"}
AtLock == {"lock", "lock called"}
AtCheckpoint == {"checkpoint", "checkpoint called"}
AtRestore == {"restore", "restore called"}
AtUnlock == {"unlock", "unlock called"}
AtVerify == {"ask verify", "write verify", "verify"}
AtRest == {"idle", "spawn", "clean", "done", "stuck"}

MatrixTypes ==
  /\ at \in Quiet \cup AtLock \cup AtCheckpoint \cup {"states"} \cup AtRestore \cup AtUnlock
              \cup AtVerify \cup AtRest
  /\ turn \in {1, 2} /\ parallel \in BOOLEAN /\ verified \in BOOLEAN
  /\ child \in [Ranks -> {"off", "boot", "exchange", "loop", "teardown", "verify", "gone"}]
  /\ holds \in [Ranks -> SUBSET {"comm", "graph", "peer"}]
  /\ command \in [Ranks -> {"none", "empty", "teardown", "verify"}]
  /\ driver \in [Ranks -> {"running", "locked", "checkpointed"}]
  /\ call \in [Ranks -> {NoCall} \cup [action : Actions, is : {"under way", "ok", "failed"}]]
  /\ late \in [Ranks -> SUBSET Actions]
  /\ steps \subseteq ({"teardown"} \cup Actions) \X Ranks \X {"ok", "failed", "hung"}

(* Of a set of noted steps. *)
Fine(S, action) == {r \in Ranks : <<action, r, "ok">> \in S}
HasStep(S, action, r) == \E s \in S : s[1] = action /\ s[2] = r
Never(S, action) == \A s \in S : s[1] # action
AllOk(S, action) == \A s \in S : s[1] = action => s[3] = "ok"
AllDone(S, action) == Fine(S, action) = Ranks /\ AllOk(S, action)

(* What has been noted, by the place run_mode() is at. *)
StepsFit ==
  /\ at \in Quiet => steps = {}
  /\ at \in AtLock => /\ Never(steps, "checkpoint") /\ AllOk(steps, "lock")
                      /\ turn = 2 => "rank0" \in Fine(steps, "lock")
  /\ at \in AtLock \cup AtCheckpoint \cup {"states"} => Never(steps, "restore")
  /\ at \in AtLock \cup AtCheckpoint \cup {"states"} \cup AtRestore => Never(steps, "unlock")
  /\ at \in AtCheckpoint \cup {"states"} \cup AtRestore \cup AtUnlock => AllDone(steps, "lock")
  /\ at \in AtCheckpoint /\ turn = 2 => HasStep(steps, "checkpoint", "rank0")
  /\ at = "states" => (\A r \in Ranks : HasStep(steps, "checkpoint", r)) \/ ~ AllOk(steps, "checkpoint")
  /\ at \in AtRestore \cup AtUnlock => AllDone(steps, "checkpoint")
  /\ at \in AtRestore /\ turn = 2 => HasStep(steps, "restore", "rank0")
  /\ at \in AtUnlock => \A r \in Ranks : HasStep(steps, "restore", r)
  /\ at \in AtUnlock /\ turn = 2 => HasStep(steps, "unlock", "rank0")
  /\ ~ Never(steps, "restore") => Fine(steps, "checkpoint") = Ranks

(* A verdict, and where it stands. *)
VerdictsFit ==
  /\ at \notin AtVerify \cup AtRest => verdict = "none"
  /\ at \in AtVerify => verdict = "round trip OK"
  /\ at \notin AtRest => ~ verified
  /\ verified => verdict = "round trip OK"
  /\ verdict = "round trip OK" => \A action \in Actions : AllDone(steps, action)
  /\ verdict = "checkpoint HUNG" => \E r \in Ranks : <<"checkpoint", r, "hung">> \in steps

(* A client runs only where the parent waits for it, or hangs. *)
CallsFit ==
  \A r \in Ranks : call[r] # NoCall /\ at # "stuck" =>
    /\ at = Called[call[r].action]
    /\ r = Rank \/ (parallel /\ turn = 1 /\ at = "checkpoint called")

(* Where the calls that were ok, in their order, brought a rank. *)
Level(S, r) ==
  IF r \in Fine(S, "unlock") THEN "running"
  ELSE IF r \in Fine(S, "restore") THEN "locked"
  ELSE IF r \in Fine(S, "checkpoint") THEN "checkpointed"
  ELSE IF r \in Fine(S, "lock") THEN "locked" ELSE "running"
Faultless(S, r) == \A s \in S : s[1] \in Actions /\ s[2] = r => s[3] = "ok"

(* While no call failed or hung, the driver is where the calls brought it. *)
DriverFits ==
  \A r \in Ranks : Faultless(steps, r) =>
    /\ late[r] = {}
    /\ driver[r] = IF call[r].is = "ok" THEN After[call[r].action] ELSE Level(steps, r)

(* Nothing was asked to checkpoint before both are locked. *)
NotCheckpointed ==
  at \in Quiet \cup AtLock \/ verdict = "lock failed" =>
    \A r \in Ranks : /\ driver[r] # "checkpointed" /\ call[r].action # "checkpoint"
                     /\ "checkpoint" \notin late[r]

(* What the children are asked and have done. *)
ChildrenFit ==
  \A r \in Ranks :
    /\ command[r] = "verify" \/ child[r] = "verify" \/ <<"verified", r>> \in files =>
         verdict = "round trip OK"
    /\ <<"torn", r>> \in files =>
         /\ child[r] \notin {"boot", "exchange"} /\ "peer" \notin holds[r]
         /\ "comm" \in holds[r] => <<"blocked", r>> \in files \/ <<"raised", r>> \in files
    /\ <<"teardown", r, "ok">> \in steps => There("torn")

MatrixInv ==
  MatrixTypes /\ StepsFit /\ VerdictsFit /\ CallsFit /\ DriverFits /\ NotCheckpointed /\ ChildrenFit

(* The tables of the module. *)
LEMMA Tables ==
  /\ DOMAIN After = Actions /\ DOMAIN Called = Actions /\ DOMAIN Ask = {"teardown", "verify"}
  /\ Called["lock"] = "lock called" /\ Called["checkpoint"] = "checkpoint called"
  /\ Called["restore"] = "restore called" /\ Called["unlock"] = "unlock called"
  /\ After["lock"] = "locked" /\ After["checkpoint"] = "checkpointed"
  /\ After["restore"] = "locked" /\ After["unlock"] = "running"
  /\ Ask["teardown"] = "ask teardown" /\ Ask["verify"] = "ask verify"
  /\ Write["teardown"] = "write teardown" /\ Write["verify"] = "write verify"
BY DEF After, Ask, Write, Called, Actions

(* The rank whose turn it is. *)
LEMMA RankFacts ==
  ASSUME MatrixTypes
  PROVE  /\ Rank \in Ranks /\ Rank = (IF turn = 1 THEN "rank0" ELSE "rank1")
         /\ Ranks = {"rank0", "rank1"} /\ NoCall.action = "none" /\ NoCall.is = "none"
<1>1. CASE turn = 1
  BY <1>1 DEF Rank, RankOrder, Ranks, NoCall
<1>2. CASE turn = 2
  BY <1>2 DEF Rank, RankOrder, Ranks, NoCall
<1> QED
  BY <1>1, <1>2 DEF MatrixTypes

(* Nothing noted. *)
LEMMA NothingNoted ==
  ASSUME NEW S, \A s \in S : s[1] = "teardown"
  PROVE  \A b \in Actions : /\ Never(S, b) /\ AllOk(S, b)
                            /\ \A r \in Ranks : Faultless(S, r) /\ Level(S, r) = "running"
<1>1. \A b \in Actions : b # "teardown"
  BY DEF Actions
<1>2. \A b \in Actions : Never(S, b) /\ AllOk(S, b) /\ Fine(S, b) = {}
  BY <1>1 DEF Never, AllOk, Fine
<1>3. \A r \in Ranks : Faultless(S, r)
  BY <1>1 DEF Faultless
<1>4. \A r \in Ranks : Level(S, r) = "running"
  BY <1>2 DEF Level, Actions
<1> QED
  BY <1>2, <1>3, <1>4

(* It holds at the start, and after a spawn. *)
LEMMA MatrixStarts ==
  (MatrixInit \/ MatrixIdle) => MatrixInv
<1> SUFFICES ASSUME MatrixInit \/ MatrixIdle PROVE MatrixInv
  OBVIOUS
<1>1. /\ at \in {"spawn", "idle"} /\ turn = 1 /\ parallel \in BOOLEAN
      /\ child = [r \in Ranks |-> "off"] /\ holds = [r \in Ranks |-> {}]
      /\ files = {} /\ command = [r \in Ranks |-> "none"]
      /\ driver = [r \in Ranks |-> "running"] /\ call = [r \in Ranks |-> NoCall]
      /\ late = [r \in Ranks |-> {}] /\ steps = {} /\ verdict = "none" /\ verified = FALSE
  BY DEF MatrixInit, MatrixIdle, MatrixStart
<1>2. MatrixTypes
  BY <1>1 DEF MatrixTypes, AtRest
<1>3. StepsFit
  BY <1>1 DEF StepsFit, AtRest, Quiet, AtLock, AtCheckpoint, AtRestore, AtUnlock, Never
<1>4. VerdictsFit
  BY <1>1 DEF VerdictsFit, AtRest, AtVerify
<1>5. CallsFit
  BY <1>1 DEF CallsFit
<1>6. DriverFits
  BY <1>1, RankFacts, <1>2, NothingNoted DEF DriverFits, Actions
<1>7. NotCheckpointed
  BY <1>1, RankFacts, <1>2 DEF NotCheckpointed
<1>8. ChildrenFit
  BY <1>1 DEF ChildrenFit
<1> QED
  BY <1>2, <1>3, <1>4, <1>5, <1>6, <1>7, <1>8 DEF MatrixInv

(* A mode begins with nothing. *)
LEMMA SpawnKeeps == ASSUME MatrixInv, Spawn PROVE MatrixInv'
<1>1. /\ at' = "wait" /\ turn' = 1 /\ parallel' = parallel
      /\ child' = [r \in Ranks |-> "boot"] /\ holds' = [r \in Ranks |-> {}]
      /\ files' = {} /\ command' = [r \in Ranks |-> "none"]
      /\ driver' = [r \in Ranks |-> "running"] /\ call' = [r \in Ranks |-> NoCall]
      /\ late' = [r \in Ranks |-> {}] /\ steps' = {} /\ verdict' = "none" /\ verified' = FALSE
  BY DEF Spawn, Fresh, Go
<1>2. MatrixTypes'
  BY <1>1 DEF MatrixTypes, Quiet, MatrixInv
<1>3. StepsFit'
  BY <1>1 DEF StepsFit, AtRest, Quiet, AtLock, AtCheckpoint, AtRestore, AtUnlock, Never
<1>4. VerdictsFit'
  BY <1>1 DEF VerdictsFit, AtRest, AtVerify
<1>5. CallsFit'
  BY <1>1 DEF CallsFit
<1>6. DriverFits'
  <2>1. \A r \in Ranks : Level({}, r) = "running"
    BY NothingNoted DEF Actions
  <2> QED
    BY <1>1, <2>1 DEF DriverFits, NoCall
<1>7. NotCheckpointed'
  BY <1>1 DEF NotCheckpointed, NoCall
<1>8. ChildrenFit'
  BY <1>1 DEF ChildrenFit
<1> QED
  BY <1>2, <1>3, <1>4, <1>5, <1>6, <1>7, <1>8 DEF MatrixInv

(* A child's step. *)
LEMMA ChildKeeps ==
  ASSUME MatrixInv, NEW r \in Ranks,
         Boot(r) \/ Exchange(r) \/ TakeCommand(r) \/ Teardown(r) \/ Verify(r) \/ ChildFails(r)
  PROVE  MatrixInv'
<1> USE DEF MatrixInv
<1>1. /\ UNCHANGED <<parallel, at, turn, steps, verdict, verified, driver, call, late>>
      /\ child[r] \in {"boot", "exchange", "loop", "teardown", "verify"}
  BY DEF Boot, Exchange, TakeCommand, Teardown, Verify, ChildFails, parentVars
<1>2. StepsFit' /\ VerdictsFit' /\ DriverFits' /\ NotCheckpointed'
  <2>1. StepsFit'
    BY <1>1 DEF StepsFit
  <2>2. VerdictsFit'
    BY <1>1 DEF VerdictsFit
  <2>3. DriverFits'
    BY <1>1 DEF DriverFits
  <2>4. NotCheckpointed'
    BY <1>1 DEF NotCheckpointed
  <2> QED
    BY <2>1, <2>2, <2>3, <2>4
<1>3. CallsFit'
  BY <1>1 DEF CallsFit, Rank
<1>4. /\ MatrixTypes'
      /\ \A q \in Ranks \ {r} : /\ child'[q] = child[q] /\ holds'[q] = holds[q]
                                /\ command'[q] = command[q]
  <2>1. CASE Boot(r)
    BY <1>1, <2>1 DEF Boot, MatrixTypes
  <2>2. CASE Exchange(r)
    <3>1. Shared \in SUBSET {"comm", "graph", "peer"}
      BY DEF Shared
    <3> QED
      BY <1>1, <2>2, <3>1 DEF Exchange, MatrixTypes
  <2>3. CASE TakeCommand(r)
    BY <1>1, <2>3 DEF TakeCommand, MatrixTypes, childVars
  <2>4. CASE Teardown(r)
    <3>1. \A kept : Released(holds[r], kept) \in SUBSET {"comm", "graph", "peer"}
      BY DEF Released, MatrixTypes
    <3>2. /\ child' = [child EXCEPT ![r] = "loop"] /\ command' = command
          /\ \E kept : holds' = [holds EXCEPT ![r] = Released(@, kept)]
      BY <2>4 DEF Teardown
    <3>3. /\ holds' \in [Ranks -> SUBSET {"comm", "graph", "peer"}]
          /\ \A q \in Ranks \ {r} : holds'[q] = holds[q]
      <4>1. PICK released : /\ released \in SUBSET {"comm", "graph", "peer"}
                            /\ holds' = [holds EXCEPT ![r] = released]
        BY <3>1, <3>2
      <4> QED
        BY <4>1 DEF MatrixTypes
    <3> QED
      BY <1>1, <3>2, <3>3 DEF MatrixTypes
  <2>5. CASE Verify(r)
    BY <1>1, <2>5 DEF Verify, MatrixTypes
  <2>6. CASE ChildFails(r)
    BY <1>1, <2>6 DEF ChildFails, MatrixTypes
  <2> QED
    BY <2>1, <2>2, <2>3, <2>4, <2>5, <2>6
<1>5. /\ files \subseteq files'
      /\ \A q \in Ranks \ {r} : /\ <<"verified", q>> \in files' => <<"verified", q>> \in files
                                /\ <<"torn", q>> \in files' => <<"torn", q>> \in files
  BY DEF Boot, Exchange, TakeCommand, Teardown, Verify, ChildFails
<1>6. command'[r] = "verify" \/ child'[r] = "verify" \/ <<"verified", r>> \in files' =>
        command[r] = "verify" \/ child[r] = "verify" \/ <<"verified", r>> \in files
  <2>1. CASE Boot(r) \/ Exchange(r)
    <3>1. \E name \in {"handle", "ready"} : files' \subseteq files \cup {<<name, r>>}
      BY <2>1 DEF Boot, Exchange
    <3>2. <<"verified", r>> \in files' => <<"verified", r>> \in files
      BY <3>1
    <3>3. command' = command /\ child'[r] # "verify"
      BY <2>1 DEF Boot, Exchange, MatrixTypes
    <3> QED
      BY <3>2, <3>3
  <2>2. CASE TakeCommand(r)
    BY <2>2 DEF TakeCommand, MatrixTypes
  <2>3. CASE Teardown(r)
    BY <2>3 DEF Teardown, MatrixTypes
  <2>4. CASE Verify(r)
    BY <2>4 DEF Verify, MatrixTypes
  <2>5. CASE ChildFails(r)
    BY <2>5 DEF ChildFails, MatrixTypes
  <2> QED
    BY <2>1, <2>2, <2>3, <2>4, <2>5
<1>7. <<"torn", r>> \in files' =>
        /\ child'[r] \notin {"boot", "exchange"} /\ "peer" \notin holds'[r]
        /\ "comm" \in holds'[r] => <<"blocked", r>> \in files' \/ <<"raised", r>> \in files'
  <2>1. CASE Boot(r) \/ Exchange(r)
    <3>1. <<"torn", r>> \notin files
      BY <2>1 DEF Boot, Exchange, ChildrenFit
    <3>2. \E name \in {"handle", "ready"} : files' \subseteq files \cup {<<name, r>>}
      BY <2>1 DEF Boot, Exchange
    <3>3. <<"torn", r>> \notin files'
      BY <3>1, <3>2
    <3> QED
      BY <3>3
  <2>2. CASE Teardown(r)
    <3>1. PICK destroyed \in {"returned", "blocked", "raised"} : \E kept \in BOOLEAN :
            /\ destroyed = "returned" => ~ kept
            /\ holds' = [holds EXCEPT ![r] = Released(@, kept)]
            /\ files' = files \cup {<<"torn", r>>}
                              \cup (IF destroyed = "returned" THEN {} ELSE {<<destroyed, r>>})
            /\ child' = [child EXCEPT ![r] = "loop"]
      BY <2>2 DEF Teardown
    <3>2. PICK kept \in BOOLEAN :
            /\ destroyed = "returned" => ~ kept
            /\ holds' = [holds EXCEPT ![r] = Released(@, kept)]
            /\ child' = [child EXCEPT ![r] = "loop"]
      BY <3>1
    <3>3. holds'[r] = Released(holds[r], kept) /\ child'[r] = "loop"
      BY <3>2 DEF MatrixTypes
    <3>4. kept => <<"blocked", r>> \in files' \/ <<"raised", r>> \in files'
      BY <3>1, <3>2
    <3> QED
      BY <3>3, <3>4 DEF Released
  <2>3. CASE TakeCommand(r) \/ Verify(r) \/ ChildFails(r)
    <3>1. /\ holds' = holds /\ child'[r] \notin {"boot", "exchange"}
          /\ <<"torn", r>> \in files' => <<"torn", r>> \in files
      BY <2>3 DEF TakeCommand, Verify, ChildFails, MatrixTypes, childVars
    <3> QED
      BY <1>5, <3>1 DEF ChildrenFit
  <2> QED
    BY <2>1, <2>2, <2>3
<1>8. ChildrenFit'
  <2> SUFFICES ASSUME NEW q \in Ranks
      PROVE  /\ command'[q] = "verify" \/ child'[q] = "verify" \/ <<"verified", q>> \in files' =>
                  verdict = "round trip OK"
             /\ <<"torn", q>> \in files' =>
                  /\ child'[q] \notin {"boot", "exchange"} /\ "peer" \notin holds'[q]
                  /\ "comm" \in holds'[q] => <<"blocked", q>> \in files' \/ <<"raised", q>> \in files'
             /\ <<"teardown", q, "ok">> \in steps => There("torn")'
    BY <1>1 DEF ChildrenFit
  <2>1. There("torn") => There("torn")'
    BY <1>5 DEF There
  <2>2. CASE q = r
    BY <1>6, <1>7, <2>1, <2>2 DEF ChildrenFit
  <2>3. CASE q # r
    BY <1>4, <1>5, <2>1, <2>3 DEF ChildrenFit
  <2> QED
    BY <2>2, <2>3
<1> QED
  BY <1>2, <1>3, <1>4, <1>8

(* A destroy that comes back late. *)
LEMMA DestroyReturnsKeeps ==
  ASSUME MatrixInv, NEW r \in Ranks, DestroyReturns(r) PROVE MatrixInv'
<1> USE DEF MatrixInv
<1>1. /\ UNCHANGED <<parallel, at, turn, steps, verdict, verified, driver, call, late, child, command,
                     files>>
      /\ holds' = [holds EXCEPT ![r] = @ \ {"comm"}]
  BY DEF DestroyReturns, parentVars
<1>2. /\ holds' \in [Ranks -> SUBSET {"comm", "graph", "peer"}]
      /\ \A q \in Ranks : holds'[q] \subseteq holds[q]
  BY <1>1 DEF MatrixTypes
<1>3. MatrixTypes' /\ CallsFit'
  BY <1>1, <1>2 DEF MatrixTypes, CallsFit, Rank
<1>4. StepsFit'
  BY <1>1 DEF StepsFit
<1>5. VerdictsFit'
  BY <1>1 DEF VerdictsFit
<1>6. DriverFits' /\ NotCheckpointed'
  BY <1>1 DEF DriverFits, NotCheckpointed
<1>7. ChildrenFit'
  BY <1>1, <1>2 DEF ChildrenFit, There
<1> QED
  BY <1>3, <1>4, <1>5, <1>6, <1>7

(* The parent hangs. *)
LEMMA ParentHangsKeeps == ASSUME MatrixInv, ParentHangs PROVE MatrixInv'
<1> USE DEF MatrixInv
<1>1. /\ UNCHANGED <<parallel, turn, steps, verdict, verified, driver, call, late, child, holds, command,
                     files>>
      /\ at' = "stuck"
  BY DEF ParentHangs, childVars
<1>2. at \notin AtVerify
  <2>1. \A action \in Actions : Called[action] \notin AtVerify
    BY Tables DEF Actions, AtVerify
  <2>2. \/ at \in {"spawn", "teardown", "states", "clean", "wait", "unlock called"}
        \/ \E action \in Actions : at = Called[action]
    BY Tables DEF ParentHangs, Waits
  <2> QED
    BY <2>1, <2>2 DEF AtVerify
<1>3. MatrixTypes' /\ CallsFit'
  BY <1>1 DEF MatrixTypes, CallsFit, AtRest
<1>4. StepsFit'
  BY <1>1 DEF StepsFit, Quiet, AtLock, AtCheckpoint, AtRestore, AtUnlock
<1>5. VerdictsFit'
  BY <1>1 DEF VerdictsFit, AtVerify, AtRest
<1>6. DriverFits' /\ NotCheckpointed'
  BY <1>1 DEF DriverFits, NotCheckpointed, Quiet, AtLock
<1>7. ChildrenFit'
  BY <1>1 DEF ChildrenFit, There
<1> QED
  BY <1>3, <1>4, <1>5, <1>6, <1>7

(* The driver's step. *)
LEMMA DriverKeeps ==
  ASSUME MatrixInv, NEW r \in Ranks, DriverAnswers(r) \/ DriverAnswersLate(r)
  PROVE  MatrixInv'
<1> USE DEF MatrixInv
<1>1. UNCHANGED <<parallel, at, turn, steps, verdict, verified, child, holds, files, command>>
  BY DEF DriverAnswers, DriverAnswersLate, parentVars, childVars
<1>2. StepsFit' /\ VerdictsFit'
  <2>1. StepsFit'
    BY <1>1 DEF StepsFit
  <2>2. VerdictsFit'
    BY <1>1 DEF VerdictsFit
  <2> QED
    BY <2>1, <2>2
<1>3. ChildrenFit'
  BY <1>1 DEF ChildrenFit, There
<1>4. \/ /\ call[r].is = "under way" /\ late' = late
         /\ \/ driver' = [driver EXCEPT ![r] = After[call[r].action]] /\ call' = [call EXCEPT ![r].is = "ok"]
            \/ driver' = driver /\ call' = [call EXCEPT ![r].is = "failed"]
      \/ \E action \in late[r] :
           /\ driver' = [driver EXCEPT ![r] = After[action]] /\ late' = [late EXCEPT ![r] = @ \ {action}]
           /\ call' = call
  BY DEF DriverAnswers, DriverAnswersLate, Carries
<1>5. CASE call[r].is = "under way" /\ late' = late
           /\ \/ /\ driver' = [driver EXCEPT ![r] = After[call[r].action]]
                 /\ call' = [call EXCEPT ![r].is = "ok"]
              \/ driver' = driver /\ call' = [call EXCEPT ![r].is = "failed"]
  <2>1. call[r] \in [action : Actions, is : {"under way", "ok", "failed"}] /\ call[r] # NoCall
    BY <1>5, RankFacts DEF MatrixTypes
  <2>2. /\ \A q \in Ranks \ {r} : call'[q] = call[q] /\ driver'[q] = driver[q]
        /\ call'[r] \in [action : Actions, is : {"under way", "ok", "failed"}]
        /\ call'[r].action = call[r].action
        /\ \/ call'[r].is = "ok" /\ driver'[r] = After[call[r].action]
           \/ call'[r].is = "failed" /\ driver'[r] = driver[r]
        /\ call' = [q \in Ranks |-> call'[q]]
        /\ driver' = [q \in Ranks |-> driver'[q]]
    <3>1. call = [q \in Ranks |-> call[q]] /\ driver = [q \in Ranks |-> driver[q]]
      BY DEF MatrixTypes
    <3>2. \A x : [call[r] EXCEPT !.is = x].is = x /\ [call[r] EXCEPT !.is = x].action = call[r].action
      BY <2>1
    <3>3. \A x \in {"ok", "failed"} :
            [call[r] EXCEPT !.is = x] \in [action : Actions, is : {"under way", "ok", "failed"}]
      BY <2>1
    <3>4. \E x \in {"ok", "failed"} :
            /\ call' = [call EXCEPT ![r] = [call[r] EXCEPT !.is = x]]
            /\ driver' = IF x = "ok" THEN [driver EXCEPT ![r] = After[call[r].action]] ELSE driver
      BY <1>5
    <3> QED
      BY <3>1, <3>2, <3>3, <3>4
  <2>3. After[call[r].action] \in {"running", "locked", "checkpointed"}
        /\ (After[call[r].action] = "checkpointed" => call[r].action = "checkpoint")
    BY <2>1, Tables DEF Actions
  <2>4. MatrixTypes'
    <3>1. \A q \in Ranks : call'[q] \in {NoCall} \cup [action : Actions, is : {"under way", "ok", "failed"}]
      BY <2>2 DEF MatrixTypes
    <3>2. \A q \in Ranks : driver'[q] \in {"running", "locked", "checkpointed"}
      BY <2>2, <2>3 DEF MatrixTypes
    <3>3. /\ call' \in [Ranks -> {NoCall} \cup [action : Actions, is : {"under way", "ok", "failed"}]]
          /\ driver' \in [Ranks -> {"running", "locked", "checkpointed"}]
      BY <2>2, <3>1, <3>2
    <3> QED
      BY <1>1, <1>5, <3>3 DEF MatrixTypes
  <2>5. CallsFit'
    <3>1. Rank' = Rank
      BY <1>1 DEF Rank
    <3> QED
      BY <1>1, <2>1, <2>2, <3>1 DEF CallsFit
  <2>6. DriverFits'
    <3> SUFFICES ASSUME NEW q \in Ranks, Faultless(steps, q)
                 PROVE  /\ late[q] = {}
                        /\ driver'[q] = IF call'[q].is = "ok" THEN After[call'[q].action] ELSE Level(steps, q)
      BY <1>1, <1>5 DEF DriverFits
    <3>1. /\ late[q] = {}
          /\ driver[q] = IF call[q].is = "ok" THEN After[call[q].action] ELSE Level(steps, q)
      BY DEF DriverFits
    <3>2. CASE q = r
      <4>1. driver[r] = Level(steps, r)
        BY <1>5, <3>1, <3>2
      <4> QED
        BY <2>2, <3>1, <3>2, <4>1
    <3>3. CASE q # r
      BY <2>2, <3>1, <3>3
    <3> QED
      BY <3>2, <3>3
  <2>7. NotCheckpointed'
    <3> SUFFICES ASSUME at \in Quiet \cup AtLock \/ verdict = "lock failed", NEW q \in Ranks
                 PROVE  /\ driver'[q] # "checkpointed" /\ call'[q].action # "checkpoint"
                        /\ "checkpoint" \notin late[q]
      BY <1>1, <1>5 DEF NotCheckpointed
    <3>1. \A x \in Ranks : /\ driver[x] # "checkpointed" /\ call[x].action # "checkpoint"
                           /\ "checkpoint" \notin late[x]
      BY DEF NotCheckpointed
    <3>2. driver'[q] # "checkpointed" /\ call'[q].action # "checkpoint"
      <4>1. CASE q = r
        BY <2>2, <2>3, <3>1, <4>1
      <4>2. CASE q # r
        BY <2>2, <3>1, <4>2
      <4> QED
        BY <4>1, <4>2
    <3> QED
      BY <3>1, <3>2
  <2> QED
    BY <1>2, <1>3, <2>4, <2>5, <2>6, <2>7
<1>6. ASSUME NEW action \in late[r], driver' = [driver EXCEPT ![r] = After[action]],
             late' = [late EXCEPT ![r] = @ \ {action}], call' = call
      PROVE  MatrixInv'
  <2>1. action \in Actions
    BY DEF MatrixTypes
  <2>2. After[action] \in {"running", "locked", "checkpointed"}
        /\ (After[action] = "checkpointed" => action = "checkpoint")
    BY <2>1, Tables DEF Actions
  <2>3. /\ \A q \in Ranks \ {r} : driver'[q] = driver[q] /\ late'[q] = late[q]
        /\ driver'[r] = After[action] /\ late'[r] \subseteq late[r]
    BY <1>6 DEF MatrixTypes
  <2>4. MatrixTypes'
    BY <1>1, <1>6, <2>2 DEF MatrixTypes
  <2>5. CallsFit'
    BY <1>1, <1>6 DEF CallsFit, Rank
  <2>6. DriverFits'
    <3>1. ~ Faultless(steps, r)
      BY DEF DriverFits
    <3> QED
      BY <1>1, <1>6, <2>3, <3>1 DEF DriverFits
  <2>7. NotCheckpointed'
    BY <1>1, <1>6, <2>2, <2>3 DEF NotCheckpointed
  <2> QED
    BY <1>2, <1>3, <2>4, <2>5, <2>6, <2>7
<1> QED
  BY <1>4, <1>5, <1>6

(* Where the parent waits for no client, none runs. *)
LEMMA NoClient ==
  ASSUME MatrixInv, at \notin {"lock called", "checkpoint called", "restore called", "unlock called", "stuck"}
  PROVE  \A r \in Ranks : call[r] = NoCall
<1> SUFFICES ASSUME NEW r \in Ranks, call[r] # NoCall PROVE FALSE
  OBVIOUS
<1>1. call[r].action \in Actions
  BY DEF MatrixInv, MatrixTypes
<1>2. at = Called[call[r].action]
  BY DEF MatrixInv, CallsFit
<1> QED
  BY <1>1, <1>2, Tables DEF Actions

(* Where each rank has a step that is ok, all is done. *)
LEMMA AllFine ==
  ASSUME NEW S, S \subseteq ({"teardown"} \cup Actions) \X Ranks \X {"ok", "failed", "hung"},
         NEW a, AllOk(S, a), \A r \in Ranks : HasStep(S, a, r)
  PROVE  AllDone(S, a)
<1>1. ASSUME NEW r \in Ranks PROVE <<a, r, "ok">> \in S
  <2>1. PICK s \in S : s[1] = a /\ s[2] = r
    BY DEF HasStep
  <2>2. s[3] = "ok" /\ s = <<s[1], s[2], s[3]>>
    BY <2>1 DEF AllOk
  <2> QED
    BY <2>1, <2>2
<1> QED
  BY <1>1 DEF AllDone, Fine

(* A step of the parent without a client. *)
LEMMA QuietStep ==
  ASSUME MatrixInv, UNCHANGED <<parallel, driver, call, late>>, at' # at,
         at \notin {"lock called", "checkpoint called", "restore called", "unlock called", "stuck"}
  PROVE  /\ \A r \in Ranks : call[r] = NoCall
         /\ CallsFit'
         /\ steps' = steps => DriverFits'
<1>1. \A r \in Ranks : call[r] = NoCall
  BY NoClient
<1>2. CallsFit'
  BY <1>1 DEF CallsFit
<1>3. steps' = steps => DriverFits'
  BY DEF DriverFits, MatrixInv
<1> QED
  BY <1>1, <1>2, <1>3

(* Both are ready, or the mode is over. *)
LEMMA AwaitReadyKeeps == ASSUME MatrixInv, AwaitReady PROVE MatrixInv'
<1> USE DEF MatrixInv
<1>1. /\ at = "wait" /\ turn' = 1 /\ verdict = "none" /\ steps = {}
      /\ UNCHANGED <<parallel, child, holds, files, command, driver, call, late, steps, verified>>
      /\ \/ at' \in {"ask teardown", "lock"} /\ verdict' = "none"
         \/ at' = "clean" /\ verdict' = "error"
  BY DEF AwaitReady, Go, childVars, VerdictsFit, StepsFit, Quiet, AtVerify, AtRest
<1>2. CallsFit' /\ DriverFits' /\ \A r \in Ranks : call[r] = NoCall
  BY <1>1, QuietStep
<1>3. MatrixTypes'
  BY <1>1 DEF MatrixTypes, Quiet, AtLock, AtRest
<1>4. StepsFit'
  <2>1. \A b : Never(steps', b) /\ AllOk(steps', b)
    BY <1>1 DEF Never, AllOk
  <2>2. /\ at' \notin AtCheckpoint \cup {"states"} \cup AtRestore \cup AtUnlock
        /\ turn' = 1 /\ steps' = {}
    BY <1>1 DEF AtCheckpoint, AtRestore, AtUnlock
  <2> QED
    BY <2>1, <2>2 DEF StepsFit
<1>5. VerdictsFit'
  BY <1>1 DEF VerdictsFit, AtVerify, AtRest, Quiet, AtLock
<1>6. NotCheckpointed'
  BY <1>1 DEF NotCheckpointed, Quiet, AtLock
<1>7. ChildrenFit'
  BY <1>1 DEF ChildrenFit, There
<1> QED
  BY <1>2, <1>3, <1>4, <1>5, <1>6, <1>7

(* A command is written for a child. *)
LEMMA CommandKeeps ==
  ASSUME MatrixInv, NEW what \in DOMAIN Ask, OpenCommand(what) \/ WriteCommand(what)
  PROVE  MatrixInv'
<1> USE DEF MatrixInv
<1>1. what \in {"teardown", "verify"}
  BY Tables
<1>2. /\ UNCHANGED <<parallel, child, holds, files, driver, call, late, steps, verdict, verified>>
      /\ turn' \in {1, 2}
      /\ \/ what = "teardown" /\ at \in Quiet /\ at' \in Quiet
         \/ what = "verify" /\ at \in AtVerify /\ at' \in AtVerify
      /\ at \in {"ask teardown", "write teardown", "ask verify", "write verify"}
      /\ at' # at
  <2>1. CASE OpenCommand(what)
    <3>1. /\ UNCHANGED <<parallel, child, holds, files, driver, call, late, steps, verdict, verified>>
          /\ turn' \in {1, 2} /\ at = Ask[what] /\ at' = Write[what]
      BY <2>1 DEF OpenCommand, childVars, MatrixTypes
    <3> QED
      BY <1>1, <3>1, Tables DEF Quiet, AtVerify
  <2>2. CASE WriteCommand(what)
    <3>1. /\ UNCHANGED <<parallel, child, holds, files, driver, call, late, steps, verdict, verified>>
          /\ turn' \in {1, 2} /\ at = Write[what] /\ at' \in {what, Ask[what]}
      BY <2>2 DEF WriteCommand, Go, childVars
    <3> QED
      BY <1>1, <3>1, Tables DEF Quiet, AtVerify
  <2> QED
    BY <2>1, <2>2
<1>3. /\ command' \in [Ranks -> {"none", "empty", "teardown", "verify"}]
      /\ \A r \in Ranks : command'[r] = "verify" => command[r] = "verify" \/ what = "verify"
  <2>1. \E x \in {"empty", what} : command' \in {command, [command EXCEPT ![Rank] = x]}
    BY DEF OpenCommand, WriteCommand
  <2>2. CASE command' = command
    BY <2>2 DEF MatrixTypes
  <2>3. ASSUME NEW x \in {"empty", what}, command' = [command EXCEPT ![Rank] = x]
        PROVE  /\ command' \in [Ranks -> {"none", "empty", "teardown", "verify"}]
               /\ \A r \in Ranks : command'[r] = "verify" => command[r] = "verify" \/ what = "verify"
    <3>1. Rank \in Ranks /\ x \in {"none", "empty", "teardown", "verify"}
      BY <1>1, RankFacts
    <3> QED
      BY <2>3, <3>1 DEF MatrixTypes
  <2> QED
    BY <2>1, <2>2, <2>3
<1>4. CallsFit' /\ DriverFits' /\ \A r \in Ranks : call[r] = NoCall
  BY <1>2, QuietStep
<1>5. MatrixTypes'
  BY <1>2, <1>3 DEF MatrixTypes
<1>6. StepsFit'
  BY <1>2 DEF StepsFit, Quiet, AtVerify, AtLock, AtCheckpoint, AtRestore, AtUnlock
<1>7. VerdictsFit'
  BY <1>2 DEF VerdictsFit, AtVerify, AtRest, Quiet
<1>8. NotCheckpointed'
  BY <1>2 DEF NotCheckpointed, Quiet, AtLock, AtVerify
<1>9. ChildrenFit'
  <2>1. what = "verify" => verdict = "round trip OK"
    BY <1>2 DEF VerdictsFit, Quiet
  <2> QED
    BY <1>2, <1>3, <2>1 DEF ChildrenFit, There
<1> QED
  BY <1>4, <1>5, <1>6, <1>7, <1>8, <1>9

(* The teardown is noted for both. *)
LEMMA TornDownKeeps == ASSUME MatrixInv, TornDown PROVE MatrixInv'
<1> USE DEF MatrixInv
<1>1. /\ at = "teardown" /\ at' = "lock" /\ turn' = 1 /\ verdict = "none" /\ steps = {}
      /\ UNCHANGED <<parallel, child, holds, files, command, driver, call, late, verdict, verified>>
      /\ \E x \in {"ok", "failed"} : /\ steps' = {<<"teardown", r, x>> : r \in Ranks}
                                     /\ x = "ok" => There("torn")
  BY DEF TornDown, Go, childVars, VerdictsFit, StepsFit, Quiet, AtVerify, AtRest
<1>2. /\ \A s \in steps' : s[1] = "teardown"
      /\ steps' \subseteq ({"teardown"} \cup Actions) \X Ranks \X {"ok", "failed", "hung"}
      /\ \A r \in Ranks : <<"teardown", r, "ok">> \in steps' => There("torn")
  BY <1>1
<1>3. \A b \in Actions : Never(steps', b) /\ AllOk(steps', b) /\ \A r \in Ranks : Level(steps', r) = "running"
  BY <1>2, NothingNoted
<1>4. CallsFit' /\ \A r \in Ranks : call[r] = NoCall
  BY <1>1, QuietStep
<1>5. MatrixTypes'
  BY <1>1, <1>2 DEF MatrixTypes, AtLock
<1>6. StepsFit'
  BY <1>1, <1>3 DEF StepsFit, Quiet, AtLock, AtCheckpoint, AtRestore, AtUnlock, Actions
<1>7. VerdictsFit'
  BY <1>1 DEF VerdictsFit, AtVerify, AtRest, AtLock
<1>8. DriverFits'
  <2>1. \A r \in Ranks : Faultless(steps, r) /\ Level(steps, r) = "running"
    BY <1>1, NothingNoted DEF Actions
  <2>2. \A r \in Ranks : Level(steps', r) = "running"
    BY <1>3 DEF Actions
  <2> QED
    BY <1>1, <1>4, <2>1, <2>2 DEF DriverFits
<1>9. NotCheckpointed'
  BY <1>1 DEF NotCheckpointed, Quiet, AtLock
<1>10. ChildrenFit'
  BY <1>1, <1>2 DEF ChildrenFit, There
<1> QED
  BY <1>4, <1>5, <1>6, <1>7, <1>8, <1>9, <1>10

(* Only where both are checkpointed does the mode go on. *)
LEMMA JudgeModeKeeps == ASSUME MatrixInv, JudgeMode PROVE MatrixInv'
<1> USE DEF MatrixInv
<1>1. /\ at = "states" /\ turn' = 1 /\ verdict = "none"
      /\ UNCHANGED <<parallel, child, holds, files, command, driver, call, late, steps, verified>>
      /\ \/ at' = "restore" /\ verdict' = "none" /\ AllCheckpointed
         \/ /\ at' = "clean" /\ verdict' \in {"checkpoint HUNG", "checkpoint failed"}
            /\ verdict' = "checkpoint HUNG" => \E r \in Ranks : <<"checkpoint", r, "hung">> \in steps
  <2>1. verdict = "none"
    BY DEF JudgeMode, VerdictsFit, AtVerify, AtRest
  <2> QED
    BY <2>1 DEF JudgeMode, Go, childVars
<1>2. CallsFit' /\ DriverFits' /\ \A r \in Ranks : call[r] = NoCall
  BY <1>1, QuietStep
<1>3. MatrixTypes'
  BY <1>1 DEF MatrixTypes, AtRestore, AtRest
<1>4. AllCheckpointed => AllDone(steps, "checkpoint")
  <2>1. AllCheckpointed => AllOk(steps, "checkpoint")
    BY DEF AllCheckpointed, AllOk
  <2>2. AllOk(steps, "checkpoint") => \A r \in Ranks : HasStep(steps, "checkpoint", r)
    BY <1>1 DEF StepsFit
  <2> QED
    BY <2>1, <2>2, AllFine DEF MatrixTypes
<1>5. StepsFit'
  <2>1. /\ Never(steps, "unlock") /\ AllDone(steps, "lock")
        /\ ~ Never(steps, "restore") => Fine(steps, "checkpoint") = Ranks
    BY <1>1 DEF StepsFit
  <2>2. /\ at' \notin Quiet \cup AtLock \cup AtCheckpoint \cup {"states"} \cup AtUnlock
        /\ at' \in AtRestore => AllDone(steps, "checkpoint")
        /\ turn' = 1 /\ steps' = steps
    BY <1>1, <1>4 DEF Quiet, AtLock, AtCheckpoint, AtRestore, AtUnlock
  <2> QED
    BY <2>1, <2>2 DEF StepsFit
<1>6. VerdictsFit'
  BY <1>1 DEF VerdictsFit, AtVerify, AtRest, AtRestore
<1>7. NotCheckpointed'
  BY <1>1 DEF NotCheckpointed, Quiet, AtLock
<1>8. ChildrenFit'
  BY <1>1 DEF ChildrenFit, There
<1> QED
  BY <1>2, <1>3, <1>5, <1>6, <1>7, <1>8

(* The end of a mode. *)
LEMMA EndKeeps == ASSUME MatrixInv, Verified \/ Clean PROVE MatrixInv'
<1> USE DEF MatrixInv
<1>1. /\ at \in {"verify", "clean"} /\ at' \in AtRest /\ at' # at /\ turn' = 1
      /\ UNCHANGED <<parallel, holds, files, command, driver, call, late, steps, verdict>>
      /\ child' = child \/ child' = [r \in Ranks |-> "gone"]
      /\ verified' \in BOOLEAN /\ (verified' => verified \/ verdict = "round trip OK")
  <2>1. CASE Verified
    BY <2>1 DEF Verified, Go, childVars, AtRest, VerdictsFit, AtVerify, There
  <2>2. CASE Clean
    BY <2>2 DEF Clean, Go, AtRest, MatrixTypes
  <2> QED
    BY <2>1, <2>2
<1>2. CallsFit' /\ DriverFits' /\ \A r \in Ranks : call[r] = NoCall
  BY <1>1, QuietStep
<1>3. MatrixTypes'
  BY <1>1 DEF MatrixTypes
<1>4. StepsFit'
  BY <1>1 DEF StepsFit, AtRest, Quiet, AtLock, AtCheckpoint, AtRestore, AtUnlock
<1>5. VerdictsFit'
  BY <1>1 DEF VerdictsFit, AtVerify, AtRest
<1>6. NotCheckpointed'
  BY <1>1 DEF NotCheckpointed, Quiet, AtLock, AtRest
<1>7. ChildrenFit'
  BY <1>1 DEF ChildrenFit, There
<1> QED
  BY <1>2, <1>3, <1>4, <1>5, <1>6, <1>7

(* A client starts, or both do. *)
LEMMA StartKeeps ==
  ASSUME MatrixInv, (\E action \in DOMAIN After : CallOne(action)) \/ CallBoth
  PROVE  MatrixInv'
<1> USE DEF MatrixInv
<1>1. PICK action \in Actions, rs \in SUBSET Ranks :
        /\ at = action /\ at' = Called[action] /\ Start(action, rs)
        /\ UNCHANGED <<parallel, turn, child, holds, files, command, driver, late, steps, verdict, verified>>
        /\ rs = {Rank} \/ (action = "checkpoint" /\ parallel /\ turn = 1)
  <2>1. CASE CallBoth
    <3>1. "checkpoint" \in Actions /\ Called["checkpoint"] = "checkpoint called"
      BY Tables DEF Actions
    <3> QED
      BY <2>1, <3>1 DEF CallBoth, childVars
  <2>2. CASE \E action \in DOMAIN After : CallOne(action)
    <3>1. PICK action \in Actions : CallOne(action)
      BY <2>2, Tables
    <3>2. {Rank} \in SUBSET Ranks
      BY RankFacts
    <3> QED
      BY <3>1, <3>2 DEF CallOne, childVars
  <2> QED
    BY <2>1, <2>2
<1>2. /\ \/ action = "lock" /\ at' = "lock called"
         \/ action = "checkpoint" /\ at' = "checkpoint called"
         \/ action = "restore" /\ at' = "restore called"
         \/ action = "unlock" /\ at' = "unlock called"
  BY <1>1, Tables DEF Actions
<1>3. \A r \in Ranks : call[r] = NoCall
  BY <1>1, NoClient DEF Actions
<1>4. \A r \in Ranks : call'[r] = IF r \in rs THEN [action |-> action, is |-> "under way"] ELSE NoCall
  BY <1>1, <1>3 DEF Start
<1>5. /\ \A r \in Ranks : call'[r].action \in {action, "none"} /\ call'[r].is \in {"under way", "none"}
      /\ \A r \in Ranks : call'[r] # NoCall => r \in rs /\ call'[r].action = action
      /\ action # "none"
  <2> DEFINE c == [action |-> action, is |-> "under way"]
  <2>1. c.action = action /\ c.is = "under way"
    OBVIOUS
  <2>2. NoCall.action = "none" /\ NoCall.is = "none"
    BY DEF NoCall
  <2>3. \A r \in Ranks : call'[r] = IF r \in rs THEN c ELSE NoCall
    BY <1>4
  <2> HIDE DEF c
  <2>4. \A r \in Ranks : call'[r] = NoCall \/ (call'[r] = c /\ r \in rs)
    BY <2>3
  <2> QED
    BY <1>2, <2>1, <2>2, <2>4
<1>6. MatrixTypes'
  <2>1. call' \in [Ranks -> {NoCall} \cup [action : Actions, is : {"under way", "ok", "failed"}]]
    BY <1>1, <1>3 DEF Start
  <2> QED
    BY <1>1, <1>2, <2>1 DEF MatrixTypes, AtLock, AtCheckpoint, AtRestore, AtUnlock
<1>7. StepsFit'
  BY <1>1, <1>2 DEF StepsFit, Quiet, AtLock, AtCheckpoint, AtRestore, AtUnlock
<1>8. VerdictsFit'
  BY <1>1, <1>2 DEF VerdictsFit, AtVerify, AtRest
<1>9. CallsFit'
  <2>1. Rank' = Rank
    BY <1>1 DEF Rank
  <2>2. ASSUME NEW r \in Ranks, call'[r] # NoCall
        PROVE  at' = Called[call'[r].action]
               /\ (r = Rank \/ (parallel /\ turn = 1 /\ at' = "checkpoint called"))
    <3>1. r \in rs /\ call'[r].action = action
      BY <1>5, <2>2
    <3>2. r = Rank \/ (action = "checkpoint" /\ parallel /\ turn = 1)
      BY <1>1, <3>1
    <3> QED
      BY <1>1, <1>2, <3>1, <3>2
  <2> QED
    BY <1>1, <2>1, <2>2 DEF CallsFit
<1>10. DriverFits'
  <2>1. \A r \in Ranks : call[r].is # "ok" /\ call'[r].is # "ok"
    <3>1. NoCall.is # "ok"
      BY DEF NoCall
    <3> QED
      BY <1>3, <1>5, <3>1
  <2> QED
    BY <1>1, <2>1 DEF DriverFits
<1>11. NotCheckpointed'
  <2>1. ASSUME at' \in Quiet \cup AtLock \/ verdict = "lock failed"
        PROVE  action = "lock" /\ at \in AtLock
    BY <1>1, <1>2, <2>1 DEF Quiet, AtLock, VerdictsFit, AtVerify, AtRest
  <2>2. action = "lock" => \A r \in Ranks : call'[r].action # "checkpoint"
    BY <1>5
  <2> QED
    BY <1>1, <2>1, <2>2 DEF NotCheckpointed
<1>12. ChildrenFit'
  BY <1>1 DEF ChildrenFit, There
<1> QED
  BY <1>6, <1>7, <1>8, <1>9, <1>10, <1>11, <1>12

(* What is so when a client was collected. *)
Collected(action, x) ==
  /\ steps' = steps \cup {<<action, Rank, x>>}
  /\ steps' \subseteq ({"teardown"} \cup Actions) \X Ranks \X {"ok", "failed", "hung"}
  /\ call' \in [Ranks -> {NoCall} \cup [action : Actions, is : {"under way", "ok", "failed"}]]
  /\ late' \in [Ranks -> SUBSET Actions]
  /\ call'[Rank] = NoCall /\ \A r \in Ranks \ {Rank} : call'[r] = call[r] /\ late'[r] = late[r]
  /\ late'[Rank] \subseteq late[Rank] \cup {action}
  /\ \A r \in Ranks : call'[r] # NoCall =>
       r # Rank /\ parallel /\ turn = 1 /\ at = "checkpoint called" /\ at = Called[call'[r].action]
  /\ \A b : Never(steps', b) <=> Never(steps, b) /\ b # action
  /\ \A b : AllOk(steps', b) <=> AllOk(steps, b) /\ (b = action => x = "ok")
  /\ \A b, q : HasStep(steps', b, q) <=> HasStep(steps, b, q) \/ (b = action /\ q = Rank)
  /\ \A b : b # action \/ x # "ok" => Fine(steps', b) = Fine(steps, b)
  /\ x = "ok" => Fine(steps', action) = Fine(steps, action) \cup {Rank}
  /\ DriverFits'

(* Whether the client answered, failed or hung. *)
LEMMA CollectFacts ==
  ASSUME MatrixInv, NEW action \in Actions, at = Called[action], NEW x \in {"ok", "failed", "hung"},
         Collect(action, Rank, x), UNCHANGED driver
  PROVE  Collected(action, x)
<1> USE DEF MatrixInv
<1>1. Rank \in Ranks /\ Rank = (IF turn = 1 THEN "rank0" ELSE "rank1") /\ NoCall.is = "none"
      /\ NoCall.action = "none" /\ Ranks = {"rank0", "rank1"}
  BY RankFacts
<1>2. /\ steps' = steps \cup {<<action, Rank, x>>} /\ call' = [call EXCEPT ![Rank] = NoCall]
      /\ \/ call[Rank].is = x /\ x \in {"ok", "failed"} /\ late' = late
         \/ x = "hung" /\ late' = [late EXCEPT ![Rank] = @ \cup {action}]
      /\ call[Rank].action = action
  BY DEF Collect
<1>3. steps' \subseteq ({"teardown"} \cup Actions) \X Ranks \X {"ok", "failed", "hung"}
  <2>1. <<action, Rank, x>> \in ({"teardown"} \cup Actions) \X Ranks \X {"ok", "failed", "hung"}
    BY <1>1
  <2> QED
    BY <1>2, <2>1 DEF MatrixTypes
<1>4. /\ call' \in [Ranks -> {NoCall} \cup [action : Actions, is : {"under way", "ok", "failed"}]]
      /\ call'[Rank] = NoCall /\ \A r \in Ranks \ {Rank} : call'[r] = call[r]
  BY <1>1, <1>2 DEF MatrixTypes
<1>5. /\ late' \in [Ranks -> SUBSET Actions]
      /\ late'[Rank] \subseteq late[Rank] \cup {action}
      /\ \A r \in Ranks \ {Rank} : late'[r] = late[r]
  <2>1. CASE late' = late
    BY <2>1 DEF MatrixTypes
  <2>2. CASE late' = [late EXCEPT ![Rank] = @ \cup {action}]
    <3>1. late[Rank] \cup {action} \in SUBSET Actions
      BY <1>1 DEF MatrixTypes
    <3> QED
      BY <1>1, <2>2, <3>1 DEF MatrixTypes
  <2> QED
    BY <1>2, <2>1, <2>2
<1>6. ASSUME NEW r \in Ranks, call'[r] # NoCall
      PROVE  r # Rank /\ parallel /\ turn = 1 /\ at = "checkpoint called" /\ at = Called[call'[r].action]
  <2>1. at # "stuck"
    BY Tables DEF Actions
  <2> QED
    BY <1>4, <1>6, <2>1 DEF CallsFit
<1>7. /\ \A b : Never(steps', b) <=> Never(steps, b) /\ b # action
      /\ \A b : AllOk(steps', b) <=> AllOk(steps, b) /\ (b = action => x = "ok")
      /\ \A b, q : HasStep(steps', b, q) <=> HasStep(steps, b, q) \/ (b = action /\ q = Rank)
      /\ \A b : b # action \/ x # "ok" => Fine(steps', b) = Fine(steps, b)
      /\ x = "ok" => Fine(steps', action) = Fine(steps, action) \cup {Rank}
      /\ \A q : Faultless(steps', q) <=> Faultless(steps, q) /\ (action \in Actions /\ q = Rank => x = "ok")
  <2> DEFINE s == <<action, Rank, x>>
  <2>1. s[1] = action /\ s[2] = Rank /\ s[3] = x
    OBVIOUS
  <2>2. \A q : q \in steps' <=> q \in steps \/ q = s
    BY <1>2
  <2>3. /\ \A b \in {action} : \A q \in Ranks : <<b, q, "ok">> = s <=> q = Rank /\ x = "ok"
        /\ \A b, q : b # action \/ x # "ok" => <<b, q, "ok">> # s
    OBVIOUS
  <2> HIDE DEF s, MatrixInv
  <2>4. \A b : Never(steps', b) <=> Never(steps, b) /\ b # action
    BY <2>1, <2>2 DEF Never
  <2>5. \A b : AllOk(steps', b) <=> AllOk(steps, b) /\ (b = action => x = "ok")
    BY <2>1, <2>2 DEF AllOk
  <2>6. \A b, q : HasStep(steps', b, q) <=> HasStep(steps, b, q) \/ (b = action /\ q = Rank)
    BY <2>1, <2>2 DEF HasStep
  <2>7. \A b : b # action \/ x # "ok" => Fine(steps', b) = Fine(steps, b)
    BY <2>2, <2>3 DEF Fine
  <2>8. x = "ok" => Fine(steps', action) = Fine(steps, action) \cup {Rank}
    BY <1>1, <2>2, <2>3 DEF Fine
  <2>9. \A q : Faultless(steps', q) <=> Faultless(steps, q) /\ (action \in Actions /\ q = Rank => x = "ok")
    BY <2>1, <2>2 DEF Faultless
  <2> QED
    BY <2>4, <2>5, <2>6, <2>7, <2>8, <2>9
<1>8. DriverFits'
  <2> SUFFICES ASSUME NEW r \in Ranks, Faultless(steps', r)
               PROVE  /\ late'[r] = {}
                      /\ driver[r] = IF call'[r].is = "ok" THEN After[call'[r].action] ELSE Level(steps', r)
    BY DEF DriverFits
  <2>1. Faultless(steps, r) /\ (r = Rank => x = "ok")
    BY <1>7
  <2>2. /\ late[r] = {}
        /\ driver[r] = IF call[r].is = "ok" THEN After[call[r].action] ELSE Level(steps, r)
    BY <2>1 DEF DriverFits
  <2>3. /\ \A b : b # action \/ x # "ok" => Fine(steps', b) = Fine(steps, b)
        /\ x = "ok" => Fine(steps', action) = Fine(steps, action) \cup {Rank}
    BY <1>7
  <2>4. CASE r # Rank
    <3>1. Level(steps', r) = Level(steps, r)
      BY <2>3, <2>4 DEF Level
    <3> QED
      BY <1>4, <1>5, <2>2, <2>4, <3>1
  <2>5. CASE r = Rank
    <3>1. x = "ok" /\ late' = late /\ driver[r] = After[action] /\ call'[r] = NoCall
      BY <1>1, <1>2, <1>4, <2>1, <2>2, <2>5
    <3>2. \A b : Never(steps, b) => Fine(steps, b) = {}
      <4>1. \A b : <<b, "rank0", "ok">>[1] = b /\ <<b, "rank1", "ok">>[1] = b
        OBVIOUS
      <4> QED
        BY <1>1, <4>1 DEF Never, Fine
    <3>3. Level(steps', r) = After[action]
      <4>1. CASE action = "lock"
        <5>1. /\ Never(steps, "checkpoint") /\ Never(steps, "restore") /\ Never(steps, "unlock")
          BY <4>1, Tables DEF StepsFit, AtLock
        <5> QED
          BY <2>3, <2>5, <3>1, <3>2, <4>1, <5>1, Tables DEF Level
      <4>2. CASE action = "checkpoint"
        <5>1. /\ Never(steps, "restore") /\ Never(steps, "unlock")
          BY <4>2, Tables DEF StepsFit, AtCheckpoint
        <5> QED
          BY <2>3, <2>5, <3>1, <3>2, <4>2, <5>1, Tables DEF Level
      <4>3. CASE action = "restore"
        <5>1. Never(steps, "unlock")
          BY <4>3, Tables DEF StepsFit, AtRestore
        <5> QED
          BY <2>3, <2>5, <3>1, <3>2, <4>3, <5>1, Tables DEF Level
      <4>4. CASE action = "unlock"
        BY <2>3, <2>5, <3>1, <4>4, Tables DEF Level
      <4> QED
        BY <4>1, <4>2, <4>3, <4>4 DEF Actions
    <3> QED
      BY <1>1, <2>2, <3>1, <3>3
  <2> QED
    BY <2>4, <2>5
<1> QED
  BY <1>2, <1>3, <1>4, <1>5, <1>6, <1>7, <1>8 DEF Collected

(* The four clients are noted, in their order. *)
LEMMA LockedKeeps == ASSUME MatrixInv, Locked PROVE MatrixInv'
<1> USE DEF MatrixInv
<1>1. PICK x \in {"ok", "failed", "hung"} :
        /\ Collect("lock", Rank, x)
        /\ \/ x # "ok" /\ at' = "clean" /\ turn' = 1 /\ verdict' = "lock failed"
           \/ x = "ok" /\ turn = 2 /\ at' = "checkpoint" /\ turn' = 1 /\ verdict' = verdict
           \/ x = "ok" /\ turn # 2 /\ at' = "lock" /\ turn' = 2 /\ verdict' = verdict
  BY DEF Locked, Go
<1>2. /\ at = "lock called" /\ UNCHANGED <<parallel, child, holds, files, command, driver, verified>>
      /\ verdict = "none"
  BY DEF Locked, childVars, VerdictsFit, AtVerify, AtRest
<1>3. "lock" \in Actions /\ at = Called["lock"]
  BY <1>2, Tables DEF Actions
<1>4. Collected("lock", x)
  <2> HIDE DEF MatrixInv
  <2> QED
    BY <1>1, <1>2, <1>3, CollectFacts
<1>5. /\ steps' = steps \cup {<<"lock", Rank, x>>}
      /\ steps' \subseteq ({"teardown"} \cup Actions) \X Ranks \X {"ok", "failed", "hung"}
      /\ call' \in [Ranks -> {NoCall} \cup [action : Actions, is : {"under way", "ok", "failed"}]]
      /\ late' \in [Ranks -> SUBSET Actions]
      /\ \A r \in Ranks : call'[r] = NoCall
      /\ \A r \in Ranks : late'[r] \subseteq late[r] \cup {"lock"}
      /\ DriverFits'
  BY <1>2, <1>4 DEF Collected
<1>6. /\ \A b : Never(steps', b) <=> Never(steps, b) /\ b # "lock"
      /\ \A b : AllOk(steps', b) <=> AllOk(steps, b) /\ (b = "lock" => x = "ok")
      /\ \A b : b # "lock" \/ x # "ok" => Fine(steps', b) = Fine(steps, b)
      /\ x = "ok" => Fine(steps', "lock") = Fine(steps, "lock") \cup {Rank}
  BY <1>4 DEF Collected
<1>7. Rank \in Ranks /\ Rank = (IF turn = 1 THEN "rank0" ELSE "rank1") /\ turn \in {1, 2}
      /\ NoCall.action = "none" /\ Ranks = {"rank0", "rank1"}
  BY RankFacts DEF MatrixTypes
<1>8. MatrixTypes'
  BY <1>1, <1>2, <1>5 DEF MatrixTypes, AtRest, AtCheckpoint, AtLock
<1>9. /\ Never(steps', "checkpoint") /\ Never(steps', "restore") /\ Never(steps', "unlock")
      /\ x = "ok" => AllOk(steps', "lock") /\ Rank \in Fine(steps', "lock")
      /\ turn = 2 => "rank0" \in Fine(steps', "lock")
  <2>1. /\ Never(steps, "checkpoint") /\ Never(steps, "restore") /\ Never(steps, "unlock")
        /\ AllOk(steps, "lock") /\ (turn = 2 => "rank0" \in Fine(steps, "lock"))
    BY <1>2 DEF StepsFit, AtLock
  <2> QED
    BY <1>6, <1>7, <2>1
<1>10. turn = 2 /\ x = "ok" => AllDone(steps', "lock")
  <2>1. Fine(steps', "lock") \subseteq Ranks
    BY DEF Fine
  <2> QED
    BY <1>7, <1>9, <2>1 DEF AllDone
<1>11. StepsFit'
  <2>1. CASE at' = "clean"
    BY <1>9, <2>1 DEF StepsFit, Quiet, AtLock, AtCheckpoint, AtRestore, AtUnlock
  <2>2. CASE at' = "checkpoint" /\ turn' = 1 /\ turn = 2 /\ x = "ok"
    <3>1. AllDone(steps', "lock")
      BY <1>10, <2>2
    <3>2. at' \notin Quiet \cup AtLock \cup {"states"} \cup AtRestore \cup AtUnlock /\ turn' = 1
      BY <2>2 DEF Quiet, AtLock, AtRestore, AtUnlock
    <3> QED
      BY <1>9, <3>1, <3>2 DEF StepsFit
  <2>3. CASE at' = "lock" /\ turn' = 2 /\ turn # 2 /\ x = "ok"
    <3>1. "rank0" \in Fine(steps', "lock")
      BY <1>7, <1>9, <2>3
    <3> QED
      BY <1>9, <2>3, <3>1 DEF StepsFit, Quiet, AtLock, AtCheckpoint, AtRestore, AtUnlock
  <2> QED
    BY <1>1, <2>1, <2>2, <2>3
<1>12. VerdictsFit'
  <2>1. ~ verified
    BY <1>2 DEF VerdictsFit, AtRest
  <2> QED
    BY <1>1, <1>2, <2>1 DEF VerdictsFit, AtVerify, AtRest
<1>13. CallsFit'
  BY <1>5 DEF CallsFit
<1>14. NotCheckpointed'
  <2>1. \A r \in Ranks : driver[r] # "checkpointed" /\ "checkpoint" \notin late[r]
    BY <1>2 DEF NotCheckpointed, AtLock
  <2>2. \A r \in Ranks : "checkpoint" \notin late'[r]
    BY <1>5, <2>1
  <2>3. \A r \in Ranks : call'[r].action # "checkpoint"
    BY <1>5, <1>7
  <2> QED
    BY <1>2, <2>1, <2>2, <2>3 DEF NotCheckpointed
<1>15. ChildrenFit'
  <2>1. \A r \in Ranks : <<"teardown", r, "ok">> \in steps' => <<"teardown", r, "ok">> \in steps
    BY <1>5
  <2>2. \A r \in Ranks : command[r] # "verify" /\ child[r] # "verify" /\ <<"verified", r>> \notin files
    BY <1>2 DEF ChildrenFit
  <2> QED
    BY <1>2, <2>1, <2>2 DEF ChildrenFit, There
<1> QED
  BY <1>5, <1>8, <1>11, <1>12, <1>13, <1>14, <1>15

(* As above; with --parallel both clients were started. *)
LEMMA CheckpointedKeeps == ASSUME MatrixInv, Checkpointed PROVE MatrixInv'
<1> USE DEF MatrixInv
<1>1. PICK x \in {"ok", "failed", "hung"} :
        /\ Collect("checkpoint", Rank, x)
        /\ \/ turn = 2 /\ at' = "states" /\ turn' = 1
           \/ ~ parallel /\ x # "ok" /\ at' = "states" /\ turn' = 1
           \/ /\ turn # 2 /\ turn' = 2 /\ at' = (IF parallel THEN "checkpoint called" ELSE "checkpoint")
  BY DEF Checkpointed, Go
<1>2. /\ at = "checkpoint called"
      /\ UNCHANGED <<parallel, child, holds, files, command, driver, verdict, verified>>
      /\ verdict = "none" /\ ~ verified
  BY DEF Checkpointed, childVars, VerdictsFit, AtVerify, AtRest
<1>3. "checkpoint" \in Actions /\ at = Called["checkpoint"]
  BY <1>2, Tables DEF Actions
<1>4. Collected("checkpoint", x)
  <2> HIDE DEF MatrixInv
  <2> QED
    BY <1>1, <1>2, <1>3, CollectFacts
<1>5. /\ steps' = steps \cup {<<"checkpoint", Rank, x>>}
      /\ steps' \subseteq ({"teardown"} \cup Actions) \X Ranks \X {"ok", "failed", "hung"}
      /\ call' \in [Ranks -> {NoCall} \cup [action : Actions, is : {"under way", "ok", "failed"}]]
      /\ late' \in [Ranks -> SUBSET Actions]
      /\ \A r \in Ranks : call'[r] # NoCall =>
           r # Rank /\ parallel /\ turn = 1 /\ at = "checkpoint called" /\ at = Called[call'[r].action]
      /\ DriverFits'
  BY <1>2, <1>4 DEF Collected
<1>6. /\ \A b : Never(steps', b) <=> Never(steps, b) /\ b # "checkpoint"
      /\ \A b : AllOk(steps', b) <=> AllOk(steps, b) /\ (b = "checkpoint" => x = "ok")
      /\ \A b, q : HasStep(steps', b, q) <=> HasStep(steps, b, q) \/ (b = "checkpoint" /\ q = Rank)
      /\ \A b : b # "checkpoint" \/ x # "ok" => Fine(steps', b) = Fine(steps, b)
      /\ x = "ok" => Fine(steps', "checkpoint") = Fine(steps, "checkpoint") \cup {Rank}
  BY <1>4 DEF Collected
<1>7. Rank \in Ranks /\ Rank = (IF turn = 1 THEN "rank0" ELSE "rank1") /\ turn \in {1, 2}
      /\ Ranks = {"rank0", "rank1"}
  BY RankFacts DEF MatrixTypes
<1>8. MatrixTypes'
  BY <1>1, <1>2, <1>5 DEF MatrixTypes, AtCheckpoint
<1>9. /\ Never(steps', "restore") /\ Never(steps', "unlock") /\ AllDone(steps', "lock")
      /\ HasStep(steps', "checkpoint", Rank)
      /\ turn = 2 => HasStep(steps', "checkpoint", "rank0")
      /\ x # "ok" => ~ AllOk(steps', "checkpoint")
  <2>1. /\ Never(steps, "restore") /\ Never(steps, "unlock") /\ AllDone(steps, "lock")
        /\ (turn = 2 => HasStep(steps, "checkpoint", "rank0"))
    BY <1>2 DEF StepsFit, AtCheckpoint
  <2>2. /\ Never(steps', "restore") /\ Never(steps', "unlock")
        /\ AllOk(steps', "lock") <=> AllOk(steps, "lock")
        /\ Fine(steps', "lock") = Fine(steps, "lock")
        /\ \A q : HasStep(steps', "checkpoint", q) <=> HasStep(steps, "checkpoint", q) \/ q = Rank
        /\ AllOk(steps', "checkpoint") <=> AllOk(steps, "checkpoint") /\ x = "ok"
    BY <1>6, <2>1
  <2> QED
    BY <2>1, <2>2 DEF AllDone
<1>10. StepsFit'
  <2>1. CASE at' = "states"
    <3>1. turn = 2 => \A r \in Ranks : HasStep(steps', "checkpoint", r)
      BY <1>7, <1>9
    <3>2. (\A r \in Ranks : HasStep(steps', "checkpoint", r)) \/ ~ AllOk(steps', "checkpoint")
      BY <1>1, <1>9, <2>1, <3>1
    <3> QED
      BY <1>9, <2>1, <3>2 DEF StepsFit, Quiet, AtLock, AtCheckpoint, AtRestore, AtUnlock
  <2>2. CASE turn # 2 /\ at' \in {"checkpoint", "checkpoint called"}
    <3>1. HasStep(steps', "checkpoint", "rank0")
      BY <1>7, <1>9, <2>2
    <3> QED
      BY <1>9, <2>2, <3>1 DEF StepsFit, Quiet, AtLock, AtCheckpoint, AtRestore, AtUnlock
  <2> QED
    BY <1>1, <2>1, <2>2
<1>11. VerdictsFit'
  BY <1>1, <1>2 DEF VerdictsFit, AtVerify, AtRest
<1>12. CallsFit'
  <2> SUFFICES ASSUME NEW r \in Ranks, call'[r] # NoCall
               PROVE  at' = Called[call'[r].action] /\ r = Rank'
    BY DEF CallsFit
  <2>1. r # Rank /\ parallel /\ turn = 1 /\ at = Called[call'[r].action]
    BY <1>5
  <2>2. at' = "checkpoint called" /\ turn' = 2
    <3>1. turn # 2
      BY <2>1
    <3> QED
      BY <1>1, <2>1, <3>1
  <2>3. Rank' = "rank1"
    BY <2>2 DEF Rank, RankOrder
  <2> QED
    BY <1>2, <1>7, <2>1, <2>2, <2>3
<1>13. NotCheckpointed'
  BY <1>1, <1>2 DEF NotCheckpointed, AtLock, Quiet
<1>14. ChildrenFit'
  <2>1. \A r \in Ranks : <<"teardown", r, "ok">> \in steps' => <<"teardown", r, "ok">> \in steps
    BY <1>5
  <2> QED
    BY <1>2, <2>1 DEF ChildrenFit, There
<1> QED
  BY <1>5, <1>8, <1>10, <1>11, <1>12, <1>13, <1>14

(* As above, whatever came of it. *)
LEMMA RestoredKeeps == ASSUME MatrixInv, Restored PROVE MatrixInv'
<1> USE DEF MatrixInv
<1>1. PICK x \in {"ok", "failed", "hung"} : Collect("restore", Rank, x)
  BY DEF Restored
<1>2. /\ at = "restore called"
      /\ UNCHANGED <<parallel, child, holds, files, command, driver, verdict, verified>>
      /\ verdict = "none" /\ ~ verified
      /\ \/ turn = 2 /\ at' = "unlock" /\ turn' = 1
         \/ turn # 2 /\ at' = "restore" /\ turn' = 2
  BY DEF Restored, Go, childVars, VerdictsFit, AtVerify, AtRest
<1>3. "restore" \in Actions /\ at = Called["restore"]
  BY <1>2, Tables DEF Actions
<1>4. Collected("restore", x)
  <2> HIDE DEF MatrixInv
  <2> QED
    BY <1>1, <1>2, <1>3, CollectFacts
<1>5. Rank \in Ranks /\ Rank = (IF turn = 1 THEN "rank0" ELSE "rank1") /\ turn \in {1, 2}
      /\ Ranks = {"rank0", "rank1"}
  BY RankFacts DEF MatrixTypes
<1>6. MatrixTypes'
  BY <1>2, <1>4 DEF MatrixTypes, AtRestore, AtUnlock, Collected
<1>7. /\ Never(steps', "unlock") /\ AllDone(steps', "lock") /\ AllDone(steps', "checkpoint")
      /\ HasStep(steps', "restore", Rank)
      /\ turn = 2 => HasStep(steps', "restore", "rank0")
  <2>1. /\ Never(steps, "unlock") /\ AllDone(steps, "lock") /\ AllDone(steps, "checkpoint")
        /\ (turn = 2 => HasStep(steps, "restore", "rank0"))
    BY <1>2 DEF StepsFit, AtRestore
  <2>2. /\ Never(steps', "unlock")
        /\ AllOk(steps', "lock") <=> AllOk(steps, "lock")
        /\ AllOk(steps', "checkpoint") <=> AllOk(steps, "checkpoint")
        /\ Fine(steps', "lock") = Fine(steps, "lock")
        /\ Fine(steps', "checkpoint") = Fine(steps, "checkpoint")
        /\ \A q : HasStep(steps', "restore", q) <=> HasStep(steps, "restore", q) \/ q = Rank
    BY <1>4, <2>1 DEF Collected
  <2> QED
    BY <2>1, <2>2 DEF AllDone
<1>8. StepsFit'
  <2>1. turn = 2 => \A r \in Ranks : HasStep(steps', "restore", r)
    BY <1>5, <1>7
  <2>2. turn # 2 => HasStep(steps', "restore", "rank0")
    BY <1>5, <1>7
  <2>3. Fine(steps', "checkpoint") = Ranks
    BY <1>7 DEF AllDone
  <2>4. CASE turn = 2 /\ at' = "unlock" /\ turn' = 1
    <3>1. at' \notin Quiet \cup AtLock \cup AtCheckpoint \cup {"states"} \cup AtRestore
      BY <2>4 DEF Quiet, AtLock, AtCheckpoint, AtRestore
    <3> QED
      BY <1>7, <2>1, <2>3, <2>4, <3>1 DEF StepsFit
  <2>5. CASE turn # 2 /\ at' = "restore" /\ turn' = 2
    <3>1. at' \notin Quiet \cup AtLock \cup AtCheckpoint \cup {"states"} \cup AtUnlock
      BY <2>5 DEF Quiet, AtLock, AtCheckpoint, AtUnlock
    <3> QED
      BY <1>7, <2>2, <2>3, <2>5, <3>1 DEF StepsFit
  <2> QED
    BY <1>2, <2>4, <2>5
<1>9. VerdictsFit'
  BY <1>2 DEF VerdictsFit, AtVerify, AtRest
<1>10. CallsFit' /\ DriverFits'
  BY <1>2, <1>4 DEF CallsFit, Collected
<1>11. NotCheckpointed'
  BY <1>2 DEF NotCheckpointed, AtLock, Quiet
<1>12. ChildrenFit'
  <2>1. \A r \in Ranks : <<"teardown", r, "ok">> \in steps' => <<"teardown", r, "ok">> \in steps
    BY <1>4 DEF Collected
  <2> QED
    BY <1>2, <2>1 DEF ChildrenFit, There
<1> QED
  BY <1>6, <1>8, <1>9, <1>10, <1>11, <1>12

(* As above, and the verdict. *)
LEMMA UnlockedKeeps == ASSUME MatrixInv, Unlocked PROVE MatrixInv'
<1> USE DEF MatrixInv
<1> DEFINE ok == \A s \in steps' : s[1] \in {"restore", "unlock"} => s[3] = "ok"
<1>1. PICK x \in {"ok", "failed", "hung"} : Collect("unlock", Rank, x)
  BY DEF Unlocked
<1>2. /\ at = "unlock called" /\ UNCHANGED <<parallel, child, holds, files, command, driver, verified>>
      /\ verdict = "none" /\ ~ verified
      /\ \/ turn = 1 /\ at' = "unlock" /\ turn' = 2 /\ verdict' = verdict
         \/ turn # 1 /\ ok /\ at' = "ask verify" /\ turn' = 1 /\ verdict' = "round trip OK"
         \/ turn # 1 /\ at' = "clean" /\ turn' = 1 /\ verdict' = "restore/unlock failed"
  BY DEF Unlocked, Go, childVars, VerdictsFit, AtVerify, AtRest
<1>3. "unlock" \in Actions /\ at = Called["unlock"]
  BY <1>2, Tables DEF Actions
<1>4. Collected("unlock", x)
  <2> HIDE DEF MatrixInv
  <2> QED
    BY <1>1, <1>2, <1>3, CollectFacts
<1>5. Rank \in Ranks /\ Rank = (IF turn = 1 THEN "rank0" ELSE "rank1") /\ turn \in {1, 2}
      /\ Ranks = {"rank0", "rank1"}
  BY RankFacts DEF MatrixTypes
<1>6. MatrixTypes'
  BY <1>2, <1>4 DEF MatrixTypes, AtUnlock, AtVerify, AtRest, Collected
<1>7. /\ AllDone(steps', "lock") /\ AllDone(steps', "checkpoint")
      /\ \A r \in Ranks : HasStep(steps', "restore", r)
      /\ HasStep(steps', "unlock", Rank)
      /\ turn = 2 => HasStep(steps', "unlock", "rank0")
  <2>1. /\ AllDone(steps, "lock") /\ AllDone(steps, "checkpoint")
        /\ \A r \in Ranks : HasStep(steps, "restore", r)
        /\ (turn = 2 => HasStep(steps, "unlock", "rank0"))
    BY <1>2 DEF StepsFit, AtUnlock
  <2>2. /\ AllOk(steps', "lock") <=> AllOk(steps, "lock")
        /\ AllOk(steps', "checkpoint") <=> AllOk(steps, "checkpoint")
        /\ Fine(steps', "lock") = Fine(steps, "lock")
        /\ Fine(steps', "checkpoint") = Fine(steps, "checkpoint")
        /\ \A q : HasStep(steps', "restore", q) <=> HasStep(steps, "restore", q)
        /\ \A q : HasStep(steps', "unlock", q) <=> HasStep(steps, "unlock", q) \/ q = Rank
    <3>1. /\ AllOk(steps', "lock") <=> AllOk(steps, "lock")
          /\ AllOk(steps', "checkpoint") <=> AllOk(steps, "checkpoint")
      BY <1>4 DEF Collected
    <3>2. /\ Fine(steps', "lock") = Fine(steps, "lock")
          /\ Fine(steps', "checkpoint") = Fine(steps, "checkpoint")
      BY <1>4 DEF Collected
    <3>3. /\ \A q : HasStep(steps', "restore", q) <=> HasStep(steps, "restore", q)
          /\ \A q : HasStep(steps', "unlock", q) <=> HasStep(steps, "unlock", q) \/ q = Rank
      <4>1. \A b, q : HasStep(steps', b, q) <=> HasStep(steps, b, q) \/ (b = "unlock" /\ q = Rank)
        BY <1>4 DEF Collected
      <4>2. "restore" # "unlock"
        OBVIOUS
      <4> QED
        BY <4>1, <4>2, Zenon
    <3> QED
      BY <3>1, <3>2, <3>3
  <2> QED
    BY <2>1, <2>2 DEF AllDone
<1>8. StepsFit'
  <2>1. Fine(steps', "checkpoint") = Ranks
    BY <1>7 DEF AllDone
  <2>2. turn = 1 => HasStep(steps', "unlock", "rank0")
    BY <1>5, <1>7
  <2>3. /\ at' \notin Quiet \cup AtLock \cup AtCheckpoint \cup {"states"} \cup AtRestore
        /\ at' \in AtUnlock => turn = 1
    BY <1>2 DEF Quiet, AtLock, AtCheckpoint, AtRestore, AtUnlock
  <2> QED
    BY <1>7, <2>1, <2>2, <2>3 DEF StepsFit
<1>9. turn # 1 /\ ok => \A action \in Actions : AllDone(steps', action)
  <2> SUFFICES ASSUME turn # 1, ok PROVE \A action \in Actions : AllDone(steps', action)
    OBVIOUS
  <2>1. AllOk(steps', "restore") /\ AllOk(steps', "unlock")
    BY DEF AllOk
  <2>2. \A r \in Ranks : HasStep(steps', "unlock", r)
    BY <1>5, <1>7
  <2>3. AllDone(steps', "restore") /\ AllDone(steps', "unlock")
    BY <1>4, <1>7, <2>1, <2>2, AllFine DEF Collected
  <2> QED
    BY <1>7, <2>3 DEF Actions
<1>10. VerdictsFit'
  <2> HIDE DEF ok
  <2> QED
    BY <1>2, <1>9 DEF VerdictsFit, AtVerify, AtRest
<1>11. CallsFit' /\ DriverFits'
  BY <1>2, <1>4 DEF CallsFit, Collected
<1>12. NotCheckpointed'
  BY <1>2 DEF NotCheckpointed, AtLock, Quiet
<1>13. ChildrenFit'
  <2>1. \A r \in Ranks : <<"teardown", r, "ok">> \in steps' => <<"teardown", r, "ok">> \in steps
    BY <1>4 DEF Collected
  <2>2. \A r \in Ranks : command[r] # "verify" /\ child[r] # "verify" /\ <<"verified", r>> \notin files
    BY <1>2 DEF ChildrenFit
  <2> QED
    BY <1>2, <2>1, <2>2 DEF ChildrenFit, There
<1> QED
  BY <1>6, <1>8, <1>10, <1>11, <1>12, <1>13

(* The matrix's invariant is one. *)
LEMMA MatrixKeeps == ASSUME MatrixInv, [MatrixNext]_matrixVars PROVE MatrixInv'
<1>1. CASE UNCHANGED matrixVars
  <2>1. /\ UNCHANGED <<parallel, at, turn, child, holds, files, command, driver, call, late, steps,
                       verdict, verified>>
        /\ Rank' = Rank /\ \A name : There(name)' = There(name)
    BY <1>1 DEF matrixVars, Rank, There
  <2>2. MatrixTypes' /\ NotCheckpointed'
    BY <2>1 DEF MatrixInv, MatrixTypes, NotCheckpointed
  <2>3. CallsFit' /\ DriverFits' /\ ChildrenFit'
    BY <2>1 DEF MatrixInv, CallsFit, DriverFits, ChildrenFit, There
  <2>4. StepsFit'
    BY <2>1 DEF MatrixInv, StepsFit
  <2>5. VerdictsFit'
    BY <2>1 DEF MatrixInv, VerdictsFit
  <2> QED
    BY <2>2, <2>3, <2>4, <2>5 DEF MatrixInv
<1>2. CASE Parent
  BY <1>2, SpawnKeeps, AwaitReadyKeeps, CommandKeeps, TornDownKeeps, StartKeeps, LockedKeeps,
     CheckpointedKeeps, JudgeModeKeeps, RestoredKeeps, UnlockedKeeps, EndKeeps DEF Parent
<1>3. ASSUME NEW r \in Ranks,
             \/ Boot(r) \/ Exchange(r) \/ TakeCommand(r) \/ Teardown(r) \/ DestroyReturns(r)
             \/ Verify(r) \/ ChildFails(r) \/ DriverAnswers(r) \/ DriverAnswersLate(r)
      PROVE  MatrixInv'
  BY <1>3, ChildKeeps, DestroyReturnsKeeps, DriverKeeps
<1> QED
  BY <1>1, <1>2, <1>3, ParentHangsKeeps DEF MatrixNext

(* It says that the matrix says what happened. *)
LEMMA MatrixSays == ASSUME MatrixInv PROVE RoundTripIsTrue
<1> USE DEF MatrixInv
<1>1. \A action : Oks(action) = Fine(steps, action)
  BY DEF Oks, Fine
<1>2. ASSUME Judged, verdict = "round trip OK"
      PROVE  /\ \A action \in DOMAIN After : Oks(action) = Ranks
             /\ \A r \in Ranks : driver[r] = "running"
  <2>1. \A action \in Actions : Fine(steps, action) = Ranks /\ AllOk(steps, action)
    BY <1>2 DEF VerdictsFit, AllDone
  <2>2. ASSUME NEW r \in Ranks PROVE driver[r] = "running"
    <3>1. Faultless(steps, r)
      BY <2>1 DEF Faultless, AllOk
    <3>2. call[r] = NoCall
      BY <1>2, NoClient DEF Judged
    <3>3. Level(steps, r) = "running"
      BY <2>1 DEF Level, Actions
    <3> QED
      BY <3>1, <3>2, <3>3 DEF DriverFits, NoCall
  <2> QED
    BY <1>1, <2>1, <2>2, Tables
<1>3. \A s \in steps : s[1] = "restore" => Oks("checkpoint") = Ranks
  BY <1>1 DEF StepsFit, Never
<1>4. verdict = "checkpoint HUNG" => \E r \in Ranks : <<"checkpoint", r, "hung">> \in steps
  BY DEF VerdictsFit
<1>5. verdict = "lock failed" => \A r \in Ranks : driver[r] # "checkpointed"
  BY DEF NotCheckpointed
<1>6. verified => verdict = "round trip OK"
  BY DEF VerdictsFit
<1>7. \A r \in Ranks : <<"verified", r>> \in files => Oks("unlock") = Ranks
  BY <1>1 DEF ChildrenFit, VerdictsFit, AllDone, Actions
<1>8. ASSUME Oks("teardown") = Ranks, NEW r \in Ranks
      PROVE  /\ "peer" \notin holds[r]
             /\ "comm" \in holds[r] => <<"blocked", r>> \in files \/ <<"raised", r>> \in files
  <2>1. <<"teardown", r, "ok">> \in steps
    BY <1>8 DEF Oks
  <2>2. <<"torn", r>> \in files
    BY <2>1 DEF ChildrenFit, There
  <2> QED
    BY <2>2 DEF ChildrenFit
<1> QED
  BY <1>2, <1>3, <1>4, <1>5, <1>6, <1>7, <1>8 DEF RoundTripIsTrue

(* The verdicts of the two CUDA scripts are true. A round trip that is OK took
   both ranks through the driver and back, nothing is restored before both are
   checkpointed, "verified" follows both unlocks, a teardown that is ok released
   what was shared unless a child's log says that its destroy blocked or raised
   (cuda-checkpoint-ipc-matrix.py, run_mode()). An arm that is ok
   captured every graph once, by the thread it was dealt to, and its threads
   began together (cudagraph-concurrent-capture.py, run()). *)
THEOREM VerdictsCorrect == Spec => []VerdictsAreTrue
<1> DEFINE Inv == MatrixInv /\ ArmInv
<1>1. Init => Inv
  BY MatrixStarts, ArmStarts DEF Init
<1>2. Inv /\ [Next]_allVars => Inv'
  <2> SUFFICES ASSUME Inv, [Next]_allVars PROVE Inv'
    OBVIOUS
  <2>1. [MatrixNext]_matrixVars /\ [ArmNext]_armVars
    BY DEF Next, allVars
  <2> QED
    BY <2>1, MatrixKeeps, ArmKeeps
<1>3. Inv => VerdictsAreTrue
  BY MatrixSays, ArmSays DEF VerdictsAreTrue
<1> QED
  BY <1>1, <1>2, <1>3, PTL DEF Spec
=============================================================================
