------------------------------ MODULE Elections ------------------------------
(***************************************************************************)
(* coldstart/cs_sampler.py and coldstart/cs_env.py in the processes that   *)
(* share a trace directory: who samples the GPU, who scans the caches, and *)
(* what each writes of itself. Lock files decide; nobody removes them, a   *)
(* directory used before begins with those of the earlier run. A process   *)
(* may die at any point, and fork when it is up.                           *)
(***************************************************************************)
EXTENDS Integers, FiniteSets

CONSTANT Proc
ASSUME ProcAssumption == IsFiniteSet(Proc)

VARIABLES
  asked,    \* CS_GPU_SAMPLE
  before,   \* the lock files of an earlier run
  locks,    \* the lock files there are
  startup,  \* per process, where sitecustomize is; "forked" for a forked child
  sampler,  \* per process, where its sampler thread is
  scanner,  \* per process, where its capture thread is
  wrote     \* the records in the trace, <<name, process>>

electionVars == <<asked, before, locks, startup, sampler, scanner, wrote>>

GpuLock == ".gpu-sampler.lock"
EnvLock == ".env-capture.lock"

ElectionStart(first, used) ==
  /\ before = used /\ locks = used /\ wrote = {}
  /\ startup = [p \in Proc |-> first]
  /\ sampler = [p \in Proc |-> "off"] /\ scanner = [p \in Proc |-> "off"]
ElectionInit ==
  /\ asked \in BOOLEAN
  /\ \E used \in {{}, {GpuLock, EnvLock}} : ElectionStart("none", used)
ElectionIdle == asked = FALSE /\ ElectionStart("idle", {})

Lives(p) == startup[p] \notin {"none", "idle", "dead"}

-----------------------------------------------------------------------------
\* O_CREAT | O_EXCL: one open of a name succeeds. The directory can be written.
OpenExclusive(lock) == lock \notin locks

Exec(p) ==
  /\ startup[p] = "none" /\ startup' = [startup EXCEPT ![p] = "sampler"]
  /\ UNCHANGED <<asked, before, locks, sampler, scanner, wrote>>

\* install(): the thread, if it starts; it holds its election itself.
InstallSampler(p) ==
  /\ startup[p] = "sampler" /\ startup' = [startup EXCEPT ![p] = "env"]
  /\ \E started \in BOOLEAN :
       sampler' = [sampler EXCEPT ![p] = IF started THEN "elect" ELSE "off"]
  /\ UNCHANGED <<asked, before, locks, scanner, wrote>>

\* _elect_gpu_sampler()
ElectSampler(p) ==
  /\ Lives(p) /\ sampler[p] = "elect"
  /\ sampler' = [sampler EXCEPT ![p] = IF asked /\ OpenExclusive(GpuLock) THEN "open" ELSE "proc"]
  /\ locks' = IF asked THEN locks \cup {GpuLock} ELSE locks
  /\ UNCHANGED <<asked, before, startup, scanner, wrote>>

\* _nvml_open(): one of two bindings, or none, and then nobody samples the GPU.
NvmlOpen(p) ==
  /\ Lives(p) /\ sampler[p] = "open"
  /\ \/ /\ sampler' = [sampler EXCEPT ![p] = "gpu"]
        /\ wrote' = wrote \cup {<<"gpu.inventory", p>>}
     \/ sampler' = [sampler EXCEPT ![p] = "proc"] /\ UNCHANGED wrote
  /\ UNCHANGED <<asked, before, locks, startup, scanner>>

\* A round of _loop().
Sample(p) ==
  /\ Lives(p) /\ sampler[p] \in {"proc", "gpu"}
  /\ wrote' = wrote \cup {<<"proc", p>>} \cup (IF sampler[p] = "gpu" THEN {<<"gpu", p>>} ELSE {})
  /\ UNCHANGED <<asked, before, locks, startup, sampler, scanner>>

\* capture() in the main thread, before anything of vLLM runs: the registry cache,
\* then the election, whose winner may be unable to start the thread for the rest.
CaptureEnv(p) ==
  /\ startup[p] = "env" /\ startup' = [startup EXCEPT ![p] = "elect"]
  /\ wrote' = wrote \cup {<<"run.registry_cache", p>>}
  /\ UNCHANGED <<asked, before, locks, sampler, scanner>>
ElectScanner(p) ==
  /\ startup[p] = "elect" /\ startup' = [startup EXCEPT ![p] = "up"]
  /\ \E started \in BOOLEAN :
       scanner' = [scanner EXCEPT ![p] =
         IF OpenExclusive(EnvLock) THEN (IF started THEN "full" ELSE "lost")
                                   ELSE (IF started THEN "context" ELSE "off")]
  /\ locks' = locks \cup {EnvLock}
  /\ UNCHANGED <<asked, before, sampler, wrote>>

\* _capture_slow(), then _capture_caches() in the one that was elected.
CaptureSlow(p) ==
  /\ Lives(p) /\ scanner[p] \in {"full", "context"}
  /\ wrote' = wrote \cup {<<"run.context", p>>}
  /\ scanner' = [scanner EXCEPT ![p] = IF @ = "full" THEN "caches" ELSE "off"]
  /\ UNCHANGED <<asked, before, locks, startup, sampler>>
CaptureCaches(p) ==
  /\ Lives(p) /\ scanner[p] = "caches"
  /\ wrote' = wrote \cup {<<"run.caches", p>>}
  /\ scanner' = [scanner EXCEPT ![p] = "off"]
  /\ UNCHANGED <<asked, before, locks, startup, sampler>>

\* Threads do not come along: _restart_after_fork() begins with the election. The
\* environment is not captured again.
Fork(p, q) ==
  /\ startup[p] \in {"up", "forked"} /\ startup[q] = "none"
  /\ startup' = [startup EXCEPT ![q] = "forked"]
  /\ sampler' = [sampler EXCEPT ![q] = "elect"]
  /\ UNCHANGED <<asked, before, locks, scanner, wrote>>

Die(p) ==
  /\ Lives(p) /\ startup' = [startup EXCEPT ![p] = "dead"]
  /\ UNCHANGED <<asked, before, locks, sampler, scanner, wrote>>

ElectionNext ==
  \E p \in Proc :
    \/ Exec(p) \/ InstallSampler(p) \/ ElectSampler(p) \/ NvmlOpen(p) \/ Sample(p)
    \/ CaptureEnv(p) \/ ElectScanner(p) \/ CaptureSlow(p) \/ CaptureCaches(p) \/ Die(p)
    \/ \E q \in Proc : Fork(p, q)

-----------------------------------------------------------------------------
Wrote(name) == {p \in Proc : <<name, p>> \in wrote}
MayHold == {p \in Proc : sampler[p] \in {"open", "gpu"}}
Elected == Wrote("run.caches") \cup {p \in Proc : scanner[p] \in {"full", "caches", "lost"}}

(***************************************************************************)
(* The GPU's samples in a trace are of one process, through every fork and *)
(* death: at most one process ever writes them or is to scan the caches,   *)
(* it has written the inventory or the context before, and never in a      *)
(* directory with the locks of an earlier run. In a fresh one, as soon as  *)
(* a process is past its election, somebody was elected; that process may  *)
(* die, or fail to start its thread, and then nobody scans.                *)
(***************************************************************************)
OneElected ==
  /\ Cardinality(MayHold \cup Wrote("gpu") \cup Wrote("gpu.inventory")) <= 1
  /\ Wrote("gpu") \subseteq Wrote("gpu.inventory")
  /\ Cardinality(Elected) <= 1
  /\ Wrote("run.caches") \subseteq Wrote("run.context")
  /\ before # {} => Wrote("gpu") \cup Wrote("run.caches") = {}
  /\ \A p \in Proc : startup[p] = "forked" => p \notin Wrote("run.context")
  /\ before = {} /\ (\E p \in Proc : startup[p] = "up") => Elected # {}

=============================================================================
