# A verification of the vLLM cold-start playground

The repository measures where the time of a vLLM start goes, and holds a
launcher that keeps several vLLM servers on one node. This directory holds TLA+
modules of the launcher, of the probe, of the report and of the programs that run
the experiments, the TLC configurations that check them on small
instances, and theorems, proved with TLAPS, that hold for every value of the
constants. Paths below are relative to the repository (`scripts/launcher/launcher.py`
is `src/scripts/launcher/launcher.py` in `PROJECT.json`).

    tlc -workers 2 -config MCLauncher.cfg MCLauncher.tla     # a run
    tlapm LauncherProofs.tla                                 # the proofs of a module

## 1. The system

### 1.1 Parts, state, operations

| Part | Source | State it keeps | Operations |
|---|---|---|---|
| Event broadcaster | `launcher.py` 87-146 `EventBroadcaster` | bounded buffer `_events`, newest `_revision`, a condition | `_append`, `_notify` (a task), `watch` (a coroutine per client), `oldest_revision` |
| Instance manager | `launcher.py` 150-476 | `instances`, `_revision`; per instance its process, `_sentinel_active`, log file | create, failed create, sentinel callback, stop (SIGTERM, join, SIGKILL, join), stop all, lifespan end |
| Child process | `launcher.py` 858-907 `vllm_kickoff` | its process group, its signal handlers | setpgrp, then vLLM |
| Watch endpoint | `launcher.py` 622-667 | start revision, an iterator over the live dict | snapshot, live stream, 410 |
| Log endpoint | `launcher.py` 311-348, 551-578, 758-822 | the log file, which the child appends to | parse range, read range, answer |
| Cold-import launcher | `launcher_coldimport.py` | as the launcher | the same, importing vLLM in the child |
| GPU translator | `gputranslator.py` | a map of UUIDs to indices, built at start-up | look up |
| Launcher drivers | `drive.py`, `bench.py` | the launcher's process, the list of launches | create, poll, find the log, delete; SIGTERM, 30 s, SIGKILL |
| Tracer | `coldstart/cs_trace.py` `Tracer` | `_fh`, `_fh_pid`, `_lock`, `_n`, `_dropped`, `_summarised`, per-thread guard | emit, `_after_fork`, `_on_exit`, SIGTERM handler |
| Spans and roles | `cs_trace.py` | span tokens | begin, end, guess the role, read /proc |
| Import hook | `cs_patch.py`, `cs_imports.py`, `sitecustomize.py` | callbacks by module name, the set of patched modules, an import stack | after_import, find_spec, exec_module, timed `__import__` |
| Probes | `cs_vllm.py`, `cs_torch.py`, `cs_fst.py`, `cs_io.py`, `cs_net.py`, `cs_dev_routes.py` | counters | wrap a call, emit |
| Sampler, environment | `cs_sampler.py`, `cs_env.py` | O_EXCL lock files, the last counters | elect one per node, sample, capture once |
| Readiness poller | `cs_ready.py` | the edges seen so far, a deadline | poll port, /health, /v1/models, first token |
| Harness | `scripts/coldstart-run.sh`, `run-experiment.sh` | a run directory, the server's pid | preflight, serve, poll, TERM, grace, KILL, drain the GPU, repeat |
| Fork server, CUDA graphs | `cs_forkserver.py`, `cs_cgcapture.py` | armed flag and environment; swapped `torch.cuda` attributes, a pool index | arm, decline; enter and leave a capture |
| Trace report | `analysis/coldstart_report.py` | none | read, clip, sweep spans into phases, table |
| Other analysis | the rest of `analysis/` | none | tables |
| Checkpoint matrix | `scripts/cuda-checkpoint-ipc-matrix.py` | marker and command files, the steps and verdict of a mode | spawn two ranks, tear down, lock, checkpoint, restore, unlock, verify |
| Concurrent capture | `scripts/cudagraph-concurrent-capture.py` | a barrier, lists of errors, spans and graphs | warm up, meet, capture, join, count, verify |
| Checkpoint and park experiments | `scripts/criu-*.sh`, the other `cuda-checkpoint-*`, `sleep-*`, `tp2-park-probe.sh`, `demo-*` | a CRIU image, a parked server | dump, restore, park, wake |
| One-off probes | other `scripts/` | none | measure, install |
| Tests | `tests/` | a mock server | - |

### 1.2 How they interact

The launcher is one asyncio loop. A handler of a request calls the manager
synchronously; the manager stamps a revision and calls `_append`, and a task
created afterwards wakes the watchers. A watch stream first yields a snapshot of
`manager.instances`, then follows the broadcaster, and between any two items
other handlers run. `stop()` blocks the loop in `Process.join`: no callback, no
request and no stream moves, while the children and the kernel do. A child's
end reaches the loop as end-of-file on the sentinel pipe, before `waitpid`
returns the child.

A probed process has one `Tracer`. Probes call it from any thread; the program
may fork at any time (vLLM's workers are forks), exit, or get SIGTERM, whose
Python handler runs between two bytecodes of the main thread, inside a write
too. Files are per process; the report joins them afterwards. The harness
starts a server under the probes and a readiness poller beside it, and kills
both; the sampler and the environment capture elect one process of a node by
an exclusive file creation in the run directory.

### 1.3 What is hard, and what correctness means

| Part | Hard | Correct means |
|---|---|---|
| Broadcaster | batches are yielded outside the lock; the wake-up is not part of the append; the oldest revision is computed from a length | no watcher misses, repeats or reorders an event, or waits for ever for one; it is turned away only when the buffer no longer has what it needs |
| Manager | the sentinel callback races the stop; two joins with a kill between them; a fork before setpgrp; ids used again; a start that fails half-way | the events tell the life of each id; no process or callback outlives its instance; ends are reported; stops end; the launcher leaves |
| Watch endpoint | suspension inside the iteration over a live dict | a client that keeps up knows exactly the instances that exist |
| Log endpoint | the file grows between size and read; six boundaries | the body is what the header asked for; a follower has a prefix and gets everything |
| Tracer | fork with another thread in the locked part; first events of two threads; a signal inside a write or another handler; exit after a handled signal, or against a running thread; a line or a file that fails | own file only; every line written, counted, refused or too late; one summary; nobody hangs |
| Spans | coroutines that share a thread's stack; calls that raise or are too short to be written | a span lies where its call was |
| Import hook | modules that fail and are tried again; several targets of a module; a thread that imports while patches are registered; one import stack for all threads; a fork | what was never applied can be told from the trace of a killed process; self times are what a module took |
| Fork server, capture | arming that fails half-way; children forked and exec'd; captures, pools and drains that raise | no server under a server; torch is left as it was found |
| Sampler, environment | forks and deaths around an election | one process of a trace samples, one scans |
| Harness, poller | a server that dies while it is polled; engines that outlive it; readings of the GPU that yield nothing; a run id used again | an exit status of 0 means comparable repeats, where the GPU could be read; the script ends unless a call without limit hangs |
| Report | overlapping spans of several processes, partial coverage | rows and remainder add up; a tick belongs to who was working; nothing is claimed that no process reported |
| Checkpoint matrix | calls that hang, and take effect after their client was killed; a teardown that blocks or raises | a verdict is what happened |
| Concurrent capture | a thread that fails or is late before, at or after the barrier | no failure is reported as a measurement; the threads begin together |
| Launcher drivers | a launcher that dies or answers late | launches do not overlap unless a DELETE failed |

All hazards, each at its line, are in `PROJECT.json`.

## 2. The modules

| Module | Models | Builds on |
|---|---|---|
| `WatchLog` | abstract: a log that grows and cursors that move over it | - |
| `Broadcaster` | `EventBroadcaster` | implements `WatchLog` |
| `InstanceLife` | abstract: the order and numbering of the events of all ids | - |
| `Launcher` | manager, instances, children, the loop's blocking, shutdown | implements `InstanceLife` |
| `WatchStream` | the watch endpoint, end to end, with a client | composes `InstanceLife` (extends) and `Broadcaster` (instance) |
| `LogRange` | the log endpoint, with a growing log and a following client | - |
| `Tracer` | the tracer in a program of two threads and its forked child | - |
| `SpanStack` | `begin`, `end` and `emit_span` of `cs_trace.py` under the wrappers of `cs_patch.py` | - |
| `ImportHook` | `sitecustomize.py`, `cs_patch.py`, `cs_imports.py`: patches that wait for imports, and their times | `SpanStack` (extends) |
| `GraphCapture` | `cs_cgcapture.py` and the forward labels of `cs_vllm.py` | - |
| `ForkServer` | `cs_forkserver.py` in a tree of processes | - |
| `TracePhases` | classification, unions and sums of `coldstart_report.py`; no state | - |
| `PhaseSweep` | its `sweep_phases` | `TracePhases` (extends) |
| `RunReport` | the report from the lines of a trace to its figures and findings | `PhaseSweep` (extends) |
| `ColdStartRun` | `coldstart-run.sh` with `cs_ready.py`, a server and its engines | - |
| `Elections` | `cs_sampler.py` and `cs_env.py` of the processes of one trace | - |
| `CheckpointMatrix` | `cuda-checkpoint-ipc-matrix.py` with its two ranks and the driver | - |
| `ConcurrentCapture` | `cudagraph-concurrent-capture.py` | - |
| `LauncherDrive` | `drive.py`, `bench.py` with a launcher of either kind | - |
| `*Proofs` | theorems about the module of that name | TLAPS |
| `MC*` | instances for TLC | - |

Operators named like an action with an addition (`NotifyOne`, `CreateUnwatched`,
`PopTopOnly`, ...), commented "Mutated form" or "Mutant", are plausible bugs. They
are not part of any specification: each property has one that, put in the place
of the original, makes its run fail. `PROJECT.json` lists the pairs.

`MCProbe` and `MCExperiments` put programs that do not interact side by side: an
initial state sets one of them going and leaves the others idle (`HookIdle`,
`MatrixIdle`, ...), so the states are the sum of the parts' and not the product.

### 2.1 Broadcaster

Step granularity: what a coroutine does up to its next suspension. The
condition's lock is never held across one, so it blocks nobody and has no
variable; what remains of the condition is the set of watchers with
`pc = "waiting"`. `Publish` is `_append` plus the task its callers create,
counted in `notifies`; `Notify` is that task. `Subscribe` is the endpoint's check
with `since`, `Start` the generator's first run, which checks again; `Advance` is
one turn of `watch()`'s loop, entered from `Start`, `Resume` (woken) or `Again`
(batch used up); `Yield` hands out one event of the batch; `Disconnect` is the
cancellation. Not modelled: what an event says.

### 2.2 Launcher

`step` and `target` say where in `stop()` the loop is blocked; every other handler
needs `step = "idle"`. A child is described by what the launcher can observe:
`forked` (in the launcher's group), `loading` (own group, the inherited SIGTERM
handler, which stops nothing), `serving` (vLLM's handling), `exiting` (pipe
closed, not yet waitable), `exited`. `fate` is the signal it will act on.
`Create` is the whole of `create_instance`, with the status that its event reads
after the fork; `CreateFails` its error path, which may leave a log file;
`SentinelFires` is `_on_sentinel_exit` with `_on_instance_stopped`, whose two polls
of the process may disagree; `StopBegins`, `JoinReturns`, `JoinTimesOut`,
`StopFinishes` are `stop_instance` split where it blocks, `DeleteOne` and `DeleteAll`
its callers; `Drain`, `Shutdown` and `LauncherKilled` are uvicorn's graceful
shutdown, the lifespan's end and SIGKILL. One process per instance is modelled,
the one the launcher joins; vLLM's own descendants are not observable to it.

### 2.3 WatchStream

Manager actions are those of `InstanceLife`, each with its change of the dict and
its call of the broadcaster. The dict is modelled as CPython keeps it, since that
decides what the snapshot's iterator does: an array of entries in which a deleted
key leaves a hole, a new key takes the next slot, and an insertion into a full array
packs it first; an iterator is an index, and fails when the number of keys is not
what it was (CPython from 3.8 on also refuses some iterations that count more
entries than there were, "keys changed during iteration"; here they go on, so there
are more behaviours than the code has). (This array, with `Slots`, `Hole` and
`Pack`, is external to the repository.) `List` is the iteration up to the next
yield. The client folds events into a set; it may lose its connection at any time,
resumes from the last live event it read, and starts afresh when told 410.

### 2.4 LogRange

A byte of the log is its position, so a piece of the log is an interval.
`Accepted` is what `parse_range_header` accepts, `ReadLog` is `get_log_bytes`, `Answer`
the endpoint's status, range and body. `Ask` takes the file's size, `Reply` reads
it: the child's `Grow` may come between. `Selected` and `RightFor` are the reference
definition, written from what the header means and not from the code.

### 2.5 Tracer

A step of a thread is what it does between two points where another thread, or a
signal handler, can run: the calls that open the file (`OpenFile` assigns `_fh`,
`AnchorFile` assigns `_fh_pid` and puts the header ahead of the line), taking the
lock (`Acquire`), and the write under it (`Put`). `Write` is the look at `_disabled`
and `_closed` and the unlocked check of the cap and of the guard. `Fork` copies the
process and runs `_after_fork`; a lock that the worker holds then has no holder in
the child: `owner = "ghost"`.

`plan` is what the handlers the main thread is in have still to do, the innermost
first. `Exit` puts `_on_exit` there (`"exit"`), `Signal` the note of the signal,
`_on_exit` without the end of the file (`"flush"`), and what the previous handler
does in the end: the process ends (`"default"`), or it is ignored or returns and
the process goes on (`"return"`, `cs_trace.py` 303-310), to more signals and to its
exit. Further signals may come in the middle, since a handler is interrupted like
any other code. `OnExit` looks at `_summarised`, `PlanNext` writes a note or a summary,
`Finish` closes the file, `HandOn` is the previous handler, `Vanish` the end. The
finish callbacks are events emitted while the summary is next. `SignalInWrite` is a
signal that meets the main thread inside `_write`: the guard makes the handler drop
its lines, the summary counts as written, and the process ends or goes on. A
handler that interrupts an `_on_exit` between its look at `_summarised` and its
summary is remembered in `overlapped`: then there are two.

Lines are lost in three ways that nobody counts: `Refuse` (`json.dumps` raises,
437-440; only an event has fields that could make it), `OpenFails` (no directory
takes a file, which disables the tracer) and a `Put` that raises, as on a file that
an exit has closed meanwhile; what comes later finds the tracer disabled or closed
(413-414). `refused` and `late` count them for the property. `_dropped += 1` is one
step, as the evaluation loop of CPython from 3.10 on makes it. Left out: SIGKILL,
after which there is nothing to say but that the process stopped where it stood, and
a previous handler that raises (as KeyboardInterrupt would) inside `_write` or
another handler.

### 2.6 SpanStack, ImportHook

A task is a thread, or one of several coroutines that share one; `stack` is
`Tracer._local.stack` of a thread, `frames` what a task is really inside of. `Begin`
is `begin()`, `End` is `end()` with the floor of the wrapper (none if the call
raised: `Raise`), `Emitted` is `emit_span()`. A frame records what its task was
inside of when it began (`Around`), and each written span carries that as what was
true of it (`Truth`), which the properties compare with the parent and depth the
code wrote.

`Patch` is `patch()` with `after_import()` up to its look at `sys.modules`, which takes no
lock (`cs_patch.py` 126-130): a target of a loaded module is resolved at once, another
is `unready`, and `Register` appends it to `_pending` (131-132). In between its module
may have come, and its callbacks be gone: then it is in `overtaken`. `StepEnds`
ends one step of `_install()`, done or raised; `EmitDeclared` is the last one.
`MayImport` says who imports: sitecustomize itself, the sampler's thread as soon as
it has been started (`Sampler`, started with `AfterSampler` steps still to do:
`cs_sampler.py` 107-110, 129-131), everybody once the probe is installed.
`ImportStart` is a module that begins to execute, with `cs_imports._on_start`;
`Executed` is its end, or its exception, with `_on_end` (`OnEnd`, which throws away
what is above its own entry) and the callbacks taken out of `_pending`, which
`RunCallback` runs one at a time; until `ImportEnds` the module is still said to be
initializing. Coroutines change places only at an await, so never inside an import
(`Turn`). `Fork` keeps the tables, renews the span stack, as `_after_fork` does, begins
the child's own file, which has no list of declared targets, and starts the
sampler's thread again. `own` counts what a module really took. Which status a
target gets is the installed vLLM's affair: any.

### 2.7 GraphCapture, ForkServer

`at` walks through `capture_model`: a descriptor, its warmup forward, the capture
pass, and per graph the constructor (`Construct`, which picks the pool and tells
pynccl of it, where a failure is swallowed: `cs_cgcapture.py` 170-175;
`ConstructRaises`), the swap of the two `torch.cuda` attributes (`Swap`), torch's
prologue (`Prologue`, which may raise) with the `finally` that puts them back, the
body (`Capture`) and the drain after the loop (`LoopEnds`), which is tried if the loop
raised, too, and may itself raise (`Drain`; 266-269). vLLM's loop and torch's
`graph` class are external, known only from the probes' comments.

In `ForkServer` `step` says where `install()` of each process is. `Preload`, `Arm` and
`GetContext` are its three parts that may fail, each with what it takes back.
`LaunchByServer`, `StartServerLate` and `LaunchByVllm` are `_wrapper()` by what it
returns; `ComesToVeto` makes one of `_veto_reason()`'s predicates true, at any time
(CUDA can be initialised between two children). A forked child has its parent's
`_ctx`; an exec'd one runs `install()` again, with its parent's environment.

### 2.8 TracePhases, PhaseSweep, RunReport

Times are whole ticks. The tables of phases and categories are in `TracePhases` as
they are in the source. Of the span names those are kept that a rule of `classify`
selects; a name is otherwise only a name. A step of `PhaseSweep` is one iteration of
the loop between two boundaries; `owner` records, tick by tick, the span that was
credited, so that the rule can be stated without the sweep's own lists. `RunReport`
begins with one of the `Traces` and goes `Load`, `Index`, `SweepOn`, `Report`; the
last step computes coverage (in both formats of a trace), counters, dark spans, the
warmup breakdown, findings and CSV row with the operators named for the functions.
Its loops over a sorted list (`Runs`, `Walked`, `Kept`) are recursive functions of
the index; `Sorted` leaves the order of equal elements open, and `kept` is a set,
since it is sorted again.

### 2.9 ColdStartRun, Elections

`stage` says where `run_once()` is. Limits of time pass at any moment: the poller's
deadline (`PollTimesOut`), GRACE (`Kill`), GPU_DRAIN (`DrainEnds`). The drain ends on
a reading that is low enough, on one that is not, or on none at all: one call of
nvidia-smi that yields nothing breaks the loop as a success, whatever earlier ones
said (`coldstart-run.sh` 302-304), and `--gpu-drain 0` takes no reading; `asked` tells
these apart. `HarnessHangs` is a call that never returns where there is no limit:
nvidia-smi (228, 302, 308), and `wait` after SIGKILL (276). The engine of a
repeat is a process of its own which may take the GPU before or after its server
has died, and leaves or stays. `used` is the last reading of the GPU's memory, which
is what the script goes by. In `Elections` each process walks through
sitecustomize's installation and has two threads. `CaptureEnv` writes the registry's
cache, `ElectScanner` comes after it; the elected one may be unable to start its
thread (`lost`). A fork, of a forked process too, begins with the sampler's
election; a death may come anywhere.

### 2.10 CheckpointMatrix, ConcurrentCapture, LauncherDrive

In `CheckpointMatrix` `at` and `turn` say where `run_mode()` is in its loops over the
ranks. A command file is opened and written in two steps. A call of the client is
under way until the driver answers; a client whose time is over is killed (`HUNG`),
and its call may still be carried out (`late`). A rank whose driver state is not
running does not compute. `destroy_process_group()`, in a thread that is given 30 s,
returns, blocks or raises (`Teardown`, `cuda-checkpoint-ipc-matrix.py` 189-202): the
torn marker is written in all three, the log says which (`DestroyReturns`: one that
blocked may come back later). `ParentHangs` is the parent where it waits without
limit: in nvidia-smi (257-260) and for a client it has killed (240, 357, 243-254). The
failure marker of a child is left out: it shortens a wait that may end anyway.

`ConcurrentCapture` has Python's `threading.Barrier` with its states (filling,
draining, broken): the last to arrive opens it, and one that is still leaving when
it is aborted raises. `HostHangs` is a kernel that never ends, in a
`torch.cuda.synchronize()` or a capture of the main thread
(`cudagraph-concurrent-capture.py` 144, 164, 176, 181, 230, 268, 274).
`LauncherDrive` sees the launcher from the outside, as one that may die, answer late
or leave logs of an earlier run behind; its inside is `Launcher`.

## 3. The runs

| Run | Checks | Bounds |
|---|---|---|
| `broadcaster` | `TypeOK`, `BufferIsSuffix`, `NoGapNoDuplicate`, `EveryEventReachesEveryWatcher`, `ImplementsWatchLog` | 2 watchers, a buffer of 2, 3 events, resume points below, in and above the buffer |
| `launcher` | `TypeOK`, `EventsMatchInstances`, `NothingOutlivesItsRecord`, `WatchedUntilReported`, `LogFollowsInstance`, `ImplementsInstanceLife`, `DeadIsReported`, `StopTerminates`, `LauncherLeaves` | 2 ids, 3 creations, `PromptChild` |
| `watch_stream` | `TableMatchesEvents`, `StreamsHaveNoGap`, `ClientKnowsInstances`, `ClientConverges` | 2 ids, 1 client, a buffer of 2, 4 events, 6 insertions, 5 dict slots |
| `log_range` | `AnswerIsTheRange`, `FollowerHasPrefix`, `FollowerCatchesUp` | a limit of 3 bytes, logs up to 10, every first and last byte from none to one beyond |
| `tracer` | `OwnFileOnly`, `EveryLineAccounted`, `CapOvershootBounded`, `SummaryAtMostOnce`, `WriteEnds` | caps 1 and 4, 2 events, signals or faults beyond the exits, 2 threads and a child |
| `probe` | `SpansNest`, `CoverageFromTrace`, `ImportTimesAddUp`, `CaptureLeavesTorch`, `ForwardsAreLabelled`, `NoNestedServer` | 4 tasks on 3 threads (main, two coroutines of one, the sampler), 3 modules, 2 targets, 2 ticks, 4 spans; 3 descriptors of up to 2 graphs; 5 processes |
| `run_report` | `PhasesReconcile`, `OwnerIsJustified`, `CoverageIsTrue`, `MeasuresAreTrue`, `DarkSpansAreDark` | 3 spans of 5 kinds in 2 processes, ticks 0 to 5 around a window from 1 to 4; 4 spans of different names, all of which may be dark; all samples of a counter; all reports on 2 targets |
| `experiments` | `RunsAreComparable`, `VerdictsAreTrue`, `ExperimentsEnd` | 2 repeats; 3 processes; 4 modes of the matrix, and two in a row; 3 graphs in 0, 1, 2 or 4 threads, twice; 2 launches |
| `stopped_event` | `StoppedCarriesExitCode` (violated) | 2 ids, 2 creations |
| `snapshot` | `SnapshotIsComplete` (violated) | as `watch_stream`, 5 events |
| `empty_log` | `PlainGetIsOk` (violated) | as `log_range` |
| `tracer_fork` | `ForkedWriteEnds` (violated) | cap 4 |

What they show. `broadcaster`: the buffer's arithmetic, the batches and the
separate wake-up lose nothing; the refinement adds that a watcher is turned away
only when it must be. `launcher`: callback, stop and shutdown, in any order, leave
events, map, processes, sentinels and logs in agreement, and everything that
begins ends. `watch_stream`: snapshot and live stream together give a client that
keeps up the right set, with one exception it names: an iteration during
which the dict was packed. Two operations that cancel out (a delete and a
create) go unnoticed by the iterator, but their events follow live.
`log_range`: the six boundaries, and no gap under growth. `tracer`: races of first
events, fork, exit, faults and signals at every point, with handlers that return,
never mix files or hang the parent. No line is lost uncounted but those `json.dumps`
refuses and those that come too late, to a tracer that is disabled or closed
(`EveryLineAccounted`); there are two summaries only if a handler interrupts an
`_on_exit` between look and summary (`SummaryAtMostOnce`); the cap is overshot by one
line for each other thread, not more.

`probe`: on a thread of its own a call's span has the call's parent and depth,
whatever was dropped in between; among coroutines no token survives its call and
lines stay distinct (`SpansNest`). The targets a trace shows as never applied are,
at any point at which it may end, those still pending; one whose module is loaded
is among them only if the sampler's import overtook its registration
(`CoverageFromTrace`). A
module's self time is its own time unless two tasks imported at once
(`ImportTimesAddUp`). torch's functions are restored however a capture ends,
captures are spread over the pools, pynccl knows the pool unless telling it failed,
and a loop drained once leaves nothing cached unless the drain itself raised
(`CaptureLeavesTorch`);
a forward's label is what it was (`ForwardsAreLabelled`). No process under a fork
server starts another, and one said to be armed served or declined every child
(`NoNestedServer`). `run_report`: the rows of the table and the remainder are the
window; each tick is credited as the docstring's rule, stated without the sweep,
demands; coverage, wall times, counters and dark spans are what the lines say.
`experiments`: `RunsAreComparable` is `SuccessIsComparable` (exit status 0 means that
every repeat was ready and alive, and that the GPU was free after, and for the repeat
that follows, a drain that ended on a reading), `OneElected` and `LaunchesAreApart`;
`VerdictsAreTrue` is `RoundTripIsTrue` (a teardown that is ok released the communicator
unless the child's log says that its destroy blocked or raised) and `ArmIsTrue`;
`ExperimentsEnd` says that each script comes to its end unless a call that has no
limit never returns: it is for the waits that do have one.

Why the bounds are enough. The buffer is full after two events and is overrun by
the third while a watcher is parked, woken, or in the middle of a batch, and two
watchers suffice for a notification that wakes only some. Three creations of two
ids let an id be used again beside another in any state; nothing in the manager
relates three instances. Five dict slots are what CPython gives the smallest
dict; six insertions fill and pack it. A log of ten bytes passes the limit three
times. A cap of one line is met by every thread, a cap of four by some orders
only; two extra events, signals or faults are what a race between two threads, a
second signal during the first, a signal before the exit, and a fault after a line
need. The theorems below remove the bounds for
the safety properties they cover. In the code nothing depends on the values
of `_MAX_BROADCASTER_EVENTS` (1000), `MAX_LOG_RESPONSE_BYTES` (1 MiB) and
`CS_MAX_EVENTS`, which are constants here.

Four tasks give a thread of its own, and the sampler's, beside two coroutines; four
spans and two ticks let a call be written, dropped, overtaken and be a parent. Three
modules nest imports twice; two threads import while a module fails and is tried
again. The label of a forward depends on one descriptor, the pools (up to two) on
three captures. Five processes are a server, its parent and children of both. Three
spans are a container, a child and a rival of another process; the spans reach over
both edges of the window. The second repeat, mode, arm or launch meets what the
first left behind; a third would meet nothing new. The four modes not run alone
(`nccl`, `nccl_teardown`, `nccl_graph`, and `ipc`, which comes second) take the same
steps as `symm`, `nccl_graph_free` and `ipc_teardown`, but for what is shared and
released.

`CHECK_DEADLOCK FALSE` is set for the launcher, the tracer, the probe and the
experiments: they really come to an end. The other systems never do.

### 3.1 Fairness

* The asyncio loop runs every ready task and callback: weak fairness of `Notify`,
  of a watcher's steps, of `SentinelFires`, `StopBegins`, `StopFinishes`, `Shutdown`.
  That a `yield` returns assumes a client that goes on reading; one that stops
  reading is only modelled as one that disconnects.
* `join(timeout)` returns by itself (`JoinTimesOut`); a join returns when the child
  is waitable.
* The kernel schedules children, ends a process that was sent SIGKILL and makes an
  ended one waitable. Nothing makes a child obey SIGTERM or end by itself, so
  stops must rely on the kill.
* Threads of a traced process run, and its interpreter finishes an exit it has
  begun. Nothing is assumed of the program: it need not emit, exit or fork.
* The client of the log asks again, and gets its answer.
* The scripts go on, and their time limits pass: `HarnessFairness` names the script's
  steps and `PollTimesOut`; `MatrixFairness`, `ArmFairness` and `DriveFairness` take the
  parent's, main's and the driver's steps together. Where a script waits without a
  limit (sections 2.9 and 2.10 list these waits) it may go to `"stuck"` instead, and stays
  there: no fairness says that nvidia-smi, a killed client, a kernel or a process
  after SIGKILL comes to an end. An HTTP request counts as limited, although its
  timeout is one for each read: it is assumed that a server does not draw out an
  answer byte by byte. Nothing is assumed of a server, an engine, a rank,
  cuda-checkpoint, a worker thread or a launcher: they may hang or die. `run_report`
  and `probe` state safety only.

`PromptChild` is an assumption on the environment: a child reaches setpgrp within
the ten seconds that `stop()` waits. Without it the group kill finds no group, the
error is swallowed (`launcher.py` 253-257), and the join without a limit may wait
for ever; `StopTerminates` is then false. `LauncherLeaves` needs that no watch
stream is open, since uvicorn's wait for it has no limit.

## 4. Findings

* `stopped_event`: the docstring of `_on_sentinel_exit` (`launcher.py` 261-264) says it
  collects the exit code; the sentinel is readable before the child is waitable,
  and the event may say `running` without one.
* `snapshot`: the description of `since` (626-628) promises CREATED events for every
  instance; a change of the dict between two items breaks the response off.
* `empty_log`: the docstring (768-774) promises 200 for a plain GET; an empty log is
  answered 416.
* `tracer_fork`: "safe across fork/spawn and threads" (`cs_trace.py` 238); `_after_fork`
  leaves `_lock` as it was, so a child forked during another thread's write
  hangs at its first event.

Seen, and not a run, since no line of the repository says otherwise, or since it is
one sentence about one path:

* `docs/measurement.md` 186 says dropped events are counted and reported; the
  summary that reports them is itself dropped above the cap (`cs_trace.py` 412-428,
  585-589). A line that `json.dumps` refuses (437-440), or that comes to a tracer that is
  disabled or closed (413-414), is neither written nor counted. A handler that
  interrupts an `_on_exit` before its summary makes a second one; the summary of a
  handler inside `_write` is dropped, and counts as written.
* Patches. `after_import()` promises to run "once imported (or now)" (`cs_patch.py` 124);
  the thread of the sampler, started before the last probes register theirs, may import the
  module between the look at `sys.modules` and the append (126-132), and then the patch
  waits for ever.
* Graph capture. When telling pynccl of the pool fails, the capture goes on with the
  one vLLM had set (`cs_cgcapture.py` 170-175); a drain that raises after a CUDA error
  leaves the cache as it is (266-269) and replaces the exception of the capture.
* Imports. The import stack is one for all threads (`cs_imports.py` 28): when two
  import at once, `_on_end` discards the other's entry and self times are wrong,
  against the docstring (12). A fork inherits the sums, so a child's
  `imports.summary` holds its parent's imports, against "per process" (6). The depth
  of an import's span counts imports only (92), and the sweep compares it with
  depths that count calls (`coldstart_report.py` 453).
* Coroutines of one thread end each other's spans (`cs_trace.py` 477): parents and
  depths among them are not those of the calls.
* `registry_subprocess_s` returns 0.0 where coverage is unknown, although its
  docstring speaks of None (417-433); `_contains` looks spans up by name (826-837),
  so two spans of one name are taken for one, and a dark span that nothing contains
  is left out when an earlier one of its name is contained, against the comment (814)
  and the docstring (827): `DarkSpansAreDark` demands containment only where names
  are unique.
* Harness. "Gate the next repeat on the GPU actually being free": a single empty
  reading of nvidia-smi ends the drain as a success, also after readings above the
  limit (`coldstart-run.sh` 302-304), as does `--gpu-drain 0`; the status is then 0 and
  nothing is known of the GPU. If the GPU does not drain, the repeat fails but the
  next one starts on it; the last look at the memory may be older than the last
  kill; an engine on its way may take the GPU after the drain: where the drain ended
  on a reading, these three need a repeat that failed.
  `--reuse-run-id` keeps the lock files, so nobody samples or scans in that
  directory. An elected sampler that dies, or finds no NVML, has no successor, nor has
  an elected scanner that dies before its scan or cannot start its thread (`cs_env.py`
  248-252). The
  poller polls a dead server until its deadline.
* `CS_FORKSERVER_ACTIVE` stays set when `get_context` fails (`cs_forkserver.py` 128-132).
* Checkpoint matrix. "round trip OK" does not depend on the verification (402); a
  teardown that failed does not either, nor one whose communicator blocked, which
  only the child's log tells; a `destroy_process_group()` that raises is logged as
  returned (193-194), the process group as gone, and the teardown is ok although the
  communicator may still be held; a child that reads its command file between open and
  write loses the command; a wedged child is left after 15 s and the next mode begins.
* Concurrent capture. When a join gives up after 600 s, a result may still be "ok"
  although a thread has not ended.
* Driver. The first log file that matches may be one of an earlier launcher with
  the same instance id; errors of DELETE are dropped; errors of PUT raise, so the
  test of the status (`drive.py`) never fails and nothing is printed.

## 5. The theorems

All are of the form `Spec => []P` for the specification of their module (`Safety`
where the module also states fairness) and for every value of the constants under
the named assumptions. Those are sizes (`MaxEvents`, `MaxResponse`, `MaxProcs`,
`Repeat`, `Graphs`, `Reps`, `MaxDescs` and `MaxPieces` positive; `MaxCreates`,
`MaxRevision`, `Caps`, `Launches`, `ThreadsOf` natural numbers), `PromptChild`
Boolean (either), lists of modes in `Plans`, the finite set `Proc` of `Elections`,
the tasks (`Main` and `Sampler` among them), steps and modules of `ImportHook`, and
`TracesAssumption`: a trace the report reads is finite, its times are natural
numbers, its spans have the fields the tracer writes, a process declares targets
that are targets, and a cumulative counter (`Cumulative`) does not fall from one
sample of a process to a later one. Finiteness of ids, clients, watchers and
instances is not needed.

**Broadcaster.** `BufferIsSuffix` is inductive with the types: trimming keeps the end
(`TrimKeepsTail`), and an append extends buffer and history alike. `NoGapNoDuplicate`
is not: what a stream yields comes from its batch, cut from a buffer that has
moved on since. `BatchFollowsCursor` says that the batch still holds the published
events after the cursor, `YieldedWasPublished` that what was given out lies within
the history; history only grows, so both survive a `Publish`. `IInv` is the
conjunction (`InductiveInvariant`); `TypeCorrect`, `BufferCorrect`, `DeliveryCorrect`
are its parts. `ImplementsLogSafety` maps each step to one of `WatchLog` or a
stutter: `Yield` to `Deliver`, `Subscribe` to `Connect` or `Refuse`, the give-ups to
`Expire`, the rest to stutters.

**Launcher.** The invariants need to know where the loop is. `LoopShape` says: what
is still to be stopped, and the target, are in the map; the target has exited when
the stop finishes; a launcher going down has the whole map to stop. With
`NewestIsStamped` (the newest event has the manager's revision) this makes `IInv`;
there is a lemma for each action. From it follow `TypeCorrect`, `EventsCorrect`,
`NoProcessForgotten`, `WatchingCorrect`, `LogsCorrect` and `LifeImplemented`, the whole
refinement of `InstanceLife` (that module has no fairness): a STOPPED event
maps to `End` because a watched id was last reported CREATED.

**WatchStream.** The broadcaster's theorems are used, not repeated: `P` is
`BroadcasterProofs` with a stream that is still listing mapped to one that has not
begun (`Stage`), so each step of this module is a step of the broadcaster's or
leaves it alone. What is new is the client. `Agrees(w, n)` says that its view is
right about every id on which nothing was published after revision n; it holds at
the position of its stream and at the last revision it knows. During a listing
the position is the one at which the snapshot began, and `ListsAll` says that an
instance not changed since then has been listed or lies ahead of the iterator;
this is what a packed dict breaks, and why the property excepts it. `TableCorrect`,
`StreamsCorrect` and `ClientsCorrect` are `TableMatchesEvents`, `StreamsHaveNoGap` and
`ClientKnowsInstances`.

**LogRange.** `RangesCorrect`: `RightFor` for every header, length and limit, by the
three forms of a header; `AnswersCorrect` carries it to the answers of a run.
`FollowerCorrect`: the size taken is one the log had (`FInv`), so an answer
continues the copy.

**Tracer.** `FileInvariant`: a recorded pid has a handle, every handle belongs
to a thread of its own process, and a thread about to write has one; the order
in which `_file` assigns `_fh` before `_fh_pid` is what the proof rests on.
`FilesSeparate` is `OwnFileOnly`. `CountInvariant` is about the lines. A thread in
`_write` has one line in its hands, behind headers (`QueueShape`), whatever faults end
it; written and pending lines together exceed the cap by one line of the other
thread at most (`Overshoot`: counting the pending ones is what makes it inductive).
`LinesAccounted` and `CapHolds` follow. `SummaryInvariant` is about the stack of
handlers: as long as none has overlapped another's summary, at most one summary is
planned (`Once`), and one that is planned or in hand has not been written; a process
that has to write one still has it ahead of the closing of its file (`Ahead`). A
handler that returns leaves the rest of the stack as it was, so this survives any
number of signals before an exit; `SummaryOnce` follows.

**Probe.** `TorchIsLeft`: the two attributes are torch's except in a capture's
prologue, the counts of the pools differ by at most the parity of the cursor, and
how the drain ended is known only at the end, which a drain that raised does not
reach as a success (`CaptureInv`). `LabelsAreTrue`: where `capture_model` stands
determines how the forward was made (`LabelInv`). `ServersDoNotNest`: only a process
under none but `Free` ones may arm a server (`OfKin`). `CoverageIsKnown`: a declared
target is being registered, pending, about to be tried or resolved, in one place
only, and its module is then anything, absent or executing (behind it, if the target
was overtaken), being patched, or patched and loaded (`PlacesFit`); what the file
shows is what was resolved (`Announced`). `SpansAreNested` needs the most: a
thread's stack holds tokens of calls that are open (`StackOpen`), ids and starts
grow together (`ParentsFirst`, `IdsUnique`), the frames of a task alone on its
thread and the stack match one for one up to frames of other kinds (`AllNested`),
and an entry of the import stack has the parent its frame has (`EntriesFit`).
`ImportTimesCorrect` adds the times to that: each import a task is in has an entry,
in the same order and with nothing in between, and the frame was the innermost one
for as long as it is until the next entry's start less what was charged to it
(`FramesTimed`), so that at the end both sums grow by the same; the order of starts
and charges (`TimesInOrder`) bounds the sums even when threads overlap and entries
are thrown away.

**Report.** `PhasesAddUp`: each step credits its width to one of the sixteen phases,
and each phase has one row; the last boundary is t1 because t1 is among them
(`ReportInv`). `OwnersJustified`: the lists of a process are its clipped spans that are
not over (`ListsFit`), no boundary lies inside an interval, so what covers its first
tick covers all of it; the candidate of a process is then one of its `Leaves`, and the
winner outranks those of all processes at work. That the deepest and the most
specific exist at all is `Topmost`, a finite set under a relation that is irreflexive
and transitive, from the well-foundedness of strict inclusion of finite sets;
`LeastNatural` gives the boundaries, t0 and the edges. `CoverageCorrect` is about
what `_coverage()` merges (`CoverInv`: what is printed was computed from these lines).

The figures of the report are results of loops over lists of any length. The
library's induction takes an operator, which the provers cannot instantiate; a set
they can, so induction is stated for sets (`SetInduction`, from `LeastNatural`). With
it a finite set can be sorted and what `Sorted` picks lists all of it
(`SortedIs`), and a loop has a result (`Recurrence`), so that the recursive functions
are what their equations say (`RunsAre`, `WalkedAre`, `KeptAre`). `MeasuresTrue`: what the
intervals up to one of them cover ends where one of them does (`Covers`), so the next
adds exactly the part of it that is behind this end (`NextInterval`); hence
`union_len()` and the walk of `dark_spans()` both count ticks (`RunsMeasure`,
`WalkMeasures`). The sums of two figures that agree for each process are equal
(`ReadIs`). `DarkSpansTrue`: of what the loop has seen it keeps something, nothing that
a longer kept span hides, and all but what a kept one hides (`KeptFits`); what is
shown are the first three in the order of their blind time (`ReportedAre`). `Figures`
carries what `Report` computed to the states after it. The proof needs that the
window is not empty: `dark_spans()` reports nothing for one that is (784).

**Experiments.** `Comparable` has an invariant for each of three programs: `DriveInv` (one
result for each launch; who still lives was not deleted), `ElectionInv` (whoever has
won the lock is the one who scans, has scanned or could not start to) and
`HarnessInv` (what the poller saw, whether the drain had an answer, and whether an
engine is left, for each repeat that is recorded).
`VerdictsCorrect` has one for each of the two CUDA scripts. `ArmInv`: a thread's units
are of its residue class modulo the number of threads (`Dealt`; `OneOwner`: no unit is
of two), whoever is in the barrier waits and it is open only when all have come
(`BarrierHolds`), and a thread that is over has left its span or an error
(`EndsAreReported`). `MatrixInv`: for each place of `run_mode()` what has been noted by
then (`StepsFit`), a client runs only where the parent waits for it (`CallsFit`), and,
what `driver = "running"` behind a round trip that is OK rests on, while no call of a
rank failed or hung none of its calls is late and the driver is where the calls
brought it (`DriverFits`). That nothing is checkpointed after a lock that failed needs
that nobody has asked for it, killed clients included (`NotCheckpointed`); a rank
that has torn down holds the communicator only where it has logged a destroy that
blocked or raised (`ChildrenFit`).

Only model-checked: all liveness (`EveryEventReachesEveryWatcher`, `DeadIsReported`,
`StopTerminates`, `LauncherLeaves`, `FollowerCatchesUp`, `ClientConverges`, `WriteEnds`,
`ExperimentsEnd`) and the fairness part of `ImplementsWatchLog`, since neither liveness
under fairness nor ENABLED is in the prover's reach here. Every invariant the passing
runs check is proved. Of the operators without a property (sums and counts of a
category, the warmup breakdown, which findings are made) nothing is proved.

## 6. What is not modelled, and why

* Read-only endpoints, the index page, argument parsing, the translator: no
  state, or state that never changes.
* vLLM, uvicorn and CPython beyond what the code relies on: the dict's iteration,
  signal handlers between bytecodes, `Process.exitcode`'s `waitpid(WNOHANG)`, graceful
  shutdown. Descendants of a vLLM server.
* SIGKILL for the tracer, and previous signal handlers that raise (section 2.5).
* The effect of a buffered file handle copied by a fork: the handle is line
  buffered and written under the lock.
* Of the launcher: descendants that outlive a server which `stop()` finds dead
  (`launcher.py` 238); a log follower across a DELETE and a PUT of its id (218). Of the
  driver: what becomes of the instances of a launcher it killed (`drive.py` 119).
* `launcher_coldimport.py` beyond the import in the child: it repeats the launcher.
* Of the report: the number of applied patches in a trace of the older format, the
  Chrome trace, the comparison of runs, the CSV's file, and the findings on page
  cache, stat calls and page faults, which read counters that the traces of the run
  do not have.
* Of the harness: preflight, `--allow-concurrent`, the flags that make a run cold,
  `run-experiment.sh`. Of the concurrent capture: `pool_probe`, times and pool sizes.
* The probes `cs_io`, `cs_net`, `cs_fst`, `cs_dev_routes`, the title probe, /proc
  readers, the other analysis scripts, one-off scripts: I/O, counting and
  formatting, with no state that two actors share.
* CRIU, cuda-checkpoint and sleep mode: their behaviour is outside the repository,
  and the shell around them (`criu-*.sh`, `demo-*`) is a sequence of commands.
* Item 6 of section 7.

## 7. Plan

1. `Broadcaster`, `WatchLog`; `Launcher`, `InstanceLife` - done, with proofs of every
   safety property and of both refinements (of `WatchLog`, the safety part).
2. `WatchStream` (composition), `LogRange`, `Tracer` - done, with proofs of every safety
   property.
3. `SpanStack`, `ImportHook`, `GraphCapture`, `ForkServer` - done, with proofs of every
   safety property.
4. `TracePhases`, `PhaseSweep`, `RunReport` - done, with proofs of every safety property.
5. `ColdStartRun`, `Elections`, `CheckpointMatrix`, `ConcurrentCapture`, `LauncherDrive` -
   done, with proofs of every safety property.
6. `ParkWake`, if it stays small: the reaper and the park and wake sequence of the
   demos. A mapping of the GPU translator.
