--------------------------- MODULE CheckpointMatrix ---------------------------
(***************************************************************************)
(* scripts/cuda-checkpoint-ipc-matrix.py: two child processes, a GPU each, *)
(* hold one kind of state that crosses ranks; the parent locks,            *)
(* checkpoints, restores and unlocks both with the cuda-checkpoint client. *)
(* Children and parent talk through files in a directory of the mode's     *)
(* own. A call into the driver may come back, fail or hang, and one whose  *)
(* client was killed may still be carried out. A wait has a limit that may *)
(* pass at any moment, or has none and may never end.                      *)
(***************************************************************************)
EXTENDS Sequences, FiniteSets

CONSTANT Plans      \* the lists of modes --mode can ask for

Ranks == {"rank0", "rank1"}
RankOrder == <<"rank0", "rank1">>
Other(r) == CHOOSE q \in Ranks : q # r

Modes == {"plain", "nccl", "nccl_teardown", "nccl_graph", "nccl_graph_free", "ipc",
          "ipc_teardown", "symm"}
TeardownModes == {"nccl_teardown", "ipc_teardown", "nccl_graph", "nccl_graph_free"}
ASSUME PlansAssumption == Plans \subseteq Seq(Modes)

VARIABLES
  parallel,  \* --parallel
  plan,      \* the modes to come, the current one first
  at,        \* where run_mode() is; "stuck" in a call without limit
  turn,      \* the place in its loop over the ranks
  child,     \* per rank, where child() is
  holds,     \* per rank, the state it shares: "comm", "graph", "peer"
  files,     \* the marker files, <<name, rank>>
  command,   \* per rank, its command file: "none", "empty" or what it asks
  driver,    \* per rank: "running", "locked", "checkpointed"
  call,      \* per rank, the client's call into the driver and how it stands
  late,      \* per rank, the calls whose client was killed
  steps,     \* res["steps"]: <<action, rank, result>>
  verdict, verified

matrixVars == <<parallel, plan, at, turn, child, holds, files, command, driver, call, late, steps,
                verdict, verified>>
parentVars == <<parallel, plan, at, turn, steps, verdict, verified>>
childVars == <<child, holds>>

Mode == Head(plan)
Collective == Mode \in {"nccl", "nccl_teardown", "nccl_graph", "nccl_graph_free", "symm"}
Captured == Mode \in {"nccl_graph", "nccl_graph_free"}
Ipc == Mode \in {"ipc", "ipc_teardown"}
NoCall == [action |-> "none", is |-> "none"]

\* Places of run_mode(): before and after a command's file is opened, and while
\* a client runs.
Ask == [teardown |-> "ask teardown", verify |-> "ask verify"]
Write == [teardown |-> "write teardown", verify |-> "write verify"]
Called == [lock |-> "lock called", checkpoint |-> "checkpoint called",
           restore |-> "restore called", unlock |-> "unlock called"]

\* A fresh directory and two fresh processes.
Fresh ==
  /\ child' = [r \in Ranks |-> "boot"] /\ holds' = [r \in Ranks |-> {}]
  /\ files' = {} /\ command' = [r \in Ranks |-> "none"]
  /\ driver' = [r \in Ranks |-> "running"] /\ call' = [r \in Ranks |-> NoCall]
  /\ late' = [r \in Ranks |-> {}] /\ steps' = {} /\ verdict' = "none" /\ verified' = FALSE

MatrixStart(first) ==
  /\ at = first /\ turn = 1
  /\ child = [r \in Ranks |-> "off"] /\ holds = [r \in Ranks |-> {}]
  /\ files = {} /\ command = [r \in Ranks |-> "none"]
  /\ driver = [r \in Ranks |-> "running"] /\ call = [r \in Ranks |-> NoCall]
  /\ late = [r \in Ranks |-> {}] /\ steps = {} /\ verdict = "none" /\ verified = FALSE
MatrixInit == parallel \in BOOLEAN /\ plan \in Plans /\ MatrixStart("spawn")
MatrixIdle == parallel = FALSE /\ plan = <<>> /\ MatrixStart("idle")

-----------------------------------------------------------------------------
\* child(): everything on the GPU waits while the driver holds the process.
Computes(r) == driver[r] = "running"

\* The context; then what takes both ranks: the communicator, a handle each.
Boot(r) ==
  /\ child[r] = "boot" /\ Computes(r)
  /\ child' = [child EXCEPT ![r] = "exchange"]
  /\ files' = IF Ipc THEN files \cup {<<"handle", r>>} ELSE files
  /\ UNCHANGED <<parentVars, holds, command, driver, call, late>>

Shared ==
  (IF Collective THEN {"comm"} ELSE {}) \cup (IF Captured THEN {"graph"} ELSE {})
    \cup (IF Ipc \/ Mode = "symm" THEN {"peer"} ELSE {})

Exchange(r) ==
  /\ child[r] = "exchange" /\ Computes(r)
  /\ Collective => child[Other(r)] \in {"exchange", "loop"}
  /\ Ipc => <<"handle", Other(r)>> \in files
  /\ child' = [child EXCEPT ![r] = "loop"]
  /\ holds' = [holds EXCEPT ![r] = Shared]
  /\ files' = files \cup {<<"ready", r>>}
  /\ UNCHANGED <<parentVars, command, driver, call, late>>

\* A file that is there but not written yet reads as no command, and is removed.
TakeCommand(r) ==
  /\ child[r] = "loop" /\ command[r] # "none"
  /\ child' = IF command[r] = "empty" THEN child ELSE [child EXCEPT ![r] = command[r]]
  /\ command' = [command EXCEPT ![r] = "none"]
  /\ UNCHANGED <<parentVars, holds, files, driver, call, late>>

\* The graph goes in one mode only; the communicator may stay.
Released(held, kept) ==
  {s \in held : \/ s = "graph" /\ Mode # "nccl_graph_free"
                \/ s = "comm" /\ kept}

\* destroy_process_group() on a thread: it returns, blocks beyond 30 s, or raises,
\* and then it has released the communicator or not. The log says which; torn
\* is written in all three.
Teardown(r) ==
  /\ child[r] = "teardown" /\ Computes(r)
  /\ \E destroyed \in {"returned", "blocked", "raised"}, kept \in BOOLEAN :
       /\ destroyed # "returned" => "comm" \in holds[r]
       /\ destroyed = "returned" => ~ kept
       /\ destroyed = "blocked" => kept
       /\ holds' = [holds EXCEPT ![r] = Released(@, kept)]
       /\ files' = files \cup {<<"torn", r>>} \cup (IF destroyed = "returned" THEN {} ELSE {<<destroyed, r>>})
  /\ child' = [child EXCEPT ![r] = "loop"]
  /\ UNCHANGED <<parentVars, command, driver, call, late>>

\* The thread of a destroy that blocked comes back after all.
DestroyReturns(r) ==
  /\ <<"blocked", r>> \in files /\ "comm" \in holds[r] /\ child[r] # "gone" /\ Computes(r)
  /\ holds' = [holds EXCEPT ![r] = @ \ {"comm"}]
  /\ UNCHANGED <<parentVars, child, files, command, driver, call, late>>

Verify(r) ==
  /\ child[r] = "verify" /\ Computes(r)
  /\ child' = [child EXCEPT ![r] = "loop"]
  /\ files' = files \cup {<<"verified", r>>}
  /\ UNCHANGED <<parentVars, holds, command, driver, call, late>>

\* By an exception or a signal. The file an exception leaves only shortens the wait
\* for ready, which may be over at any moment.
ChildFails(r) ==
  /\ child[r] \in {"boot", "exchange", "loop", "teardown", "verify"}
  /\ child' = [child EXCEPT ![r] = "gone"]
  /\ UNCHANGED <<parentVars, holds, files, command, driver, call, late>>

-----------------------------------------------------------------------------
\* cc(): the client, and the driver behind it.
After == [lock |-> "locked", checkpoint |-> "checkpointed", restore |-> "locked", unlock |-> "running"]
Before == [lock |-> "running", checkpoint |-> "locked", restore |-> "checkpointed", unlock |-> "locked"]

Carries(action, r) ==
  /\ child[r] # "gone" /\ driver[r] = Before[action]
  /\ driver' = [driver EXCEPT ![r] = After[action]]

DriverAnswers(r) ==
  /\ call[r].is = "under way"
  /\ \/ Carries(call[r].action, r) /\ call' = [call EXCEPT ![r].is = "ok"]
     \/ UNCHANGED driver /\ call' = [call EXCEPT ![r].is = "failed"]
  /\ UNCHANGED <<parentVars, childVars, files, command, late>>

\* Nobody waits for it any more.
DriverAnswersLate(r) ==
  \E action \in late[r] :
    /\ Carries(action, r)
    /\ late' = [late EXCEPT ![r] = @ \ {action}]
    /\ UNCHANGED <<parentVars, childVars, files, command, call>>

Start(action, rs) ==
  call' = [r \in Ranks |-> IF r \in rs THEN [action |-> action, is |-> "under way"] ELSE call[r]]

\* The client returns, or its time is over and it is killed: HUNG.
Collect(action, r, result) ==
  /\ call[r].action = action
  /\ \/ call[r].is \in {"ok", "failed"} /\ result = call[r].is /\ UNCHANGED late
     \/ call[r].is = "under way" /\ result = "hung" /\ late' = [late EXCEPT ![r] = @ \cup {action}]
  /\ call' = [call EXCEPT ![r] = NoCall]
  /\ steps' = steps \cup {<<action, r, result>>}

Oks(action) == {r \in Ranks : <<action, r, "ok">> \in steps}
There(name) == {r \in Ranks : <<name, r>> \in files} = Ranks
Rank == RankOrder[turn]
Go(next) == at' = next /\ turn' = 1

-----------------------------------------------------------------------------
\* run_mode()
Spawn ==
  /\ at = "spawn" /\ Go("wait") /\ Fresh
  /\ UNCHANGED <<parallel, plan>>

\* Both ready comes first; a failed child, one that is gone, or 240 s is an error.
AwaitReady ==
  /\ at = "wait"
  /\ IF There("ready")
       THEN Go(IF Mode \in TeardownModes THEN "ask teardown" ELSE "lock") /\ UNCHANGED verdict
       ELSE Go("clean") /\ verdict' = "error"
  /\ UNCHANGED <<parallel, plan, childVars, files, command, driver, call, late, steps, verified>>

\* open(cmd, "w"), then the text when it is closed: if the child has removed the
\* file in between, the text goes nowhere.
OpenCommand(what) ==
  /\ at = Ask[what] /\ command[Rank] # "empty"
  /\ at' = Write[what]
  /\ command' = [command EXCEPT ![Rank] = "empty"]
  /\ UNCHANGED <<parallel, plan, turn, childVars, files, driver, call, late, steps, verdict, verified>>
WriteCommand(what) ==
  /\ at = Write[what]
  /\ command' = IF command[Rank] = "empty" THEN [command EXCEPT ![Rank] = what] ELSE command
  /\ IF turn = 2 THEN Go(what) ELSE turn' = 2 /\ at' = Ask[what]
  /\ UNCHANGED <<parallel, plan, childVars, files, driver, call, late, steps, verdict, verified>>

\* 60 s, or both torn; whichever, the mode goes on.
TornDown ==
  /\ at = "teardown" /\ Go("lock")
  /\ steps' = {<<"teardown", r, IF There("torn") THEN "ok" ELSE "failed">> : r \in Ranks}
  /\ UNCHANGED <<parallel, plan, childVars, files, command, driver, call, late, verdict, verified>>

\* One client at a time.
CallOne(action) ==
  /\ at = action /\ (action = "checkpoint" => ~ parallel)
  /\ Start(action, {Rank}) /\ at' = Called[action]
  /\ UNCHANGED <<parallel, plan, turn, childVars, files, command, driver, late, steps, verdict, verified>>

Locked ==
  /\ at = "lock called"
  /\ \E result \in {"ok", "failed", "hung"} :
       /\ Collect("lock", Rank, result)
       /\ IF result # "ok" THEN Go("clean") /\ verdict' = "lock failed"
          ELSE /\ IF turn = 2 THEN Go("checkpoint") ELSE turn' = 2 /\ at' = "lock"
               /\ UNCHANGED verdict
  /\ UNCHANGED <<parallel, plan, childVars, files, command, driver, verified>>

\* --parallel: both clients first, collected in order.
CallBoth ==
  /\ at = "checkpoint" /\ parallel /\ turn = 1
  /\ Start("checkpoint", Ranks) /\ at' = "checkpoint called"
  /\ UNCHANGED <<parallel, plan, turn, childVars, files, command, driver, late, steps, verdict, verified>>

\* Serially, the first that fails is the last.
Checkpointed ==
  /\ at = "checkpoint called"
  /\ \E result \in {"ok", "failed", "hung"} :
       /\ Collect("checkpoint", Rank, result)
       /\ IF turn = 2 \/ (~ parallel /\ result # "ok") THEN Go("states")
          ELSE turn' = 2 /\ at' = IF parallel THEN "checkpoint called" ELSE "checkpoint"
  /\ UNCHANGED <<parallel, plan, childVars, files, command, driver, verdict, verified>>

\* Mutant: one rank that is checkpointed is enough.
SomeCheckpointed == Oks("checkpoint") # {}

AllCheckpointed ==
  /\ \E s \in steps : s[1] = "checkpoint"
  /\ \A s \in steps : s[1] = "checkpoint" => s[3] = "ok"

\* state() and wchan() only read.
JudgeMode ==
  /\ at = "states"
  /\ IF AllCheckpointed THEN Go("restore") /\ UNCHANGED verdict
     ELSE /\ Go("clean")
          /\ verdict' = IF \E r \in Ranks : <<"checkpoint", r, "hung">> \in steps
                          THEN "checkpoint HUNG" ELSE "checkpoint failed"
  /\ UNCHANGED <<parallel, plan, childVars, files, command, driver, call, late, steps, verified>>

\* Both are restored and both unlocked, whatever the outcome of each.
Restored ==
  /\ at = "restore called"
  /\ \E result \in {"ok", "failed", "hung"} : Collect("restore", Rank, result)
  /\ IF turn = 2 THEN Go("unlock") ELSE turn' = 2 /\ at' = "restore"
  /\ UNCHANGED <<parallel, plan, childVars, files, command, driver, verdict, verified>>
Unlocked ==
  /\ at = "unlock called"
  /\ \E result \in {"ok", "failed", "hung"} : Collect("unlock", Rank, result)
  /\ IF turn = 1 THEN turn' = 2 /\ at' = "unlock" /\ UNCHANGED verdict
     ELSE LET ok == \A s \in steps' : s[1] \in {"restore", "unlock"} => s[3] = "ok"
          IN /\ Go(IF ok THEN "ask verify" ELSE "clean")
             /\ verdict' = IF ok THEN "round trip OK" ELSE "restore/unlock failed"
  /\ UNCHANGED <<parallel, plan, childVars, files, command, driver, verified>>

\* 60 s, or both; the verdict does not depend on it.
Verified ==
  /\ at = "verify" /\ Go("clean") /\ verified' = There("verified")
  /\ UNCHANGED <<parallel, plan, childVars, files, command, driver, call, late, steps, verdict>>

\* finally: kill, join for 15 s, remove the directory; then main()'s next mode.
Clean ==
  /\ at = "clean"
  /\ child' = [r \in Ranks |-> "gone"]
  /\ plan' = Tail(plan)
  /\ Go(IF Len(plan) = 1 THEN "done" ELSE "spawn")
  /\ UNCHANGED <<parallel, holds, files, command, driver, call, late, steps, verdict, verified>>

\* mem() runs nvidia-smi, and whoever kills a client waits for its end: these have
\* no limit, and what is held in the driver does not end.
Waits ==
  \/ at \in {"spawn", "teardown", "states", "clean"}
  \/ at = "wait" /\ There("ready")
  \/ at = "unlock called" /\ turn = 2
  \/ at \in {Called[action] : action \in DOMAIN Called} /\ call[Rank].is = "under way"

ParentHangs ==
  /\ Waits /\ at' = "stuck"
  /\ UNCHANGED <<parallel, plan, turn, childVars, files, command, driver, call, late, steps, verdict,
                 verified>>

Parent ==
  \/ Spawn \/ AwaitReady \/ TornDown \/ CallBoth \/ Locked \/ Checkpointed \/ JudgeMode
  \/ Restored \/ Unlocked \/ Verified \/ Clean
  \/ \E what \in DOMAIN Ask : OpenCommand(what) \/ WriteCommand(what)
  \/ \E action \in DOMAIN After : CallOne(action)

MatrixNext ==
  \/ Parent \/ ParentHangs
  \/ \E r \in Ranks : \/ Boot(r) \/ Exchange(r) \/ TakeCommand(r) \/ Teardown(r) \/ DestroyReturns(r)
                      \/ Verify(r) \/ ChildFails(r) \/ DriverAnswers(r) \/ DriverAnswersLate(r)

\* The parent goes on; where it waits without limit it may hang instead.
MatrixFairness == WF_matrixVars(Parent)

-----------------------------------------------------------------------------
Judged == at \in {"ask verify", "write verify", "verify", "clean"}

(***************************************************************************)
(* The matrix says what happened. A round trip is OK only if each rank was *)
(* locked, checkpointed, restored and unlocked, and the driver holds none  *)
(* of them now; no rank is brought back before its peer was checkpointed;  *)
(* HUNG is said only of a checkpoint whose client was killed, and after a  *)
(* lock that failed nothing is checkpointed. "verified" is said only when  *)
(* both ranks computed after they came back. A teardown that is ok         *)
(* released the peer's memory on both ranks, and the communicator unless   *)
(* the child's log says that its destroy blocked or raised.                *)
(***************************************************************************)
RoundTripIsTrue ==
  /\ Judged /\ verdict = "round trip OK" =>
       /\ \A action \in DOMAIN After : Oks(action) = Ranks
       /\ \A r \in Ranks : driver[r] = "running"
  /\ \A s \in steps : s[1] = "restore" => Oks("checkpoint") = Ranks
  /\ verdict = "checkpoint HUNG" => \E r \in Ranks : <<"checkpoint", r, "hung">> \in steps
  /\ verdict = "lock failed" => \A r \in Ranks : driver[r] # "checkpointed"
  /\ verified => verdict = "round trip OK"
  /\ \A r \in Ranks : <<"verified", r>> \in files => Oks("unlock") = Ranks
  /\ Oks("teardown") = Ranks =>
       \A r \in Ranks : /\ "peer" \notin holds[r]
                        /\ "comm" \in holds[r] => <<"blocked", r>> \in files \/ <<"raised", r>> \in files

\* Every mode of the plan gets its verdict, whatever hangs in a child or behind a
\* client whose time is limited; only a call without limit holds the script up.
MatrixEnds == <>(at \in {"idle", "done", "stuck"})

=============================================================================
