------------------------------ MODULE Launcher ------------------------------
(***************************************************************************)
(* VllmMultiProcessManager and VllmInstance of scripts/launcher/launcher.py *)
(* with the child processes they start, watch and stop.                    *)
(*                                                                         *)
(* The launcher is one asyncio loop.  Its handlers call the manager        *)
(* synchronously, so a handler is one step of the loop, except that        *)
(* stop_instance blocks inside Process.join: meanwhile nothing else of the *)
(* loop runs (no other request, no sentinel callback, no watcher), but the *)
(* children and the kernel do.  `step` says where in stop() the loop is    *)
(* blocked.  A child is described by what the launcher can tell of it:     *)
(*   none     never started under this id                                  *)
(*   forked   runs, still in the launcher's process group                  *)
(*   loading  vllm_kickoff has called setpgrp; SIGTERM still runs the      *)
(*            handler inherited from the launcher, which stops nothing     *)
(*   serving  vLLM's own SIGTERM handling is in place                      *)
(*   exiting  its files are closed, so the sentinel pipe is readable, but  *)
(*            waitpid does not yet return it                               *)
(*   exited   waitpid returns it: is_alive() is false                      *)
(***************************************************************************)
EXTENDS Integers, Sequences, FiniteSets

CONSTANTS
  Ids,         \* instance ids
  MaxCreates,  \* bound of the model: instances created in a behaviour
  PromptChild  \* whether a child always reaches setpgrp within the 10 s of stop()

ASSUME MaxCreatesAssumption == MaxCreates \in Nat
ASSUME PromptChildAssumption == PromptChild \in BOOLEAN

VARIABLES
  mode,             \* the server: serving, draining (told to stop), stopping, down, killed
  streaming,        \* whether a client holds a watch stream open
  managerRevision,  \* VllmMultiProcessManager._revision
  instances,        \* VllmMultiProcessManager.instances
  child,            \* per id: the state of its process
  fate,             \* per id: none, term (a SIGTERM it acts on), kill (SIGKILL)
  sentinel,         \* per id: _sentinel_active, the reader on the sentinel fd
  log,              \* per id: whether its log file exists
  step,             \* where the loop is: idle, selecting, joining, reaping, finishing
  target,           \* the id stop_instance is working on
  todo,             \* the ids stop_all_instances has not come to
  event,            \* the newest event handed to the broadcaster, with its revision
  last,             \* history, per id: the type of its last event
  leaked,           \* history: ids whose last start failed after the log file was made
  creates           \* counts instances created, up to MaxCreates

serverVars == <<mode, streaming>>
managerVars == <<managerRevision, instances, event, last>>
osVars == <<child, fate, log, leaked>>
loopVars == <<step, target, todo>>
vars == <<mode, streaming, managerRevision, instances, child, fate, sentinel, log,
          step, target, todo, event, last, leaked, creates>>

Alive(i) == child[i] \in {"forked", "loading", "serving", "exiting"}

(* get_status: read from the process, not remembered. *)
Status(i) == IF Alive(i) THEN "running" ELSE "stopped"

(* exitCode: whether the event carries one.  Before the first event there is
   none to show: `NoEvent`. *)
Event == [rev : Nat, type : {"CREATED", "STOPPED", "DELETED"}, id : Ids,
          status : {"running", "stopped"}, exitCode : BOOLEAN]

NoEvent == [rev |-> 0]

----------------------------------------------------------------------------
(* Publishing. *)

(* Mutated form: the revision is taken, but nothing is appended when the
   instance is already known to be gone. *)
PublishUnlessStopped(type, i, status, code) ==
  /\ managerRevision' = managerRevision + 1
  /\ IF last[i] = "STOPPED"
       THEN UNCHANGED <<event, last>>
       ELSE /\ event' = [rev |-> managerRevision + 1, type |-> type, id |-> i,
                         status |-> status, exitCode |-> code]
            /\ last' = [last EXCEPT ![i] = type]

(* Mutated form: the state is made before last_revision is set, so the first
   event of an instance carries no revision. *)
PublishUnstamped(type, i, status, code) ==
  /\ managerRevision' = managerRevision + 1
  /\ event' = IF last[i] \in {"none", "DELETED"}
       THEN [type |-> type, id |-> i, status |-> status, exitCode |-> code]
       ELSE [rev |-> managerRevision, type |-> type, id |-> i,
             status |-> status, exitCode |-> code]
  /\ last' = [last EXCEPT ![i] = type]

(* _next_revision, the event stamped with it, and the broadcaster's _append:
   no suspension separates them. *)
Publish(type, i, status, code) ==
  /\ managerRevision' = managerRevision + 1
  /\ event' = [rev |-> managerRevision + 1, type |-> type, id |-> i,
               status |-> status, exitCode |-> code]
  /\ last' = [last EXCEPT ![i] = type]

(* The loop is free to run a handler or a callback. *)
LoopIdle == step = "idle" /\ mode \in {"serving", "draining"}

(* A request is being handled: uvicorn takes no new one once told to stop. *)
Accepting == step = "idle" /\ mode = "serving"

----------------------------------------------------------------------------
(* create_instance. *)

(* Mutated form: the RuntimeError path, taken with a loop running: no reader
   is put on the sentinel. *)
CreateUnwatched(i) ==
  /\ Accepting
  /\ i \notin instances
  /\ creates < MaxCreates
  /\ creates' = creates + 1
  /\ instances' = instances \cup {i}
  /\ log' = [log EXCEPT ![i] = TRUE]
  /\ leaked' = leaked \ {i}
  /\ \/ /\ child' = [child EXCEPT ![i] = "forked"]
        /\ Publish("CREATED", i, "running", FALSE)
     \/ /\ child' = [child EXCEPT ![i] = "exited"]
        /\ Publish("CREATED", i, "stopped", FALSE)
  /\ fate' = [fate EXCEPT ![i] = "none"]
  /\ sentinel' = [sentinel EXCEPT ![i] = FALSE]
  /\ UNCHANGED <<mode, streaming, loopVars>>

(* POST or PUT of an id that is not in use: the log file is made, the child
   forked, the event published and the sentinel watched.  The status the event
   carries is read after the fork: the child may have ended by then. *)
Create(i) ==
  /\ Accepting
  /\ i \notin instances
  /\ creates < MaxCreates
  /\ creates' = creates + 1
  /\ instances' = instances \cup {i}
  /\ log' = [log EXCEPT ![i] = TRUE]
  /\ leaked' = leaked \ {i}
  /\ \/ /\ child' = [child EXCEPT ![i] = "forked"]
        /\ Publish("CREATED", i, "running", FALSE)
     \/ /\ child' = [child EXCEPT ![i] = "exited"]
        /\ Publish("CREATED", i, "stopped", FALSE)
  /\ fate' = [fate EXCEPT ![i] = "none"]
  /\ sentinel' = [sentinel EXCEPT ![i] = TRUE]
  /\ UNCHANGED <<mode, streaming, loopVars>>

(* start() raises: the instance is popped again, but a log file made before
   Process.start failed stays behind. *)
CreateFails(i) ==
  /\ Accepting
  /\ i \notin instances
  /\ \/ UNCHANGED <<log, leaked>>
     \/ /\ log' = [log EXCEPT ![i] = TRUE]
        /\ leaked' = leaked \cup {i}
  /\ UNCHANGED <<mode, streaming, managerVars, child, fate, sentinel, loopVars, creates>>

----------------------------------------------------------------------------
(* The sentinel. *)

(* Mutated form: the reader is left registered. *)
SentinelStaysArmed(i) ==
  /\ LoopIdle
  /\ sentinel[i]
  /\ child[i] \in {"exiting", "exited"}
  /\ UNCHANGED sentinel
  /\ \/ /\ Publish("STOPPED", i, Status(i), ~ Alive(i))
        /\ UNCHANGED child
     \/ /\ child[i] = "exiting"
        /\ child' = [child EXCEPT ![i] = "exited"]
        /\ Publish("STOPPED", i, "stopped", FALSE)
  /\ UNCHANGED <<mode, streaming, instances, fate, log, leaked, loopVars, creates>>

(* _on_sentinel_exit and _on_instance_stopped: the loop sees the pipe
   readable, and only then asks waitpid, once for the exit code and once more
   for the status; the child may become waitable between the two. *)
SentinelFires(i) ==
  /\ LoopIdle
  /\ sentinel[i]
  /\ child[i] \in {"exiting", "exited"}
  /\ sentinel' = [sentinel EXCEPT ![i] = FALSE]
  /\ \/ /\ Publish("STOPPED", i, Status(i), ~ Alive(i))
        /\ UNCHANGED child
     \/ /\ child[i] = "exiting"
        /\ child' = [child EXCEPT ![i] = "exited"]
        /\ Publish("STOPPED", i, "stopped", FALSE)
  /\ UNCHANGED <<mode, streaming, instances, fate, log, leaked, loopVars, creates>>

----------------------------------------------------------------------------
(* stop_instance and stop_all_instances. *)

(* DELETE of one instance. *)
DeleteOne(i) ==
  /\ Accepting
  /\ i \in instances
  /\ step' = "selecting"
  /\ todo' = {i}
  /\ UNCHANGED <<mode, streaming, managerVars, osVars, sentinel, target, creates>>

(* DELETE of all instances. *)
DeleteAll ==
  /\ Accepting
  /\ instances # {}
  /\ step' = "selecting"
  /\ todo' = instances
  /\ UNCHANGED <<mode, streaming, managerVars, osVars, sentinel, target, creates>>

(* Mutated form: the sentinel reader survives into stop(). *)
StopBeginsUncancelled(i) ==
  /\ step = "selecting"
  /\ mode # "killed"
  /\ i \in todo
  /\ todo' = todo \ {i}
  /\ target' = i
  /\ IF Alive(i)
       THEN /\ fate' = [fate EXCEPT ![i] = IF child[i] = "serving" THEN "term" ELSE @]
            /\ step' = "joining"
       ELSE /\ UNCHANGED fate
            /\ step' = "finishing"
  /\ UNCHANGED <<mode, streaming, managerVars, child, sentinel, log, leaked, creates>>

(* stop_instance up to join: the sentinel is cancelled; a process that is
   already gone needs no more, else it is sent SIGTERM, which only a serving
   child acts on. *)
StopBegins(i) ==
  /\ step = "selecting"
  /\ mode # "killed"
  /\ i \in todo
  /\ todo' = todo \ {i}
  /\ target' = i
  /\ sentinel' = [sentinel EXCEPT ![i] = FALSE]
  /\ IF Alive(i)
       THEN /\ fate' = [fate EXCEPT ![i] = IF child[i] = "serving" THEN "term" ELSE @]
            /\ step' = "joining"
       ELSE /\ UNCHANGED fate
            /\ step' = "finishing"
  /\ UNCHANGED <<mode, streaming, managerVars, child, log, leaked, creates>>

(* join(timeout) or join() returns because the child has exited. *)
JoinReturns ==
  /\ step \in {"joining", "reaping"}
  /\ mode # "killed"
  /\ ~ Alive(target)
  /\ step' = "finishing"
  /\ UNCHANGED <<mode, streaming, managerVars, osVars, sentinel, target, todo, creates>>

(* Mutated form: the second join, after the kill, is left out. *)
JoinTimesOutNoReap ==
  /\ step = "joining"
  /\ mode # "killed"
  /\ Alive(target)
  /\ PromptChild => child[target] # "forked"
  /\ fate' = [fate EXCEPT ![target] = IF child[target] # "forked" THEN "kill" ELSE @]
  /\ step' = "finishing"
  /\ UNCHANGED <<mode, streaming, managerVars, child, sentinel, log, leaked, target, todo, creates>>

(* Mutated form: the child alone, no group, and no signal at all when it is
   still loading. *)
JoinTimesOutKillServing ==
  /\ step = "joining"
  /\ mode # "killed"
  /\ Alive(target)
  /\ PromptChild => child[target] # "forked"
  /\ fate' = [fate EXCEPT ![target] = IF child[target] = "serving" THEN "kill" ELSE @]
  /\ step' = "reaping"
  /\ UNCHANGED <<mode, streaming, managerVars, child, sentinel, log, leaked, target, todo, creates>>

(* join(timeout) gives up: the process group of the child is killed.  While
   the child has not called setpgrp there is no such group, the
   ProcessLookupError is swallowed, and the unbounded join follows. *)
JoinTimesOut ==
  /\ step = "joining"
  /\ mode # "killed"
  /\ Alive(target)
  /\ PromptChild => child[target] # "forked"
  /\ fate' = [fate EXCEPT ![target] = IF child[target] # "forked" THEN "kill" ELSE @]
  /\ step' = "reaping"
  /\ UNCHANGED <<mode, streaming, managerVars, child, sentinel, log, leaked, target, todo, creates>>

(* Mutated form: the log file is removed only when the child was running. *)
StopFinishesKeepingLog ==
  /\ step = "finishing"
  /\ mode # "killed"
  /\ log' = IF fate[target] = "none" THEN log ELSE [log EXCEPT ![target] = FALSE]
  /\ instances' = instances \ {target}
  /\ Publish("DELETED", target, Status(target), FALSE)
  /\ step' = IF todo = {} THEN "idle" ELSE "selecting"
  /\ mode' = IF mode = "stopping" /\ todo = {} THEN "down" ELSE mode
  /\ UNCHANGED <<streaming, child, fate, leaked, sentinel, target, todo, creates>>

(* The rest of stop_instance: the log file is removed, the instance leaves
   the map and DELETED is published.  The last one ends the request, or the
   launcher when it is shutting down. *)
StopFinishes ==
  /\ step = "finishing"
  /\ mode # "killed"
  /\ log' = [log EXCEPT ![target] = FALSE]
  /\ instances' = instances \ {target}
  /\ Publish("DELETED", target, Status(target), FALSE)
  /\ step' = IF todo = {} THEN "idle" ELSE "selecting"
  /\ mode' = IF mode = "stopping" /\ todo = {} THEN "down" ELSE mode
  /\ UNCHANGED <<streaming, child, fate, leaked, sentinel, target, todo, creates>>

----------------------------------------------------------------------------
(* The server's life. *)

(* A client opens a watch stream, or closes it. *)
OpenStream ==
  /\ Accepting
  /\ ~ streaming
  /\ streaming' = TRUE
  /\ UNCHANGED <<mode, managerVars, osVars, sentinel, loopVars, creates>>

CloseStream ==
  /\ streaming
  /\ mode \in {"serving", "draining"}
  /\ streaming' = FALSE
  /\ UNCHANGED <<mode, managerVars, osVars, sentinel, loopVars, creates>>

(* SIGTERM to the launcher: uvicorn stops accepting, and waits for the open
   responses, without a time limit, before it runs the lifespan's end. *)
Drain ==
  /\ Accepting
  /\ mode' = "draining"
  /\ UNCHANGED <<streaming, managerVars, osVars, sentinel, loopVars, creates>>

(* The lifespan's end: stop_all_instances. *)
Shutdown ==
  /\ mode = "draining"
  /\ step = "idle"
  /\ ~ streaming
  /\ IF instances = {}
       THEN mode' = "down" /\ UNCHANGED <<step, todo>>
       ELSE mode' = "stopping" /\ step' = "selecting" /\ todo' = instances
  /\ UNCHANGED <<streaming, managerVars, osVars, sentinel, target, creates>>

(* SIGKILL, what drive.py sends when the launcher has not left in 30 s: the
   children, in groups of their own, live on. *)
LauncherKilled ==
  /\ mode \notin {"down", "killed"}
  /\ mode' = "killed"
  /\ streaming' = FALSE
  /\ UNCHANGED <<managerVars, osVars, sentinel, loopVars, creates>>

----------------------------------------------------------------------------
(* The children (vllm_kickoff and the kernel). *)

ChildAdvances(i) ==
  /\ \/ child[i] = "forked" /\ child' = [child EXCEPT ![i] = "loading"]
     \/ child[i] = "loading" /\ child' = [child EXCEPT ![i] = "serving"]
  /\ fate[i] # "kill"
  /\ UNCHANGED <<serverVars, managerVars, fate, log, leaked, sentinel, loopVars, creates>>

(* It ends: by a signal, by a crash or by itself. *)
ChildEnds(i) ==
  /\ child[i] \in {"forked", "loading", "serving"}
  /\ child' = [child EXCEPT ![i] = "exiting"]
  /\ UNCHANGED <<serverVars, managerVars, fate, log, leaked, sentinel, loopVars, creates>>

ChildExits(i) ==
  /\ child[i] = "exiting"
  /\ child' = [child EXCEPT ![i] = "exited"]
  /\ UNCHANGED <<serverVars, managerVars, fate, log, leaked, sentinel, loopVars, creates>>

----------------------------------------------------------------------------
Init ==
  /\ mode = "serving"
  /\ streaming = FALSE
  /\ managerRevision = 0
  /\ instances = {}
  /\ child = [i \in Ids |-> "none"]
  /\ fate = [i \in Ids |-> "none"]
  /\ sentinel = [i \in Ids |-> FALSE]
  /\ log = [i \in Ids |-> FALSE]
  /\ step = "idle"
  /\ target \in Ids
  /\ todo = {}
  /\ event = NoEvent
  /\ last = [i \in Ids |-> "none"]
  /\ leaked = {}
  /\ creates = 0

Handler(i) == Create(i) \/ CreateFails(i) \/ SentinelFires(i) \/ DeleteOne(i) \/ StopBegins(i)

Process(i) == ChildAdvances(i) \/ ChildEnds(i) \/ ChildExits(i)

Next ==
  \/ \E i \in Ids : Handler(i) \/ Process(i)
  \/ DeleteAll
  \/ JoinReturns
  \/ JoinTimesOut
  \/ StopFinishes
  \/ OpenStream
  \/ CloseStream
  \/ Drain
  \/ Shutdown
  \/ LauncherKilled

Safety == Init /\ [][Next]_vars

(* The loop runs what is ready; a join with a timeout returns; a child gets
   the processor, a process that was sent SIGKILL ends, and one that has
   closed its files becomes waitable.  Nothing makes a child obey SIGTERM. *)
Spec ==
  /\ Safety
  /\ \A i \in Ids :
       /\ WF_vars(SentinelFires(i))
       /\ WF_vars(StopBegins(i))
       /\ WF_vars(ChildAdvances(i))
       /\ WF_vars(fate[i] = "kill" /\ ChildEnds(i))
       /\ WF_vars(ChildExits(i))
  /\ WF_vars(JoinReturns)
  /\ WF_vars(JoinTimesOut)
  /\ WF_vars(StopFinishes)
  /\ WF_vars(Shutdown)

----------------------------------------------------------------------------
(* Where the loop is in stopping instance i. *)
Stopping(i) == step \in {"joining", "reaping", "finishing"} /\ target = i

Dead(i) == child[i] \in {"none", "exited"}

(* The variables have their types. *)
TypeOK ==
  /\ mode \in {"serving", "draining", "stopping", "down", "killed"}
  /\ streaming \in BOOLEAN
  /\ managerRevision \in Nat
  /\ instances \in SUBSET Ids
  /\ child \in [Ids -> {"none", "forked", "loading", "serving", "exiting", "exited"}]
  /\ fate \in [Ids -> {"none", "term", "kill"}]
  /\ sentinel \in [Ids -> BOOLEAN]
  /\ log \in [Ids -> BOOLEAN]
  /\ step \in {"idle", "selecting", "joining", "reaping", "finishing"}
  /\ target \in Ids
  /\ todo \in SUBSET Ids
  /\ event \in Event \cup {NoEvent}
  /\ last \in [Ids -> {"none", "CREATED", "STOPPED", "DELETED"}]
  /\ leaked \in SUBSET Ids
  /\ creates \in 0 .. MaxCreates

(* What the events say is what the launcher holds: the newest event of an
   instance is CREATED or STOPPED exactly while it is in the map, so a client
   that has read every event knows the map. *)
EventsMatchInstances ==
  \A i \in Ids : i \in instances <=> last[i] \in {"CREATED", "STOPPED"}

(* A process never outlives the launcher's record of it: once its instance
   has left the map, or the launcher has shut down, the process has exited.
   That needs the kill and the second join after a stop that timed out. *)
NothingOutlivesItsRecord ==
  \A i \in Ids : (i \notin instances \/ mode = "down") => Dead(i)

(* An instance whose end has not been reported is being watched, unless it is
   just being stopped; and what has been reported, or deleted, is not watched,
   so that no callback looks up an instance that is not in the map. *)
WatchedUntilReported ==
  \A i \in Ids : sentinel[i] <=> (last[i] = "CREATED" /\ ~ Stopping(i))

(* An instance's log file exists as long as the instance; any other log file
   was left by a start that failed. *)
LogFollowsInstance ==
  \A i \in Ids :
    /\ i \in instances => log[i]
    /\ log[i] /\ i \notin instances => i \in leaked

(* The launcher implements the life it announces.  CREATED comes first or after
   DELETED, then at most one STOPPED, then DELETED; never STOPPED after
   DELETED, although the sentinel and the stop watch the same process; and
   every revision that is taken is published. *)
Newest == IF event = NoEvent THEN NoEvent ELSE [rev |-> event.rev, type |-> event.type, id |-> event.id]

Life == INSTANCE InstanceLife WITH newest <- Newest

ImplementsInstanceLife == Life!Spec

(* The end of a process is reported: a child that has exited under an
   instance last reported CREATED gets its STOPPED or DELETED event, unless
   the launcher itself is killed. *)
DeadIsReported ==
  \A i \in Ids :
    (i \in instances /\ child[i] = "exited" /\ last[i] = "CREATED")
      ~> (last[i] \in {"STOPPED", "DELETED"} \/ mode = "killed")

(* A stop ends, whatever the child does with SIGTERM, and even when the
   SIGTERM came too early to be obeyed: the loop gets back to its other
   requests. *)
StopTerminates == (step # "idle") ~> (step = "idle" \/ mode = "killed")

(* A launcher told to leave does leave, and by NothingOutlivesItsRecord takes
   its children with it, once no watch stream is open. *)
LauncherLeaves ==
  (mode \in {"draining", "stopping"} /\ ~ streaming) ~> mode \in {"down", "killed"}

(* The documented content of a STOPPED event: _on_sentinel_exit "collects the
   exit code" of a process that has stopped. *)
StoppedCarriesExitCode ==
  event # NoEvent /\ event.type = "STOPPED" => event.exitCode /\ event.status = "stopped"
=============================================================================
