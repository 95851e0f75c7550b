-------------------------- MODULE ConcurrentCapture --------------------------
(***************************************************************************)
(* scripts/cudagraph-concurrent-capture.py: an arm captures graphs in one  *)
(* thread or in several that a barrier starts together, and repeats that.  *)
(* Whether a capture raises, and whether it leaves a capture under way on  *)
(* the device, is the driver's affair; a thread may be slow beyond every   *)
(* limit. Times are not modelled, nor pool_probe() and the pools' sizes.   *)
(***************************************************************************)
EXTENDS Integers, Sequences, FiniteSets

CONSTANTS
  Graphs,     \* --graphs
  ThreadsOf,  \* --threads; 0 is a serial arm
  Reps        \* --reps
ASSUME CaptureAssumption ==
  /\ Graphs \in Nat \ {0} /\ ThreadsOf \subseteq Nat /\ Reps \in Nat \ {0}

VARIABLES
  nthreads,  \* of this arm
  rep,       \* the repetition
  main,      \* where main is; "stuck" in a synchronisation
  worker,    \* per thread, where worker() is
  left,      \* per thread, the units it has yet to capture, in order
  barrier,   \* [state, in]: who waits in it
  captured,  \* the units with a graph, each with the thread that captured it
  spans,     \* the threads whose span was recorded
  errors,    \* the threads, and Host, that reported an error
  underway,  \* a capture was begun and not ended
  hasty,     \* a join gave up on a thread
  result     \* "none", "ok", "error" or "raised", which ends the script

armVars == <<nthreads, rep, main, worker, left, barrier, captured, spans, errors, underway,
             hasty, result>>

Units == 1 .. Graphs
Threads == 1 .. nthreads
Host == 0            \* the thread that runs main
AllThreads == {1} \cup UNION {1 .. n : n \in ThreadsOf}
Parties == {Host} \cup Threads

\* units[i::nthreads]
Chunk(t) == [i \in 1 .. ((Graphs - t) \div nthreads) + 1 |-> t + (i - 1) * nthreads]

Opened == [state |-> "filling", in |-> {}]

ArmStart(first) ==
  /\ rep = 1 /\ main = first /\ worker = [t \in AllThreads |-> "none"]
  /\ left = [t \in AllThreads |-> <<>>] /\ barrier = Opened
  /\ captured = {} /\ spans = {} /\ errors = {} /\ underway = FALSE /\ hasty = FALSE
  /\ result = "none"
ArmInit == nthreads \in ThreadsOf /\ ArmStart("units")
ArmIdle == nthreads = 0 /\ ArmStart("idle")

-----------------------------------------------------------------------------
\* make_units(), then arm_serial() or arm_threads(): all starts from nothing,
\* but for a capture an earlier repetition left behind.
MakeUnits ==
  /\ main = "units"
  /\ captured' = {} /\ spans' = {} /\ errors' = {} /\ barrier' = Opened /\ hasty' = FALSE
  /\ IF nthreads = 0
       THEN main' = "serial" /\ left' = [left EXCEPT ![1] = [u \in Units |-> u]] /\ UNCHANGED worker
       ELSE /\ main' = "arrive"
            /\ left' = [t \in AllThreads |-> IF t \in Threads THEN Chunk(t) ELSE <<>>]
            /\ worker' = [t \in AllThreads |-> IF t \in Threads THEN "warmup" ELSE "none"]
  /\ UNCHANGED <<nthreads, rep, underway, result>>

\* arm_serial(): nothing is caught, an exception ends the script.
CaptureSerially ==
  /\ main = "serial" /\ left[1] # <<>>
  /\ \/ /\ captured' = captured \cup {<<Head(left[1]), 0>>}
        /\ left' = [left EXCEPT ![1] = Tail(@)]
        /\ UNCHANGED <<main, result>>
     \/ main' = "done" /\ result' = "raised" /\ UNCHANGED <<captured, left>>
  /\ UNCHANGED <<nthreads, rep, worker, barrier, spans, errors, underway, hasty>>
SerialEnds ==
  /\ main = "serial" /\ left[1] = <<>> /\ main' = "judge"
  /\ UNCHANGED <<nthreads, rep, worker, left, barrier, captured, spans, errors, underway, hasty, result>>

-----------------------------------------------------------------------------
Open == barrier.state = "filling"
IsLast(p) == barrier.in \cup {p} = Parties

\* threading.Barrier, as Python has it: the last to arrive opens it; who still
\* leaves when it is aborted raises although it was open.
Arrives(p) ==
  barrier' = IF IsLast(p) THEN [barrier EXCEPT !.state = "draining"]
             ELSE [barrier EXCEPT !.in = @ \cup {p}]
Leaves(p) ==
  barrier' = [state |-> IF barrier.in = {p} /\ barrier.state = "draining" THEN "filling"
                        ELSE barrier.state,
              in |-> barrier.in \ {p}]
Aborted == [barrier EXCEPT !.state = "broken"]

\* An exception in a worker: errors, then abort(), which may not find a waiter.
Raise(t) ==
  /\ errors' = errors \cup {t}
  /\ worker' = [worker EXCEPT ![t] = "abort"]
Abort(t) ==
  /\ worker[t] = "abort" /\ worker' = [worker EXCEPT ![t] = "ended"]
  /\ barrier' = Aborted
  /\ UNCHANGED <<nthreads, rep, main, left, captured, spans, errors, underway, hasty, result>>

Warmup(t) ==
  /\ worker[t] = "warmup"
  /\ \/ worker' = [worker EXCEPT ![t] = "arrive"] /\ UNCHANGED errors
     \/ Raise(t)
  /\ UNCHANGED <<nthreads, rep, main, left, barrier, captured, spans, underway, hasty, result>>

WorkerArrives(t) ==
  /\ worker[t] = "arrive" /\ barrier.state # "draining"
  /\ IF Open THEN /\ Arrives(t) /\ UNCHANGED errors
                  /\ worker' = [worker EXCEPT ![t] = IF IsLast(t) THEN "capture" ELSE "waiting"]
     ELSE Raise(t) /\ UNCHANGED barrier
  /\ UNCHANGED <<nthreads, rep, main, left, captured, spans, underway, hasty, result>>

WorkerLeaves(t) ==
  /\ worker[t] = "waiting" /\ ~ Open
  /\ Leaves(t)
  /\ IF barrier.state = "draining" THEN worker' = [worker EXCEPT ![t] = "capture"] /\ UNCHANGED errors
     ELSE Raise(t)
  /\ UNCHANGED <<nthreads, rep, main, left, captured, spans, underway, hasty, result>>

\* 600 s in the barrier break it for all.
WorkerTiresOfWaiting(t) ==
  /\ worker[t] = "waiting" /\ Open
  /\ barrier' = [state |-> "broken", in |-> barrier.in \ {t}]
  /\ Raise(t)
  /\ UNCHANGED <<nthreads, rep, main, left, captured, spans, underway, hasty, result>>

\* capture_begin(), the forward, capture_end(); a failure may leave it begun.
CaptureOne(t) ==
  /\ worker[t] = "capture" /\ left[t] # <<>>
  /\ \/ /\ captured' = captured \cup {<<Head(left[t]), t>>}
        /\ left' = [left EXCEPT ![t] = Tail(@)]
        /\ UNCHANGED <<worker, errors, underway>>
     \/ Raise(t) /\ underway' \in {underway, TRUE} /\ UNCHANGED <<captured, left>>
  /\ UNCHANGED <<nthreads, rep, main, barrier, spans, hasty, result>>

\* The stream is synchronised, the span appended.
WorkerEnds(t) ==
  /\ worker[t] = "capture" /\ left[t] = <<>>
  /\ \/ /\ spans' = spans \cup {t}
        /\ worker' = [worker EXCEPT ![t] = "ended"] /\ UNCHANGED errors
     \/ Raise(t) /\ UNCHANGED spans
  /\ UNCHANGED <<nthreads, rep, main, left, barrier, captured, underway, hasty, result>>

-----------------------------------------------------------------------------
\* A barrier that is broken, or tires main, is passed over.
MainArrives ==
  /\ main = "arrive" /\ barrier.state # "draining"
  /\ IF Open THEN Arrives(Host) /\ main' = IF IsLast(Host) THEN "join" ELSE "waiting"
     ELSE main' = "join" /\ UNCHANGED barrier
  /\ UNCHANGED <<nthreads, rep, worker, left, captured, spans, errors, underway, hasty, result>>
MainLeaves ==
  /\ main = "waiting" /\ main' = "join"
  /\ IF Open THEN barrier' = [state |-> "broken", in |-> barrier.in \ {Host}] ELSE Leaves(Host)
  /\ UNCHANGED <<nthreads, rep, worker, left, captured, spans, errors, underway, hasty, result>>

\* join(timeout=600) of each. A synchronisation of the host may be refused while
\* a capture is under way.
Join ==
  /\ main = "join" /\ main' = "judge"
  /\ LET late == \E t \in Threads : worker[t] # "ended"
         begun == underway \/ \E t \in Threads : worker[t] = "capture"
     IN /\ hasty' = late
        /\ \E refused \in BOOLEAN :
             /\ refused => begun
             /\ errors' = IF refused THEN errors \cup {Host} ELSE errors
  /\ UNCHANGED <<nthreads, rep, worker, left, barrier, captured, spans, underway, result>>

\* torch.cuda.synchronize(), here after the joins, in make_units(), arm_serial() and
\* verify(), and a capture in the main thread have no limit: a kernel that hangs
\* holds main for ever.
HostHangs ==
  /\ main \in {"units", "serial", "join", "judge"} /\ main' = "stuck"
  /\ UNCHANGED <<nthreads, rep, worker, left, barrier, captured, spans, errors, underway, hasty, result>>

Counted == \A u \in Units : \E c \in captured : c[1] = u

\* run(): the errors, then the count, then verify(), which replays each graph;
\* the first of these to fail ends the arm, verify() the script.
JudgeArm ==
  /\ main = "judge"
  /\ \/ errors # {} /\ main' = "done" /\ result' = "error" /\ UNCHANGED rep
     \/ errors = {} /\ ~ Counted /\ main' = "done" /\ result' = "error" /\ UNCHANGED rep
     \/ /\ errors = {} /\ Counted
        /\ \/ main' = "done" /\ result' = "raised" /\ UNCHANGED rep
           \/ rep = Reps /\ main' = "done" /\ result' = "ok" /\ UNCHANGED rep
           \/ rep < Reps /\ main' = "units" /\ rep' = rep + 1 /\ UNCHANGED result
  /\ UNCHANGED <<nthreads, worker, left, barrier, captured, spans, errors, underway, hasty>>

Main ==
  \/ MakeUnits \/ CaptureSerially \/ SerialEnds \/ MainArrives \/ MainLeaves \/ Join \/ JudgeArm
ArmNext ==
  \/ Main \/ HostHangs
  \/ \E t \in Threads : \/ Warmup(t) \/ WorkerArrives(t) \/ WorkerLeaves(t) \/ WorkerTiresOfWaiting(t)
                        \/ CaptureOne(t) \/ WorkerEnds(t) \/ Abort(t)

\* Main goes on when a wait of its own is over; what has no limit may hang instead.
ArmFairness == WF_armVars(Main)

-----------------------------------------------------------------------------
(***************************************************************************)
(* An arm's figure is of what it says. It is "ok" only if in the last      *)
(* repetition every graph was captured, each once and by the thread that   *)
(* owns its unit; if no join gave up, nobody reports an error and the span *)
(* of every thread is in. No thread captures before all have warmed up:    *)
(* the threads begin together or not at all.                               *)
(***************************************************************************)
ArmIsTrue ==
  /\ result = "ok" =>
       /\ rep = Reps
       /\ \A u \in Units : \E c \in captured : c[1] = u
       /\ ~ hasty => errors = {} /\ (nthreads = 0 \/ spans = Threads)
  /\ \A c, d \in captured : c[1] = d[1] => c = d
  /\ nthreads # 0 => \A c \in captured : c[2] \in Threads /\ (c[1] - c[2]) % nthreads = 0
  /\ (\E t \in Threads : worker[t] = "capture") =>
       \A t \in Threads : worker[t] \notin {"warmup", "arrive"}

\* An arm ends, also when a thread never does; only a kernel that hangs under main
\* itself holds it up.
ArmEnds == <>(main \in {"idle", "done", "stuck"})

=============================================================================
