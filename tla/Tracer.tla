------------------------------- MODULE Tracer -------------------------------
(***************************************************************************)
(* The Tracer of coldstart/cs_trace.py: the event sink that every probed   *)
(* Python process of a vLLM start writes to, from several threads, across  *)
(* fork, and down to a last summary when the process exits or is sent      *)
(* SIGTERM.                                                                *)
(*                                                                         *)
(* The processes are a probed program, with a main thread and a worker,    *)
(* and the child that the main thread may fork.  A step of a thread is     *)
(* what it does between two points where another thread, or in the main    *)
(* thread a signal handler, may run: at the calls that open the file, and  *)
(* at the lock.  What a line says is left out: it is a header, an event,   *)
(* the note of a signal, or the summary.  Left out are SIGKILL, which      *)
(* stops a process where it stands, and a previous signal handler that     *)
(* raises inside _write or inside another handler.                         *)
(***************************************************************************)
EXTENDS Integers, Sequences, FiniteSets

CONSTANTS
  Caps,        \* the values of CS_MAX_EVENTS to be considered
  MaxAttempts  \* bound of the model: events the program emits, signals, and faults

ASSUME CapsAssumption == Caps \subseteq Nat
ASSUME MaxAttemptsAssumption == MaxAttempts \in Nat

Procs == {"parent", "child"}
Threads == {"main", "worker", "forked"}
Kinds == {"header", "event", "signal", "summary"}

VARIABLES
  max_events, \* the cap of this start, the same in all of its processes
  life,       \* per process: none, running, ending (exit handlers run) or ended
  disabled,   \* per process: disabled, by a file that could not be opened or written
  closed,     \* per process: _closed
  fh,         \* per process: _fh, a handle called by the thread that opened it, or none
  using,      \* per thread: the handle its line goes to, while it is being written
  shut,       \* the handles that are closed
  fhPid,      \* per process: _fh_pid, or none
  owner,      \* per process: who holds _lock: one of its threads, none, or ghost
  n,          \* per process: _n
  dropped,    \* per process: _dropped
  summarised, \* per process: _summarised
  pc,         \* per thread: where _write stands; other than idle, _local.writing is set
  todo,       \* per thread: the lines it is writing, the one it was asked for last
  plan,       \* per process: what the handlers its main thread is in still do, the
              \* innermost first
  lines,      \* lines by file, writer and kind
  emitted,    \* history, per process: lines it was asked for, headers included
  inherited,  \* history, per process: _n and _dropped when it began
  refused,    \* history, per process: lines json.dumps would not take
  late,       \* history, per process: lines that came to no file, or to a closed one
  overlapped, \* history, per process: an _on_exit began inside another that had found
              \* no summary and had yet to write its own
  attempts    \* counts the program's events, the signals and the faults, up to MaxAttempts

vars == <<max_events, life, disabled, closed, fh, using, shut, fhPid, owner, n, dropped,
          summarised, pc, todo, plan, lines, emitted, inherited, refused, late, overlapped,
          attempts>>
files == <<fh, shut, fhPid>>
lost == <<refused, late>>
ends == <<life, closed, plan, overlapped>>
fixed == <<max_events, inherited>>

ProcOf(t) == IF t = "forked" THEN "child" ELSE "parent"
MainOf(p) == IF p = "parent" THEN "main" ELSE "forked"
ThreadsOf(p) == {t \in Threads : ProcOf(t) = p}

Busy(t) == pc[t] # "idle"

----------------------------------------------------------------------------
(* _write and _write_locked. *)

(* A line that comes when the tracer is disabled or closed is gone; above the
   cap it is dropped, and counted; else the thread sets its guard and goes on.
   The cap is checked without the lock. *)
Silent(p) == disabled[p] \/ closed[p]

(* Mutated form: the cap is checked with the wrong comparison. *)
WriteAboveCap(t, kind) ==
  LET p == ProcOf(t) IN
  /\ emitted' = [emitted EXCEPT ![p] = @ + 1]
  /\ \/ /\ Silent(p)
        /\ late' = [late EXCEPT ![p] = @ + 1]
        /\ UNCHANGED <<dropped, pc, todo>>
     \/ /\ ~ Silent(p) /\ n[p] > max_events
        /\ dropped' = [dropped EXCEPT ![p] = @ + 1]
        /\ UNCHANGED <<late, pc, todo>>
     \/ /\ ~ Silent(p) /\ n[p] <= max_events
        /\ pc' = [pc EXCEPT ![t] = "lookup"]
        /\ todo' = [todo EXCEPT ![t] = <<kind>>]
        /\ UNCHANGED <<late, dropped>>

Write(t, kind) ==
  LET p == ProcOf(t) IN
  /\ emitted' = [emitted EXCEPT ![p] = @ + 1]
  /\ \/ /\ Silent(p)
        /\ late' = [late EXCEPT ![p] = @ + 1]
        /\ UNCHANGED <<dropped, pc, todo>>
     \/ /\ ~ Silent(p) /\ n[p] >= max_events
        /\ dropped' = [dropped EXCEPT ![p] = @ + 1]
        /\ UNCHANGED <<late, pc, todo>>
     \/ /\ ~ Silent(p) /\ n[p] < max_events
        /\ pc' = [pc EXCEPT ![t] = "lookup"]
        /\ todo' = [todo EXCEPT ![t] = <<kind>>]
        /\ UNCHANGED <<late, dropped>>

(* A thread can move while its process has not ended. *)
Runs(t) == life[ProcOf(t)] \notin {"none", "ended"}

(* The handle is the process's own if it was opened under its pid. *)
Lookup(t) ==
  LET p == ProcOf(t) IN
  /\ Runs(t) /\ pc[t] = "lookup"
  /\ IF fhPid[p] = p
       THEN using' = [using EXCEPT ![t] = fh[p]] /\ pc' = [pc EXCEPT ![t] = "acquire"]
       ELSE pc' = [pc EXCEPT ![t] = "opening"] /\ UNCHANGED using
  /\ UNCHANGED <<fixed, ends, disabled, files, owner, n, dropped, summarised, todo, lines,
                 emitted, lost, attempts>>

(* _file: _fh is assigned ... *)
OpenFile(t) ==
  /\ Runs(t) /\ pc[t] = "opening"
  /\ fh' = [fh EXCEPT ![ProcOf(t)] = t]
  /\ pc' = [pc EXCEPT ![t] = "opened"]
  /\ UNCHANGED <<fixed, ends, disabled, using, shut, fhPid, owner, n, dropped, summarised,
                 todo, lines, emitted, lost, attempts>>

(* ... then _fh_pid; then the process header is written, ahead of the line. *)
AnchorFile(t) ==
  LET p == ProcOf(t)
      header == IF p = "child" THEN <<"header">> ELSE <<"header", "header">> IN
  /\ Runs(t) /\ pc[t] = "opened"
  /\ fhPid' = [fhPid EXCEPT ![p] = p]
  /\ todo' = [todo EXCEPT ![t] = header \o @]
  /\ emitted' = [emitted EXCEPT ![p] = @ + Len(header)]
  /\ pc' = [pc EXCEPT ![t] = "lookup"]
  /\ UNCHANGED <<fixed, ends, disabled, fh, using, shut, owner, n, dropped, summarised, lines,
                 lost, attempts>>

(* The lines a thread was writing are given up: its _write is over.  An
   _on_exit whose summary is among them goes on as if it were written. *)
GiveUp(t) ==
  /\ pc' = [pc EXCEPT ![t] = "idle"]
  /\ todo' = [todo EXCEPT ![t] = <<>>]
  /\ using' = [using EXCEPT ![t] = "none"]
  /\ summarised' = [summarised EXCEPT ![ProcOf(t)] =
                      @ \/ \E i \in DOMAIN todo[t] : todo[t][i] = "summary"]

(* A fault from outside, up to the bound. *)
Fault == attempts < MaxAttempts /\ attempts' = attempts + 1

(* Neither the trace directory nor /tmp takes a file: nothing more is written. *)
OpenFails(t) ==
  LET p == ProcOf(t) IN
  /\ Runs(t) /\ pc[t] = "opening"
  /\ Fault /\ GiveUp(t)
  /\ disabled' = [disabled EXCEPT ![p] = TRUE]
  /\ late' = [late EXCEPT ![p] = @ + Len(todo[t])]
  /\ UNCHANGED <<fixed, ends, files, owner, n, dropped, lines, emitted, refused>>

(* json.dumps refuses what a probe put into an event; nobody counts it. *)
Refuse(t) ==
  /\ Runs(t) /\ pc[t] = "acquire" /\ Head(todo[t]) = "event"
  /\ Fault /\ GiveUp(t)
  /\ refused' = [refused EXCEPT ![ProcOf(t)] = @ + 1]
  /\ UNCHANGED <<fixed, ends, disabled, files, owner, n, dropped, lines, emitted, late>>

Acquire(t) ==
  /\ Runs(t) /\ pc[t] = "acquire"
  /\ owner[ProcOf(t)] = "none"
  /\ owner' = [owner EXCEPT ![ProcOf(t)] = t]
  /\ pc' = [pc EXCEPT ![t] = "holding"]
  /\ UNCHANGED <<fixed, ends, disabled, files, using, n, dropped, summarised, todo, lines,
                 emitted, lost, attempts>>

(* Under the lock: one line is written and counted, or the write raises, as it
   does on a closed file, and disables the tracer.  The last one ends the
   _write; no signal handler runs between the end of the summary's _write and
   _summarised being set. *)
Put(t) ==
  LET p == ProcOf(t)
      kind == Head(todo[t]) IN
  /\ Runs(t) /\ pc[t] = "holding"
  /\ owner' = [owner EXCEPT ![p] = "none"]
  /\ todo' = [todo EXCEPT ![t] = Tail(@)]
  /\ \/ /\ using[t] \notin shut
        /\ lines' = [lines EXCEPT ![ProcOf(using[t])][p][kind] = @ + 1]
        /\ n' = [n EXCEPT ![p] = @ + 1]
        /\ UNCHANGED <<late, disabled, attempts>>
     \/ /\ IF using[t] \in shut THEN UNCHANGED attempts ELSE Fault
        /\ late' = [late EXCEPT ![p] = @ + 1]
        /\ disabled' = [disabled EXCEPT ![p] = TRUE]
        /\ UNCHANGED <<lines, n>>
  /\ pc' = [pc EXCEPT ![t] = IF Len(todo[t]) = 1 THEN "idle" ELSE "lookup"]
  /\ summarised' = [summarised EXCEPT ![p] = @ \/ kind = "summary"]
  /\ using' = [using EXCEPT ![t] = "none"]
  /\ UNCHANGED <<fixed, ends, files, dropped, emitted, refused>>

(* An event is emitted: instant, counter, meta, or the end of a span.  The main
   thread does so in the program, in the finish callbacks, which come before
   the summary, and in the handler that was there before the tracer's. *)
Emit(t) ==
  LET p == ProcOf(t) IN
  /\ Runs(t) /\ ~ Busy(t)
  /\ \/ t = "worker" \/ plan[p] = <<>>
     \/ plan[p] # <<>> /\ Head(plan[p]) \in {"summary", "return"}
  /\ attempts < MaxAttempts
  /\ attempts' = attempts + 1
  /\ Write(t, "event")
  /\ UNCHANGED <<fixed, ends, disabled, files, using, owner, n, summarised, lines, refused>>

----------------------------------------------------------------------------
(* Fork. *)

(* Mutated form: the handle is taken for the child's own. *)
ForkKeepsHandle ==
  /\ life["parent"] = "running" /\ life["child"] = "none"
  /\ ~ Busy("main") /\ plan["parent"] = <<>>
  /\ life' = [life EXCEPT !["child"] = "running"]
  /\ disabled' = [disabled EXCEPT !["child"] = disabled["parent"]]
  /\ fh' = [fh EXCEPT !["child"] = fh["parent"]]
  /\ fhPid' = [fhPid EXCEPT !["child"] = IF fh["parent"] = "none" THEN "none" ELSE "child"]
  /\ owner' = [owner EXCEPT !["child"] = IF owner["parent"] = "none" THEN "none" ELSE "ghost"]
  /\ n' = [n EXCEPT !["child"] = n["parent"]]
  /\ dropped' = [dropped EXCEPT !["child"] = dropped["parent"]]
  /\ inherited' = [inherited EXCEPT !["child"] = [n |-> n["parent"], dropped |-> dropped["parent"]]]
  /\ summarised' = [summarised EXCEPT !["child"] = FALSE]
  /\ UNCHANGED <<max_events, closed, using, shut, pc, todo, plan, lines, emitted, lost,
                 overlapped, attempts>>

(* The main thread forks, and _after_fork runs in the child: the handle is
   given up and no summary was written; _n, _dropped and the lock stay as they
   were.  A lock the worker holds has no holder in the child that could
   release it. *)
Fork ==
  /\ life["parent"] = "running" /\ life["child"] = "none"
  /\ ~ Busy("main") /\ plan["parent"] = <<>>
  /\ life' = [life EXCEPT !["child"] = "running"]
  /\ disabled' = [disabled EXCEPT !["child"] = disabled["parent"]]
  /\ fh' = [fh EXCEPT !["child"] = "none"]
  /\ fhPid' = [fhPid EXCEPT !["child"] = "none"]
  /\ owner' = [owner EXCEPT !["child"] = IF owner["parent"] = "none" THEN "none" ELSE "ghost"]
  /\ n' = [n EXCEPT !["child"] = n["parent"]]
  /\ dropped' = [dropped EXCEPT !["child"] = dropped["parent"]]
  /\ inherited' = [inherited EXCEPT !["child"] = [n |-> n["parent"], dropped |-> dropped["parent"]]]
  /\ summarised' = [summarised EXCEPT !["child"] = FALSE]
  /\ UNCHANGED <<max_events, closed, using, shut, pc, todo, plan, lines, emitted, lost,
                 overlapped, attempts>>

----------------------------------------------------------------------------
(* Exit and signals.  What a handler does is put before what its main thread
   had still to do; "default" and "return" are what the handler that was there
   before does in the end: the signal ends the process, or is ignored or
   handled and the program goes on. *)
Dispositions == {"default", "return"}

(* The interpreter exits. *)
Exit(p) ==
  /\ life[p] = "running" /\ ~ Busy(MainOf(p)) /\ plan[p] = <<>>
  /\ life' = [life EXCEPT ![p] = "ending"]
  /\ plan' = [plan EXCEPT ![p] = <<"exit">>]
  /\ UNCHANGED <<fixed, disabled, closed, files, using, owner, n, dropped, summarised, pc,
                 todo, lines, emitted, lost, overlapped, attempts>>

(* A signal while the main thread is not in _write, be it in another handler:
   the handler notes it and runs _on_exit, which leaves the file open. *)
Signal(p) ==
  /\ life[p] \in {"running", "ending"} /\ ~ Busy(MainOf(p))
  /\ attempts < MaxAttempts
  /\ attempts' = attempts + 1
  /\ \E before \in Dispositions :
       plan' = [plan EXCEPT ![p] = <<"signal", "flush", before>> \o @]
  /\ UNCHANGED <<fixed, life, disabled, closed, files, using, owner, n, dropped, summarised,
                 pc, todo, lines, emitted, lost, overlapped>>

(* Mutated forms: what the handler cannot write is not counted; without the
   guard and with a lock that is not reentrant, its line waits for the lock
   that its own thread holds. *)
SignalInWriteUncounted(p) ==
  /\ life[p] \in {"running", "ending"} /\ Busy(MainOf(p))
  /\ attempts < MaxAttempts
  /\ attempts' = attempts + 1
  /\ \E before \in Dispositions :
       life' = [life EXCEPT ![p] = IF before = "default" THEN "ended" ELSE @]
  /\ IF Silent(p)
       THEN /\ emitted' = [emitted EXCEPT ![p] = @ + 1]
            /\ late' = [late EXCEPT ![p] = @ + 1]
            /\ UNCHANGED summarised
       ELSE /\ emitted' = [emitted EXCEPT ![p] = @ + (IF summarised[p] THEN 1 ELSE 2)]
            /\ summarised' = [summarised EXCEPT ![p] = TRUE]
            /\ UNCHANGED late
  /\ UNCHANGED <<fixed, disabled, closed, files, using, owner, n, dropped, pc, todo, plan,
                 lines, refused, overlapped>>

SignalInWriteUnguarded(p) ==
  LET t == MainOf(p) IN
  /\ life[p] \in {"running", "ending"} /\ Busy(t)
  /\ attempts < MaxAttempts
  /\ attempts' = attempts + 1
  /\ plan' = [plan EXCEPT ![p] = <<"flush", "default">> \o @]
  /\ emitted' = [emitted EXCEPT ![p] = @ + 1]
  /\ pc' = [pc EXCEPT ![t] = "lookup"]
  /\ todo' = [todo EXCEPT ![t] = <<"signal">> \o @]
  /\ UNCHANGED <<fixed, life, disabled, closed, files, using, owner, n, dropped, summarised,
                 lines, lost, overlapped>>

(* A signal while it is: the handler runs inside that _write, whose guard makes
   it drop all it has to write; the summary counts as written. *)
SignalInWrite(p) ==
  /\ life[p] \in {"running", "ending"} /\ Busy(MainOf(p))
  /\ attempts < MaxAttempts
  /\ attempts' = attempts + 1
  /\ \E before \in Dispositions :
       life' = [life EXCEPT ![p] = IF before = "default" THEN "ended" ELSE @]
  /\ IF Silent(p)
       THEN /\ emitted' = [emitted EXCEPT ![p] = @ + 1]
            /\ late' = [late EXCEPT ![p] = @ + 1]
            /\ UNCHANGED <<dropped, summarised>>
       ELSE LET drops == IF summarised[p] THEN 1 ELSE 2 IN
            /\ emitted' = [emitted EXCEPT ![p] = @ + drops]
            /\ dropped' = [dropped EXCEPT ![p] = @ + drops]
            /\ summarised' = [summarised EXCEPT ![p] = TRUE]
            /\ UNCHANGED late
  /\ UNCHANGED <<fixed, disabled, closed, files, using, owner, n, pc, todo, plan, lines,
                 refused, overlapped>>

(* The main thread is in a handler, about to do this. *)
Does(p, items) ==
  /\ life[p] \in {"running", "ending"} /\ ~ Busy(MainOf(p))
  /\ plan[p] # <<>> /\ Head(plan[p]) \in items

(* The note of the signal, and the summary; one that is lost or dropped counts
   as written. *)
PlanNext(p) ==
  /\ Does(p, {"signal", "summary"})
  /\ plan' = [plan EXCEPT ![p] = Tail(@)]
  /\ Write(MainOf(p), Head(plan[p]))
  /\ summarised' = [summarised EXCEPT ![p] =
                      @ \/ (Head(plan[p]) = "summary" /\ (Silent(p) \/ n[p] >= max_events))]
  /\ UNCHANGED <<fixed, life, disabled, closed, files, using, owner, n, lines, refused,
                 overlapped, attempts>>

(* Mutated form: the flag is not looked at. *)
SummariseAgain(p) == <<"summary">>

(* _on_exit: the summary is written unless it was. *)
Summarise(p) == IF summarised[p] THEN <<>> ELSE <<"summary">>

(* An _on_exit that has found no summary is about to write one. *)
Planned(p) == \E i \in DOMAIN plan[p] : plan[p][i] = "summary"

OnExit(p) ==
  LET closing == IF Head(plan[p]) = "exit" THEN <<"close">> ELSE <<>>
      summary == IF Silent(p) THEN <<>> ELSE Summarise(p) IN
  /\ Does(p, {"exit", "flush"})
  /\ plan' = [plan EXCEPT ![p] = (IF Silent(p) THEN <<>> ELSE summary \o closing) \o Tail(@)]
  /\ overlapped' = [overlapped EXCEPT ![p] = @ \/ (summary # <<>> /\ Planned(p))]
  /\ UNCHANGED <<fixed, life, disabled, closed, files, using, owner, n, dropped, summarised,
                 pc, todo, lines, emitted, lost, attempts>>

(* _finish of an exit closes the file. *)
Finish(p) ==
  /\ Does(p, {"close"})
  /\ plan' = [plan EXCEPT ![p] = Tail(@)]
  /\ closed' = [closed EXCEPT ![p] = TRUE]
  /\ shut' = shut \cup ({fh[p]} \ {"none"})
  /\ UNCHANGED <<fixed, life, disabled, fh, using, fhPid, owner, n, dropped, summarised, pc,
                 todo, lines, emitted, lost, overlapped, attempts>>

(* The handler hands on to the one before it. *)
HandOn(p) ==
  /\ Does(p, Dispositions)
  /\ plan' = [plan EXCEPT ![p] = Tail(@)]
  /\ life' = [life EXCEPT ![p] = IF Head(plan[p]) = "default" THEN "ended" ELSE @]
  /\ UNCHANGED <<fixed, disabled, closed, files, using, owner, n, dropped, summarised, pc,
                 todo, lines, emitted, lost, overlapped, attempts>>

(* The interpreter is gone, with any thread that was left. *)
Vanish(p) ==
  /\ life[p] = "ending" /\ ~ Busy(MainOf(p)) /\ plan[p] = <<>>
  /\ life' = [life EXCEPT ![p] = "ended"]
  /\ UNCHANGED <<fixed, disabled, closed, files, using, owner, n, dropped, summarised, pc,
                 todo, plan, lines, emitted, lost, overlapped, attempts>>

Init ==
  /\ max_events \in Caps
  /\ life = [p \in Procs |-> IF p = "parent" THEN "running" ELSE "none"]
  /\ disabled = [p \in Procs |-> FALSE]
  /\ closed = [p \in Procs |-> FALSE]
  /\ fh = [p \in Procs |-> "none"]
  /\ using = [t \in Threads |-> "none"]
  /\ shut = {}
  /\ fhPid = [p \in Procs |-> "none"]
  /\ owner = [p \in Procs |-> "none"]
  /\ n = [p \in Procs |-> 0]
  /\ dropped = [p \in Procs |-> 0]
  /\ summarised = [p \in Procs |-> FALSE]
  /\ pc = [t \in Threads |-> "idle"]
  /\ todo = [t \in Threads |-> <<>>]
  /\ plan = [p \in Procs |-> <<>>]
  /\ lines = [q \in Procs |-> [p \in Procs |-> [k \in Kinds |-> 0]]]
  /\ emitted = [p \in Procs |-> 0]
  /\ inherited = [p \in Procs |-> [n |-> 0, dropped |-> 0]]
  /\ refused = [p \in Procs |-> 0]
  /\ late = [p \in Procs |-> 0]
  /\ overlapped = [p \in Procs |-> FALSE]
  /\ attempts = 0

Writing(t) ==
  \/ Lookup(t) \/ OpenFile(t) \/ OpenFails(t) \/ AnchorFile(t) \/ Refuse(t) \/ Acquire(t)
  \/ Put(t)
Handling(p) == PlanNext(p) \/ OnExit(p) \/ Finish(p) \/ HandOn(p) \/ Vanish(p)

Next ==
  \/ \E t \in Threads : Emit(t) \/ Writing(t)
  \/ Fork
  \/ \E p \in Procs : Exit(p) \/ Signal(p) \/ SignalInWrite(p) \/ Handling(p)

Safety == Init /\ [][Next]_vars

(* Threads get to run; a handler finishes what it has begun. *)
Spec ==
  /\ Safety
  /\ \A t \in Threads : WF_vars(Writing(t))
  /\ \A p \in Procs : WF_vars(Handling(p))

----------------------------------------------------------------------------
(* What a process has written, to whatever file, and its headers. *)
Count(p, kind) == lines["parent"][p][kind] + lines["child"][p][kind]
Written(p) == Count(p, "event") + Count(p, "signal") + Count(p, "summary")
Headers(p) == Count(p, "header")

InFlight(p) == IF p = "parent" THEN Len(todo["main"]) + Len(todo["worker"])
                               ELSE Len(todo["forked"])

(* "Safe across fork": a process never writes into the file of another, which
   would give its lines the other's role and header. *)
OwnFileOnly == \A p, q \in Procs, k \in Kinds : p # q => lines[p][q][k] = 0

(* "Dropped events are counted", whatever the races of the threads and signals,
   with two exceptions: every line a process was asked for is in a file, counted
   as dropped, still being written, refused by json.dumps, or came too late, to
   a tracer that was, or was thereby, disabled or closed. *)
EveryLineAccounted ==
  \A p \in Procs :
    /\ n[p] - inherited[p].n = Written(p) + Headers(p)
    /\ emitted[p] = Written(p) + Headers(p) + (dropped[p] - inherited[p].dropped)
                    + InFlight(p) + refused[p] + late[p]
    /\ late[p] > 0 => Silent(p)

(* The cap is checked outside the lock, and the headers take no notice of it,
   so it is overshot: by the lines of the other threads in flight, no more. *)
CapOvershootBounded ==
  \A p \in Procs :
    Written(p) <= max_events + Cardinality(ThreadsOf(p)) - 1

(* Exit and signals, one after the other, make one summary between them, also
   when a signal is handled and the process goes on: two only if a handler
   interrupts an _on_exit between its look at _summarised and its summary.  And
   none is forgotten: a file that is closed has it, or counts or lost it. *)
SummaryAtMostOnce ==
  \A p \in Procs :
    /\ ~ overlapped[p] => lines[p][p]["summary"] <= 1
    /\ closed[p] => summarised[p]

(* A write ends, the lock is never kept: no thread of the program hangs in
   the tracer.  Of a forked child this cannot be said: see Fork. *)
WriteEnds ==
  \A t \in {"main", "worker"} : Busy(t) ~> (~ Busy(t) \/ life["parent"] = "ended")

(* "Safe across fork/spawn and threads", as the class says of itself: a write
   of the forked child ends, too. *)
ForkedWriteEnds == Busy("forked") ~> (~ Busy("forked") \/ life["child"] = "ended")
=============================================================================
