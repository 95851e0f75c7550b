------------------------------ MODULE SpanStack ------------------------------
(***************************************************************************)
(* Spans of one process: Tracer.begin() and end() of coldstart/cs_trace.py *)
(* under the wrappers of coldstart/cs_patch.py. The stack of open spans is *)
(* one per thread, a wrapped call belongs to a task: a thread runs one     *)
(* synchronous task or several coroutines, which take turns at any await.  *)
(* What a call costs and whether it is worth a line is counted in ticks.   *)
(***************************************************************************)
EXTENDS Integers, Sequences, FiniteSets, SequencesExt

CONSTANTS
  Task,       \* what calls wrapped functions
  ThreadOf,   \* the thread a task runs on
  MinDur,     \* min_dur: a shorter call leaves no line
  MaxClock,   \* bound on time
  MaxSpans    \* bound on the identifiers of calls

ASSUME SpanAssumption == /\ ThreadOf \in [Task -> STRING]
                         /\ {MinDur, MaxClock, MaxSpans} \subseteq Nat

VARIABLES
  clock,
  seq,        \* Tracer._seq
  stack,      \* per thread, Tracer._local.stack
  frames,     \* per task, what it is really inside of, outermost first
  written     \* the span lines, each with what was true of it

spanVars == <<clock, seq, stack, frames, written>>

Thread == {ThreadOf[k] : k \in Task}
\* A thread with one task calls and returns in the order of its frames.
Sync(k) == \A j \in Task : ThreadOf[j] = ThreadOf[k] => j = k

Stack(k) == stack[ThreadOf[k]]
\* current_span_id(), also the parent of an instant.
CurrentSpan(k) == IF Stack(k) = <<>> THEN 0 ELSE Last(Stack(k)).id

Inside(k, kind) == \E f \in ToSet(frames[k]) : f.kind = kind

\* The call around what task k is about to begin, and how many there are.
Around(k) ==
  IF frames[k] = <<>> THEN [caller |-> 0, calls |-> 0]
  ELSE LET f == Last(frames[k]) IN
       IF f.kind = "call" THEN [caller |-> f.tok.id, calls |-> f.around.calls + 1] ELSE f.around

\* After the process has given `used` identifiers.
SpanInit(used) ==
  /\ clock = 0 /\ seq = used
  /\ stack = [th \in Thread |-> <<>>]
  /\ frames = [k \in Task |-> <<>>]
  /\ written = {}

-----------------------------------------------------------------------------
\* begin(), by a wrapper that is about to call the original.
Begin(k) ==
  LET tok == [id |-> seq + 1, start |-> clock, parent |-> CurrentSpan(k)]
  IN /\ seq < MaxSpans
     /\ seq' = seq + 1
     /\ stack' = [stack EXCEPT ![ThreadOf[k]] = Append(@, tok)]
     /\ frames' = [frames EXCEPT ![k] = Append(@, [kind |-> "call", tok |-> tok, around |-> Around(k)])]
     /\ UNCHANGED <<clock, written>>

\* Mutant: a token that is not on top is left on the stack.
PopTopOnly(s, tok) == IF s # <<>> /\ Last(s) = tok THEN Front(s) ELSE s

Position(s, tok) == CHOOSE i \in DOMAIN s : s[i] = tok
\* end() pops back to its token, if some other end() has not already.
PopTo(s, tok) == IF tok \in ToSet(s) THEN SubSeq(s, 1, Position(s, tok) - 1) ELSE s

\* What was true of the span that ends.
Truth(k, kind) == [kind |-> kind, task |-> k, around |-> Last(frames[k]).around]

\* end() with the floor of the wrapper, none if the call raised.
End(k, floor) ==
  LET tok == Last(frames[k]).tok
      rest == PopTo(Stack(k), tok)
      line == [id |-> tok.id, start |-> tok.start, end |-> clock, parent |-> tok.parent,
               depth |-> Len(rest), truth |-> Truth(k, "call")]
  IN /\ frames[k] # <<>> /\ Last(frames[k]).kind = "call"
     /\ stack' = [stack EXCEPT ![ThreadOf[k]] = rest]
     /\ written' = IF clock - tok.start < floor THEN written ELSE written \cup {line}
     /\ frames' = [frames EXCEPT ![k] = Front(@)]
     /\ UNCHANGED <<clock, seq>>

Return(k) == End(k, MinDur)
Raise(k) == End(k, 0)

\* emit_span(), for a span that was measured by its own probe.
Emitted(k, start, parent, depth) ==
  /\ seq' = seq + 1
  /\ written' = written \cup {[id |-> seq + 1, start |-> start, end |-> clock, parent |-> parent,
                               depth |-> depth, truth |-> Truth(k, "import")]}

SpanNext == \E k \in Task : Begin(k) \/ Return(k) \/ Raise(k)

-----------------------------------------------------------------------------
OpenTokens(th) ==
  UNION {{f.tok : f \in {g \in ToSet(frames[k]) : g.kind = "call"}} : k \in {j \in Task : ThreadOf[j] = th}}

(***************************************************************************)
(* Spans are where the calls were. On a thread with one task, the parent   *)
(* of every span is the call around it and its depth the number of them,   *)
(* whatever was too short to be written, raised, or ran on other threads.  *)
(* Among coroutines, which end each other's spans off the stack, that much *)
(* cannot hold; but every span still has a line of its own, its parent     *)
(* began before it, and no token stays on a stack after its call is over.  *)
(***************************************************************************)
SpansNest ==
  /\ \A x \in written :
       /\ Sync(x.truth.task) =>
            /\ x.parent = x.truth.around.caller
            /\ x.truth.kind = "call" => x.depth = x.truth.around.calls
       /\ x.parent < x.id
       /\ \A y \in written : /\ x.id = y.id => x = y
                             /\ y.id = x.parent => y.start <= x.start
  /\ \A th \in Thread : ToSet(stack[th]) \subseteq OpenTokens(th)

=============================================================================
