----------------------------- MODULE PhaseSweep -----------------------------
(***************************************************************************)
(* sweep_phases() of analysis/coldstart_report.py: the timeline from t0 to *)
(* t1 is walked from one span boundary to the next, and every interval is  *)
(* credited to one phase, or to none. One step of this module is one       *)
(* iteration of its loop.                                                  *)
(***************************************************************************)
EXTENDS TracePhases

VARIABLES
  spans,        \* the spans of the run
  window,       \* <<t0, t1>>
  cursor,       \* the boundary the loop stands at
  waiting,      \* waiting[p]: clipped spans of p the loop has not come to
  active,       \* active[p]: the list st["active"] of process p
  credit,       \* per_phase
  unaccounted,
  concurrent,
  owner         \* history: the span each tick of the window was credited to

sweepVars == <<spans, window, cursor, waiting, active, credit, unaccounted,
               concurrent, owner>>

Procs == {s.pid : s \in spans}
NoSpan == [name |-> "none"]

\* The spans that reach into the window, cut at both its edges.
Clip(s, w) == [span |-> s, from |-> Max({s.ts, w[1]}), to |-> Min({End(s), w[2]})]
Inside(w) == {s \in spans : End(s) > w[1] /\ s.ts < w[2]}

\* The empty sweep, before sweep_phases() is called.
SweepInit ==
  /\ window = <<0, 0>> /\ cursor = 0
  /\ waiting = [p \in Procs |-> {}] /\ active = [p \in Procs |-> {}]
  /\ credit = [p \in Phase |-> 0]
  /\ unaccounted = 0 /\ concurrent = 0
  /\ owner = <<>>

StartSweep(w) ==
  /\ window' = w /\ cursor' = w[1]
  /\ waiting' = [p \in Procs |-> {Clip(s, w) : s \in {x \in Inside(w) : x.pid = p}}]
  /\ UNCHANGED <<spans, active, credit, unaccounted, concurrent, owner>>

Bounds == {window[1], window[2]} \cup
          UNION {{c.from, c.to} : c \in {Clip(s, window) : s \in Inside(window)}}
NextBound == Min({b \in Bounds : b > cursor})
Swept == ~ cursor < window[2]

\* What is on p's list when the interval that begins here is looked at.
Admit(p) == {c \in active[p] \cup {x \in waiting[p] : x.from <= cursor} : c.to > cursor}

\* max() over the spans of one process: the deepest, then the most specific.
Deeper(c, d) ==
  \/ c.span.depth > d.span.depth
  \/ c.span.depth = d.span.depth /\ Specificity(c.span) > Specificity(d.span)
Innermost(A) ==
  LET opaque == {c \in A : ~ IsTransparent(c.span)}
      pool == IF opaque = {} THEN A ELSE opaque
  IN CHOOSE c \in pool : \A d \in pool : ~ Deeper(d, c)

\* Mutant: depth is compared across processes, and before specificity.
OutranksByDepth(c, d) ==
  \/ c.span.depth > d.span.depth
  \/ c.span.depth = d.span.depth /\ Specificity(c.span) > Specificity(d.span)

\* Across processes depth means little: the more specific phase comes first.
Outranks(c, d) ==
  \/ Specificity(c.span) > Specificity(d.span)
  \/ Specificity(c.span) = Specificity(d.span) /\ c.span.depth > d.span.depth
Winner(C) == CHOOSE c \in C : \A d \in C : ~ Outranks(d, c)

\* The processes set aside because they wait for another one.
Blocked(C) == {c \in C : IsBlocking(c.span)}

\* What each process shows in this interval, who works, and who is credited.
Now == [p \in Procs |-> Admit(p)]
Cands == {Innermost(Now[p]) : p \in {q \in Procs : Now[q] # {}}}
Working == Cands \ Blocked(Cands)
Best == IF Working # {} THEN Winner(Working) ELSE Winner(Cands)

Step ==
  LET width == NextBound - cursor
  IN /\ ~ Swept
     /\ active' = Now
     /\ waiting' = [p \in Procs |-> {x \in waiting[p] : x.from > cursor}]
     /\ concurrent' = concurrent + (IF Cardinality(Working) > 1 THEN width ELSE 0)
     /\ IF Cands = {}
          THEN /\ unaccounted' = unaccounted + width
               /\ UNCHANGED credit
               /\ owner' = owner \o [i \in 1 .. width |-> NoSpan]
          ELSE /\ credit' = [credit EXCEPT ![Classify(Best.span)] = @ + width]
               /\ UNCHANGED unaccounted
               /\ owner' = owner \o [i \in 1 .. width |-> Best.span]
     /\ cursor' = NextBound
     /\ UNCHANGED <<spans, window>>

-----------------------------------------------------------------------------
\* What the table shows: a row for every phase of ReportOrder with some time.
Row(i) == IF i \in DOMAIN ReportOrder THEN credit[ReportOrder[i]] ELSE 0
FourRows(i) == Row(i) + Row(i + 1) + Row(i + 2) + Row(i + 3)
TableTotal == FourRows(1) + FourRows(5) + FourRows(9) + FourRows(13) + unaccounted

(***************************************************************************)
(* sum(phases) + unaccounted is the wall clock swept so far, at every      *)
(* boundary, as the rows of the printed table: no interval is credited     *)
(* twice, lost at an edge of the window, or given to a phase without a row.*)
(* And what two processes share is part of what is accounted for.          *)
(***************************************************************************)
PhasesReconcile ==
  /\ TableTotal = cursor - window[1]
  /\ Len(owner) = cursor - window[1]
  /\ concurrent + unaccounted <= cursor - window[1]

\* What the spans S say of tick t, process by process: those that cover it,
\* and of these the deepest, where a transparent one counts only by itself.
Covering(S, p, t) == {s \in S : s.pid = p /\ s.ts < t /\ t <= End(s)}
Leaves(S, p, t) ==
  LET C == Covering(S, p, t)
      opaque == {s \in C : ~ IsTransparent(s)}
      pool == IF opaque = {} THEN C ELSE opaque
  IN {s \in pool : \A x \in pool : x.depth <= s.depth}
Pids(S) == {s.pid : s \in S}
AtWork(S, t) ==
  {p \in Pids(S) : Leaves(S, p, t) # {} /\ \A x \in Leaves(S, p, t) : ~ IsBlocking(x)}

Justified(S, s, t) ==
  /\ s = NoSpan <=> \A p \in Pids(S) : Leaves(S, p, t) = {}
  /\ s # NoSpan =>
       /\ s \in S /\ s \in Leaves(S, s.pid, t)
       /\ IsBlocking(s) => AtWork(S, t) = {}
       /\ ~ IsBlocking(s) =>
            \A p \in AtWork(S, t) : \A x \in Leaves(S, p, t) : Specificity(s) >= Specificity(x)

(***************************************************************************)
(* The docstring's rule, tick by tick and without the sweep's own state:   *)
(* a tick is unaccounted exactly if no span covers it; its owner is the    *)
(* innermost span of its process; it is a wait only if every process that  *)
(* shows anything shows a wait; and no process that works at that moment   *)
(* has a more specific innermost span.                                     *)
(***************************************************************************)
OwnerIsJustified == \A i \in 1 .. Len(owner) : Justified(spans, owner[i], window[1] + i)

=============================================================================
