------------------------------ MODULE RunReport ------------------------------
(***************************************************************************)
(* analysis/coldstart_report.py from the event files to the report: load   *)
(* and index the lines, anchor the window, sweep it (PhaseSweep), and      *)
(* derive coverage, counters, dark spans, findings and the CSV row.        *)
(*                                                                         *)
(* A line of the trace is a record whose ph is "X" (span), "i" (instant),  *)
(* "C" (counter sample), "M" (meta) or "bad" (does not parse).             *)
(***************************************************************************)
EXTENDS PhaseSweep

CONSTANTS Target,          \* the probe's patch targets
          RegistryTarget,  \* vllm...registry:_run_in_subprocess
          Traces           \* what the event files of a run may hold

\* What the tracer writes: finitely many lines, with times and durations, and
\* the samples of the counters that only grow.
Cumulative == {"read_bytes", "cg_throttled"}
SpanLine == [ph : {"X"}, pid : Nat, ts : Nat, dur : Nat, depth : Nat, name : STRING,
             cat : STRING, blocking : {"unset", "yes", "no"}]
Readable(ls) ==
  /\ IsFiniteSet(ls)
  /\ \A l \in ls :
       /\ l.ph = "X" => l \in SpanLine
       /\ l.ph = "i" => l.ts \in Nat
       /\ l.ph = "M" /\ l.name \in {"process.exec", "process.fork"} => l.ts \in Nat
       /\ l.ph = "M" /\ l.name = "probe.patch_declared" => l.targets \subseteq Target
       /\ l.ph = "C" /\ l.key \in Cumulative => l.ts \in Nat /\ l.val \in Nat
  /\ \A c, d \in {l \in ls : l.ph = "C" /\ l.key \in Cumulative} :
       c.pid = d.pid /\ c.key = d.key /\ c.ts < d.ts => c.val <= d.val

ASSUME TargetAssumption == RegistryTarget \in Target
ASSUME TracesAssumption == \A ls \in Traces : Readable(ls)

VARIABLES
  lines,     \* the lines of all event files, constant
  stage,     \* "load", "index", "sweep", "findings" or "done"
  instants, samples, metas, bad,   \* what _load sorts the lines into
  procs,     \* self.procs
  report     \* what is printed, beside the phase table

reportVars == <<lines, stage, instants, samples, metas, bad, procs, report>>
vars == <<sweepVars, reportVars>>

None == "none"
Null == [kind |-> None, exec |-> 0, role |-> None, imports |-> 0]

-----------------------------------------------------------------------------
\* Run._load: no file ends the program; a line that does not parse is counted.
Load ==
  /\ stage = "load"
  /\ spans' = {l \in lines : l.ph = "X"}
  /\ instants' = {l \in lines : l.ph = "i"}
  /\ samples' = {l \in lines : l.ph = "C"}
  /\ metas' = {l \in lines : l.ph = "M"}
  /\ bad' = Cardinality({l \in lines : l.ph = "bad"})
  /\ waiting' = [p \in {l.pid : l \in spans'} |-> {}]
  /\ active' = waiting'
  /\ stage' = "index"
  /\ UNCHANGED <<window, cursor, credit, unaccounted, concurrent, owner,
                 lines, procs, report>>

ProcMetas == {"process.exec", "process.fork", "process.title", "process.summary", "imports.summary"}

\* Run._index: one record per process from its headers and summaries.
Indexed(p) ==
  LET own == {m \in metas : m.pid = p}
      heads == {m \in own : m.name \in {"process.exec", "process.fork"}}
      sums == {m \in own : m.name = "imports.summary"}
  IN [kind |-> IF heads = {} THEN None ELSE (CHOOSE m \in heads : TRUE).name,
      exec |-> IF heads = {} THEN 0 ELSE (CHOOSE m \in heads : TRUE).ts,
      role |-> IF heads = {} THEN None ELSE (CHOOSE m \in heads : TRUE).role,
      imports |-> IF sums = {} THEN 0 ELSE (CHOOSE m \in sums : TRUE).self]

\* t0(): the earliest exec'd process, or the first span of an unprobed run.
T0(ps) ==
  LET execs == {ps[p].exec : p \in {q \in DOMAIN ps : ps[q].kind = "process.exec"}}
      cands == IF execs # {} THEN execs ELSE {s.ts : s \in spans}
  IN IF cands = {} THEN 0 ELSE Min(cands)

\* ready_edges(): the first instant of each edge.
EdgeNames == {"port_open", "health_200", "models_200", "api_startup_complete", "first_token"}
Edges == {i.name : i \in instants} \cap EdgeNames
EdgeAt(e) == Min({i.ts : i \in {x \in instants : x.name = e}})

\* t_ready(): /health before /v1/models before the server's own word.
ReadyKeys == <<"health_200", "models_200", "api_startup_complete", "first_token">>
TReady(ps) ==
  LET seen == {i \in DOMAIN ReadyKeys : ReadyKeys[i] \in Edges}
  IN IF seen # {} THEN EdgeAt(ReadyKeys[Min(seen)])
     ELSE IF spans # {} THEN Max({End(s) : s \in spans})
     ELSE T0(ps)

Index ==
  /\ stage = "index"
  /\ procs' = [p \in {m.pid : m \in {x \in metas : x.name \in ProcMetas}} |-> Indexed(p)]
  /\ StartSweep(<<T0(procs'), TReady(procs')>>)
  /\ stage' = "sweep"
  /\ UNCHANGED <<lines, instants, samples, metas, bad, report>>

SweepOn ==
  /\ stage = "sweep"
  /\ Step
  /\ UNCHANGED reportVars

-----------------------------------------------------------------------------
(***************************************************************************)
(* _coverage(): the per-target events of all processes, or the summaries   *)
(* of those that wrote one. NoCoverage is Python's None.                   *)
(***************************************************************************)
NoCoverage == [applied |-> {}, notApplied |-> {}, never |-> {}, by |-> 0, known |-> FALSE]

Reported(t) == {i.status : i \in {x \in instants : x.name = "probe.patch" /\ x.target = t}}
Declared == UNION {m.targets : m \in {x \in metas : x.name = "probe.patch_declared"}}

\* _legacy_coverage(): a union of what failed, an intersection of what was
\* never imported. These traces give the applied ones as a number, the largest of
\* any process; it is left out.
LegacyCoverage ==
  LET old == {m \in metas : m.name = "probe.coverage"}
  IN IF old = {} THEN NoCoverage
     ELSE [applied |-> {}, notApplied |-> UNION {m.notApplied : m \in old},
           never |-> {t \in Target : \A m \in old : t \in m.never},
           by |-> Cardinality(old), known |-> TRUE]

\* Mutant: a target that failed in one process counts as not applied.
CoverageAnyFailure ==
  LET seen == {t \in Target : Reported(t) # {}}
  IN IF Declared = {} /\ seen = {} THEN LegacyCoverage
     ELSE [applied |-> {t \in seen : Reported(t) = {"ok"}},
           notApplied |-> {t \in seen : Reported(t) # {"ok"}},
           never |-> Declared \ seen, by |-> 0, known |-> TRUE]

Coverage ==
  LET seen == {t \in Target : Reported(t) # {}}
  IN IF Declared = {} /\ seen = {} THEN LegacyCoverage
     ELSE [applied |-> {t \in seen : "ok" \in Reported(t)},
           notApplied |-> {t \in seen : "ok" \notin Reported(t)},
           never |-> Declared \ seen, by |-> 0, known |-> TRUE]

\* registry_subprocess_s(): None (-1) when the probe says it never applied.
RegistryTime ==
  MapThenSumSet(LAMBDA s : s.dur,
    {s \in spans : s.name \in {"registry.subprocess", "weights.registry_subprocess"}})
RegistrySubprocess(cov) ==
  IF RegistryTarget \in cov.notApplied \cup cov.never THEN -1 ELSE RegistryTime

-----------------------------------------------------------------------------
\* counter_delta(): per process, max - min of the samples in the window.
InWindow(p, key, w) ==
  {c \in samples : c.pid = p /\ c.key = key /\ w[1] <= c.ts /\ c.ts <= w[2]}
CounterDelta(key, w) ==
  MapThenSumSet(LAMBDA p : LET vals == {c.val : c \in InWindow(p, key, w)}
                           IN IF Cardinality(InWindow(p, key, w)) >= 2
                              THEN Max(vals) - Min(vals) ELSE 0,
                {c.pid : c \in samples})

\* weight_window()
WeightSpans == {s \in spans : \/ s.cat = "weights"
                              \/ s.name \in {"weights.registry_subprocess", "weights.resolve_model_cls",
                                             "weights.download_from_hf"}}
WeightWindow == <<Min({s.ts : s \in WeightSpans}), Max({End(s) : s \in WeightSpans})>>

(***************************************************************************)
(* dark_spans(): long spans of which children, by containment, cover less  *)
(* than half. `end` walks over the children in the order of their starts.  *)
(***************************************************************************)
Within(x, s) == x.pid = s.pid /\ s.ts <= x.ts /\ End(x) <= End(s)
Kids(s) == {x \in spans \ {s} : Within(x, s) /\ x.dur > 0}

\* Mutant: a child that begins under an earlier one is passed over.
WalkApart(acc, k) ==
  IF k[1] < acc.end THEN acc
  ELSE [covered |-> acc.covered + (k[2] - k[1]), end |-> k[2]]

Walk(acc, k) ==
  IF k[2] <= acc.end THEN acc
  ELSE [covered |-> acc.covered + (k[2] - Max({k[1], acc.end})), end |-> k[2]]
Walked(kids, from) ==
  LET walk[i \in {0} \cup DOMAIN kids] ==
        IF i = 0 THEN [covered |-> 0, end |-> from] ELSE Walk(walk[i - 1], kids[i])
  IN walk
Covered(s) ==
  LET I == IntervalsOf(Kids(s)) IN Walked(ByStart(I), s.ts)[Cardinality(I)].covered

\* min_dur is a second, min_share 2 %, max_cov one half.
Dark(total) ==
  {s \in spans : /\ s.dur >= 1 /\ 50 * s.dur >= total
                 /\ ~ IsBlocking(s)
                 /\ 2 * Covered(s) < s.dur}

\* _contains() finds both spans again by their names.
FirstNamed(s) ==
  LET same == {x \in spans : x.name = s.name /\ x.pid = s.pid}
  IN CHOOSE x \in same : \A y \in same : x.ts <= y.ts
ContainedBy(outer, inner) ==
  outer.pid = inner.pid /\ Within(FirstNamed(inner), FirstNamed(outer))

\* Longest first; what a kept span of another name contains is left out.
Keep(kept, s) ==
  IF \E k \in kept : s.dur <= k.dur /\ s.name # k.name /\ ContainedBy(k, s)
    THEN kept ELSE kept \cup {s}
Kept(out) ==
  LET kept[i \in {0} \cup DOMAIN out] ==
        IF i = 0 THEN {} ELSE Keep(kept[i - 1], out[i])
  IN kept
Longer(S) == {z \in S \X S : z[1].dur > z[2].dur}
Darker(S) == {z \in S \X S : z[1].dur - Covered(z[1]) > z[2].dur - Covered(z[2])}
DarkSpans(total) ==
  IF total <= 0 THEN <<>>
  ELSE LET out == Dark(total)
           kept == Kept(Sorted(out, Longer(out)))[Cardinality(out)]
       IN SubSeq(Sorted(kept, Darker(kept)), 1, Min({3, Cardinality(kept)}))

\* warmup_breakdown(): per name, count and time of what runs under the span.
WarmupSteps ==
  LET top == {s \in spans : s.name = "warmup.compile_or_warm_up"}
      steps == {s \in spans : s.cat \in {"warmup", "cudagraph"} /\ s.dur > 0} \ top
      inner == IF top = {} THEN steps
               ELSE LET t == CHOOSE x \in top : \A y \in top : x.ts <= y.ts
                    IN {s \in steps : Within(s, t)}
  IN [n \in {s.name : s \in inner} |->
        [count |-> Cardinality({s \in inner : s.name = n}),
         sum |-> MapThenSumSet(LAMBDA s : s.dur, {x \in inner : x.name = n})]]

-----------------------------------------------------------------------------
(***************************************************************************)
(* findings(): which observations are made. Thresholds of half a second    *)
(* are one tick. Those on the page cache, stat calls and page faults read  *)
(* counters these traces do not have.                                      *)
(***************************************************************************)
Gap(a, b) == IF {a, b} \subseteq Edges THEN EdgeAt(b) - EdgeAt(a) ELSE 0
NoiseRoles == {"resource_tracker", "forkserver", "ready"}
Execs == {p \in DOMAIN procs : procs[p].kind = "process.exec" /\ procs[p].role \notin NoiseRoles}

Findings(cov) ==
  LET total == window[2] - window[1]
      sub == RegistrySubprocess(cov)
      when(cond, f) == IF cond THEN {f} ELSE {}
  IN UNION {
       when(CounterDelta("cg_throttled", window) > 0, "throttled"),
       when(Cardinality({p \in DOMAIN procs : procs[p].imports > 0}) > 1, "imports"),
       when(sub > 0, "registry subprocess"),
       when(sub = 0 /\ credit["registry"] < 1, "registry warm"),
       when(credit["hub"] + credit["download"] > 0, "network"),
       when(credit["compile"] > 2, "compilation"),
       when(WeightSpans # {} /\ WeightWindow[1] < WeightWindow[2]
              /\ CounterDelta("read_bytes", WeightWindow) > 0, "weight load"),
       when(Gap("port_open", "health_200") > 1, "readiness semantics"),
       when(Gap("health_200", "first_token") > 0, "first request"),
       when(Cardinality(Execs) > 1, "serialisation"),
       when(DarkSpans(total) # <<>>, "dark span"),
       when(total > 0 /\ 100 * unaccounted > 15 * total, "unaccounted")}

\* csv_row(): the phases and edges of the run in one line.
CsvRow ==
  [total |-> window[2] - window[1], unaccounted |-> unaccounted,
   phases |-> [p \in ToSet(ReportOrder) |-> credit[p]],
   edges |-> [e \in Edges |-> EdgeAt(e) - window[1]]]

Report ==
  /\ stage = "sweep" /\ Swept
  /\ LET cov == Coverage IN
       report' = [coverage |-> cov, dark |-> DarkSpans(window[2] - window[1]),
                  walls |-> [c \in {s.cat : s \in spans} |-> Aggregate(spans, c)],
                  read |-> CounterDelta("read_bytes", window),
                  warmup |-> WarmupSteps, findings |-> Findings(cov), csv |-> CsvRow]
  /\ stage' = "done"
  /\ UNCHANGED <<sweepVars, lines, instants, samples, metas, bad, procs>>

ReportInit ==
  /\ lines \in Traces
  /\ spans = {} /\ SweepInit
  /\ stage = "load" /\ instants = {} /\ samples = {} /\ metas = {} /\ bad = 0
  /\ procs = <<>> /\ report = None

ReportNext == Load \/ Index \/ SweepOn \/ Report
ReportSpec == ReportInit /\ [][ReportNext]_vars

-----------------------------------------------------------------------------
Reporting == stage = "done"
Cells(a, b) == (a + 1) .. b

(***************************************************************************)
(* The coverage the report prints is what the processes of the run found:  *)
(* a target is listed in at most one way; one called applied was applied   *)
(* somewhere and one called not applied nowhere; one called never imported *)
(* was reported by no process; and no declared target is left out. And a   *)
(* run that is called registry-warm has a process in which the probe of    *)
(* the registry was in place, if the trace has coverage per target.        *)
(***************************************************************************)
CoverageIsTrue ==
  Reporting =>
    LET cov == report.coverage
        perTarget == Declared # {} \/ \E t \in Target : Reported(t) # {}
    IN perTarget =>
        /\ \A t \in cov.applied : \E i \in instants : i.name = "probe.patch" /\ i.target = t /\ i.status = "ok"
        /\ \A t \in cov.notApplied : "ok" \notin Reported(t) /\ Reported(t) # {}
        /\ \A t \in cov.never : Reported(t) = {}
        /\ Declared \subseteq cov.applied \cup cov.notApplied \cup cov.never
        /\ RegistryTarget \in Declared /\ "registry warm" \in report.findings
             => "ok" \in Reported(RegistryTarget)

\* Of two samples of a counter in one tick the later shows no less.
Later(c, d) == c.ts > d.ts \/ (c.ts = d.ts /\ c.val > d.val)

FirstSample(in) == CHOOSE c \in in : \A d \in in : ~ Later(c, d)
LastSample(in) == CHOOSE c \in in : \A d \in in : ~ Later(d, c)
Growth(p) ==
  LET in == InWindow(p, "read_bytes", window)
  IN IF in = {} THEN 0 ELSE LastSample(in).val - FirstSample(in).val
BytesRead == MapThenSumSet(Growth, {c.pid : c \in samples})

(***************************************************************************)
(* The figures are measures: the wall time of a category is the number of  *)
(* ticks that some span of it covers, however the spans overlap; and a     *)
(* cumulative counter is said to have grown by what it did, process by     *)
(* process, between its first and its last sample in the window.           *)
(***************************************************************************)
MeasuresAreTrue ==
  Reporting =>
    /\ \A c \in DOMAIN report.walls :
         report.walls[c].wall = Cardinality(UNION {Cells(s.ts, End(s)) : s \in {x \in spans : x.cat = c}})
    /\ report.read = BytesRead

\* How many ticks of a span lie under the spans inside it.
Lit(s) == Cardinality(UNION {Cells(k.ts, End(k)) : k \in Kids(s)})
UniqueNames == \A s, x \in spans : s.name = x.name /\ s.pid = x.pid => s = x

(***************************************************************************)
(* A span reported as dark is one: it does work of its own process and     *)
(* less than half of its ticks lie under spans inside it. Where names are  *)
(* unique in a process, no longer span that is reported contains it, and a *)
(* dark span is left out only for a dark one that contains it or for three *)
(* that are no less dark. And something is reported whenever there is      *)
(* anything to report.                                                     *)
(***************************************************************************)
DarkSpansAreDark ==
  Reporting /\ window[1] < window[2] =>
    LET dark == ToSet(report.dark)
        out == Dark(window[2] - window[1]) IN
    /\ \A s \in dark : ~ IsBlocking(s) /\ 2 * Lit(s) < s.dur
    /\ out # {} => dark # {}
    /\ UniqueNames =>
         /\ \A s, x \in dark : s # x /\ Within(s, x) => s.dur = x.dur
         /\ \A s \in out \ dark :
              \/ \E x \in out \ {s} : Within(s, x)
              \/ /\ Cardinality(dark) = 3
                 /\ \A x \in dark : x.dur - Lit(x) >= s.dur - Lit(s)

=============================================================================
