---------------------------- MODULE TracePhases ----------------------------
(***************************************************************************)
(* The phase model of analysis/coldstart_report.py: how one span of a      *)
(* trace is classified, and the arithmetic on intervals that the report's  *)
(* figures are made of. Pure operators, no state.                          *)
(*                                                                         *)
(* A span is a record with the fields pid, ts, dur, depth, name, cat and   *)
(* blocking ("unset" when its args do not say). Times are whole ticks of   *)
(* one second.                                                             *)
(***************************************************************************)
EXTENDS Integers, FiniteSets, FiniteSetsExt, SequencesExt

\* PHASES: a phase and how specific it is; the more specific phase wins.
Priority ==
  [boot |-> 10, imports |-> 60, config |-> 50, hub |-> 70, download |-> 75,
   ipc |-> 40, device |-> 55, registry |-> 62, weights |-> 65,
   compile |-> 80, cudagraph |-> 80, kvcache |-> 58, warmup |-> 57,
   apiserver |-> 30, engine |-> 20, other |-> 15]

Phase == DOMAIN Priority

\* Mutant: the order of the rows as it was before the registry had a phase.
ReportOrderBefore ==
  <<"boot", "imports", "config", "hub", "download", "ipc", "device",
    "weights", "kvcache", "compile", "cudagraph", "warmup", "apiserver",
    "engine", "other">>

\* REPORT_ORDER: the rows of the phase table, in the order they are printed.
ReportOrder ==
  <<"boot", "imports", "config", "registry", "hub", "download", "ipc",
    "device", "weights", "kvcache", "compile", "cudagraph", "warmup",
    "apiserver", "engine", "other">>

CatPhase ==
  [import |-> "imports", config |-> "config", platform |-> "config",
   ipc |-> "ipc", device |-> "device", collective |-> "device",
   gpu |-> "device", registry |-> "registry", weights |-> "weights",
   compile |-> "compile", cudagraph |-> "cudagraph", kvcache |-> "kvcache",
   warmup |-> "warmup", apiserver |-> "apiserver", entrypoint |-> "engine",
   engine |-> "engine", executor |-> "engine", telemetry |-> "hub",
   fileio |-> "weights", misc |-> "other", probe |-> "other"]

\* The span names of the probes that the prefix and the substrings select.
RegistryNames == {"registry.subprocess", "registry.inspect_model_cls",
                  "registry.module_hash", "registry.cache_load",
                  "registry.cache_save", "registry.resolve_model_cls",
                  "weights.registry_subprocess", "weights.resolve_model_cls"}
DownloadNames == {"hf.hub_download", "hf.snapshot_download", "hf.http_get",
                  "hf.xet_get", "weights.download_from_hf"}

\* classify(): the name decides before the category does.
Classify(s) ==
  CASE s.name = "interpreter.startup" -> "boot"
    [] s.name \in RegistryNames -> "registry"
    [] s.cat = "network" /\ s.name \in DownloadNames -> "download"
    [] s.cat = "network" /\ s.name \notin DownloadNames -> "hub"
    [] OTHER -> IF s.cat \in DOMAIN CatPhase THEN CatPhase[s.cat] ELSE "other"

BlockingSpans == {"engine.wait_for_startup", "engine.launch_cores",
                  "engine.mp_client_init", "engine.async_mp_client_init",
                  "engine.core_proc_manager", "forkserver.launch_child",
                  "ipc.message_queue_wait"}
TransparentSpans == {"cuda.synchronize", "cuda.empty_cache",
                     "cuda.mem_get_info", "cuda.reset_peak_memory_stats",
                     "cuda.memory_stats", "gc.collect", "gc.freeze"}

\* A trace may mark a span itself; the list is for the traces that do not.
IsBlocking(s) == IF s.blocking = "unset" THEN s.name \in BlockingSpans
                                         ELSE s.blocking = "yes"
IsTransparent(s) == s.name \in TransparentSpans

End(s) == s.ts + s.dur
Specificity(s) == Priority[Classify(s)]

\* sorted() and list.sort(): S in an order in which nothing comes after an
\* element that R puts behind it.
Sorted(S, R) ==
  CHOOSE q \in [1 .. Cardinality(S) -> S] :
    \A i, j \in DOMAIN q : i < j => q[i] # q[j] /\ <<q[j], q[i]>> \notin R

(***************************************************************************)
(* union_len: intervals in the order of their starts, merged into runs.    *)
(* A record holds the length of what is closed and the run still open.     *)
(***************************************************************************)
Before(x, y) == x[1] < y[1] \/ (x[1] = y[1] /\ x[2] < y[2])
ByStart(I) == Sorted(I, {z \in I \X I : Before(z[1], z[2])})

\* Mutant: an interval inside the open one ends it early.
MergeShrinks(acc, x) ==
  IF x[1] > acc.end
    THEN [len |-> acc.len + (acc.end - acc.start), start |-> x[1], end |-> x[2]]
    ELSE [acc EXCEPT !.end = x[2]]

Merge(acc, x) ==
  IF x[1] > acc.end
    THEN [len |-> acc.len + (acc.end - acc.start), start |-> x[1], end |-> x[2]]
    ELSE [acc EXCEPT !.end = Max({acc.end, x[2]})]

Runs(ivs) ==
  LET run[i \in DOMAIN ivs] ==
        IF i = 1 THEN [len |-> 0, start |-> ivs[1][1], end |-> ivs[1][2]]
                 ELSE Merge(run[i - 1], ivs[i])
  IN run
UnionLen(I) ==
  LET last == Runs(ByStart(I))[Cardinality(I)]
  IN IF I = {} THEN 0 ELSE last.len + (last.end - last.start)

IntervalsOf(S) == {<<s.ts, End(s)>> : s \in S}

(***************************************************************************)
(* aggregate(): the line of a category in the subsystem section.           *)
(***************************************************************************)
Aggregate(spans, cat) ==
  LET sel == {s \in spans : s.cat = cat}
  IN [count |-> Cardinality(sel),
      sum |-> MapThenSumSet(LAMBDA s : s.dur, sel),
      longest |-> Max({0} \cup {s.dur : s \in sel}),
      wall |-> UnionLen(IntervalsOf(sel))]

=============================================================================
