----------------------------- MODULE MCRunReport -----------------------------
(* Four families of small traces: spans of two processes, more dark spans   *)
(* than are reported, cumulative counters, and what two processes report of *)
(* the probe's targets.                                                     *)
EXTENDS RunReport

Exec(p, t) == [ph |-> "M", name |-> "process.exec", pid |-> p, ts |-> t, role |-> "main"]
Fork(p, t) == [ph |-> "M", name |-> "process.fork", pid |-> p, ts |-> t, role |-> "worker"]
Instant(n, t) == [ph |-> "i", name |-> n, ts |-> t]
Span(p, t, d, k) == [ph |-> "X", pid |-> p, ts |-> t, dur |-> d, depth |-> k[3],
                     name |-> k[1], cat |-> k[2], blocking |-> "unset"]
Sample(p, t, v) == [ph |-> "C", pid |-> p, ts |-> t, key |-> "read_bytes", val |-> v]
Patch(p, t, st) == [ph |-> "i", name |-> "probe.patch", pid |-> p, ts |-> 2, target |-> t, status |-> st]

\* Name, category and depth: a container, a wait, work, a synchronize inside it.
Kinds == {<<"engine.core", "engine", 0>>, <<"engine.wait_for_startup", "ipc", 1>>,
          <<"weights.load_model", "weights", 1>>, <<"cuda.synchronize", "gpu", 2>>,
          <<"registry.subprocess", "registry", 1>>}

\* The window runs from tick 1 to tick 4, spans from 0 to 5.
Frame == {Exec(1, 1), Fork(2, 0), Instant("health_200", 4), Instant("port_open", 2)}
Spans1 == {Span(1, t, d, k) : t \in 0 .. 3, d \in {1, 2, 4}, k \in Kinds}
Spans2 == {Span(p, t, d, k) : p \in 1 .. 2, t \in {0, 2}, d \in {1, 3}, k \in Kinds}
SpanTraces ==
  {Frame \cup {x, y, z} : x \in Spans1, y \in Spans1, z \in Spans2}

CounterTraces ==
  {Frame \cup {Sample(1, t, f[t]) : t \in T} \cup {Sample(2, 2, 7), Sample(2, 3, 9)} :
     f \in {g \in [0 .. 5 -> 0 .. 3] : \A t \in 0 .. 4 : g[t] <= g[t + 1]},
     T \in SUBSET (0 .. 5)}

Statuses == {None, "ok", "missing"}
CoverageTraces ==
  {Frame \cup {[ph |-> "bad"], [ph |-> "M", name |-> "probe.patch_declared", pid |-> 1,
                                targets |-> D]}
         \cup {Patch(q[1], q[2], st[q[1]][q[2]]) :
                  q \in {x \in (1 .. 2) \X Target : st[x[1]][x[2]] # None}}
         \cup reg :
     D \in SUBSET Target, st \in [1 .. 2 -> [Target -> Statuses]],
     reg \in {{}, {Span(2, 2, 2, <<"registry.subprocess", "registry", 1>>)}}}
  \cup
  {Frame \cup {[ph |-> "M", name |-> "probe.coverage", pid |-> p, notApplied |-> na, never |-> nv[p]] : p \in 1 .. 2} :
     na \in SUBSET Target, nv \in [1 .. 2 -> SUBSET Target]}

\* Four spans of different names that may all be dark.
Work == <<"engine.core", "weights.load_model", "cuda.synchronize", "registry.subprocess">>
DarkTraces ==
  {Frame \cup {Span(1 + (i % 2), f[i][1], f[i][2], <<Work[i], "engine", i>>) : i \in 1 .. 4} :
     f \in [1 .. 4 -> {0, 1, 3} \X {1, 3}]}

MCTraces == DarkTraces \cup SpanTraces \cup CounterTraces \cup CoverageTraces
Done == stage = "done" /\ UNCHANGED vars
Spec == ReportInit /\ [][ReportNext \/ Done]_vars
=============================================================================
