----------------------------- MODULE ImportHook ------------------------------
(***************************************************************************)
(* The probe in one process: coldstart/sitecustomize.py installs it step   *)
(* by step, cs_patch.py's finder wraps the loader of every module that is  *)
(* imported from then on, cs_imports.py times it and cs_patch.py applies   *)
(* the patches that wait for it. A process may fork; its child is followed *)
(* from then on.                                                           *)
(*                                                                         *)
(* Nothing here needs an action for the death of the process: it leaves    *)
(* the trace as it is, and what the trace says is an invariant.            *)
(***************************************************************************)
EXTENDS SpanStack

CONSTANTS
  Main,         \* the task that runs sitecustomize
  Sampler,      \* the thread of cs_sampler, which imports pynvml, or vllm for it
  AfterSampler, \* how many steps of _install() follow the one that starts it
  Module,       \* what can be imported
  Target,       \* functions to be wrapped, "<module>:<path>"
  ModuleOf,     \* where a target lives
  MinImport     \* _MIN: a shorter import leaves no line

ASSUME HookAssumption == /\ {Main, Sampler} \subseteq Task
                         /\ AfterSampler \in Nat
                         /\ ModuleOf \in [Target -> Module]
                         /\ MinImport \in Nat

VARIABLES
  steps,        \* what _install() has still to do: a sequence of sets of targets
  timing,       \* cs_imports observes the hook
  modules,      \* sys.modules: "absent", "executing", "patching" or "loaded"
  todo,         \* targets taken from _pending whose callback has not run
  declared,     \* _declared
  unready,      \* the target whose module was found not to be there a moment ago
  pending,      \* the targets in _pending
  wrapped,      \* the targets that are wrapped
  results,      \* _results: target and status
  shown,        \* the probe.patch lines in the file of the process
  listed,       \* the probe.patch_declared line in it, once it is written
  imports,      \* cs_imports._stack
  cum, self,    \* _cum and _self
  live,         \* the tasks of the process: a forked child has one
  forked,
  overlapped,   \* two tasks have been importing at once
  own,          \* what a module really took, nested imports apart
  overtaken     \* targets appended to _pending after their module's were taken

hookVars == <<steps, timing, modules, todo, declared, unready, pending, wrapped, results, shown,
              listed, imports, cum, self, live, forked, overlapped, own, overtaken>>
vars == <<spanVars, hookVars>>
applied == <<wrapped, results, shown>>
tables == <<steps, declared, unready, pending, applied, listed, todo, overtaken>>
times == <<imports, cum, self, overlapped, own>>
process == <<live, forked>>

None == {"not yet"}
\* A forked child says nothing of what its parent has declared.
Installed == listed # None \/ forked
Importing(k) == Inside(k, "import")
\* Coroutines change places at an await, never inside an import.
Turn(k) == \A j \in Task \ {k} :
  ThreadOf[j] = ThreadOf[k] => \A f \in ToSet(frames[j]) : f.kind = "call"

\* The state at the start of sitecustomize: some modules are there already.
HookInit(plan, early, observe, mods, tasks, used) ==
  /\ SpanInit(used) /\ live = tasks
  /\ steps = plan /\ timing = observe
  /\ modules = [m \in mods |-> IF m \in early THEN "loaded" ELSE "absent"]
  /\ todo = {} /\ declared = {} /\ unready = {} /\ pending = {} /\ overtaken = {}
  /\ wrapped = {} /\ results = {} /\ shown = {} /\ listed = None
  /\ imports = <<>> /\ forked = FALSE /\ overlapped = FALSE
  /\ cum = [m \in mods |-> 0] /\ self = cum /\ own = cum

\* No probe at all: nothing is imported or called.
HookIdle == HookInit(<<>>, {}, FALSE, {}, {}, MaxSpans)

-----------------------------------------------------------------------------
(***************************************************************************)
(* patch() and after_import(): a target of a module that is there is       *)
(* resolved now, any other one when its module has been executed. What     *)
(* _apply() finds is the installed version's affair. The look at           *)
(* sys.modules holds no lock: when _pending is appended to, the module may *)
(* have come and its callbacks be gone.                                    *)
(***************************************************************************)
Statuses == {"ok", "missing", "not-callable", "failed"}

\* Mutant: only what was applied is put in the trace.
ApplyQuietly(t, status) ==
  /\ results' = results \cup {<<t, status>>}
  /\ shown' = IF status = "ok" THEN shown \cup {<<t, status>>} ELSE shown
  /\ wrapped' = IF status = "ok" THEN wrapped \cup {t} ELSE wrapped

\* _apply() and _record()
Apply(t, status) ==
  /\ results' = results \cup {<<t, status>>}
  /\ shown' = shown \cup {<<t, status>>}
  /\ wrapped' = IF status = "ok" THEN wrapped \cup {t} ELSE wrapped

Patch(t) ==
  /\ frames[Main] = <<>> /\ unready = {}
  /\ steps # <<>> /\ t \in Head(steps) \ declared
  /\ ModuleOf[t] \in DOMAIN modules
  /\ declared' = declared \cup {t}
  /\ IF modules[ModuleOf[t]] = "loaded"
       THEN (\E s \in Statuses : Apply(t, s)) /\ UNCHANGED unready
       ELSE unready' = {t} /\ UNCHANGED applied
  /\ UNCHANGED <<spanVars, steps, timing, modules, todo, pending, overtaken, listed, times, process>>

Register(t) ==
  /\ t \in unready /\ unready' = unready \ {t}
  /\ pending' = pending \cup {t}
  /\ overtaken' = IF modules[ModuleOf[t]] \in {"patching", "loaded"} THEN overtaken \cup {t} ELSE overtaken
  /\ UNCHANGED <<spanVars, steps, timing, modules, todo, declared, applied, listed, times, process>>

\* step(): a probe that raises leaves what it had registered until then.
StepEnds ==
  /\ frames[Main] = <<>> /\ steps # <<>> /\ unready = {}
  /\ steps' = Tail(steps)
  /\ UNCHANGED <<spanVars, timing, modules, todo, declared, unready, pending, overtaken, applied,
                 listed, times, process>>

\* emit_declared(), after the last step.
EmitDeclared ==
  /\ live # {}
  /\ frames[Main] = <<>> /\ steps = <<>> /\ ~ Installed
  /\ listed' = declared
  /\ UNCHANGED <<spanVars, steps, timing, modules, todo, declared, unready, pending, overtaken,
                 applied, times, process>>

-----------------------------------------------------------------------------
\* cs_imports._on_start()
OnStart(k, m) ==
  IF timing
    THEN /\ imports' = Append(imports, [name |-> m, at |-> clock, child |-> 0, parent |-> CurrentSpan(k)])
    ELSE UNCHANGED imports

\* Until the probe is installed there is only sitecustomize, and the sampler once
\* it has been started. What a patch does between its two steps imports nothing.
MayImport(k) ==
  \/ Installed
  \/ k = Main /\ unready = {}
  \/ k = Sampler /\ k # Main /\ Len(steps) <= AfterSampler

\* _LoaderProxy.exec_module(): the module begins to execute in task k.
ImportStart(k, m) ==
  /\ m \in DOMAIN modules /\ modules[m] = "absent"
  /\ MayImport(k)
  /\ ~ Inside(k, "patch")
  /\ modules' = [modules EXCEPT ![m] = "executing"]
  /\ OnStart(k, m)
  /\ frames' = [frames EXCEPT ![k] = Append(@, [kind |-> "import", name |-> m, mine |-> 0, around |-> Around(k)])]
  /\ overlapped' = (overlapped \/ \E j \in Task \ {k} : Importing(j))
  /\ UNCHANGED <<clock, seq, stack, written, tables, timing, cum, self, process, own>>

\* Mutant: the time of a nested import is left with its importer.
ChargeNobody(st, total) == st

ChargeParent(st, total) ==
  IF st = <<>> THEN st ELSE [st EXCEPT ![Len(st)].child = @ + total]

\* The topmost entry of that name, of which there is one: a module that is being
\* executed is in sys.modules and is not executed once more.
EntryOf(m) == CHOOSE i \in DOMAIN imports : imports[i].name = m
\* cs_imports._on_end(): entries of other threads on top are thrown away.
OnEnd(k, m) ==
  LET entry == imports[EntryOf(m)]
      total == clock - entry.at
      rest == ChargeParent(SubSeq(imports, 1, EntryOf(m) - 1), total)
  IN IF \A i \in DOMAIN imports : imports[i].name # m
       THEN imports' = <<>> /\ UNCHANGED <<cum, self, seq, written>>
       ELSE /\ imports' = rest
            /\ cum' = [cum EXCEPT ![m] = @ + total]
            /\ self' = [self EXCEPT ![m] = @ + total - entry.child]
            /\ IF total >= MinImport
                 THEN Emitted(k, entry.at, entry.parent, Len(rest))
                 ELSE UNCHANGED <<seq, written>>

\* exec_module() returns or raises. If it returns, its callbacks are taken from
\* _pending; the module is still said to be initializing until they have run.
Executed(k, raised) ==
  LET m == Last(frames[k]).name
      mine == {t \in pending : ModuleOf[t] = m}
  IN /\ frames[k] # <<>> /\ Last(frames[k]).kind = "import"
     /\ m \in DOMAIN modules /\ modules[m] = "executing"
     /\ IF timing THEN OnEnd(k, m) ELSE UNCHANGED <<imports, cum, self, seq, written>>
     /\ own' = [own EXCEPT ![m] = @ + Last(frames[k]).mine]
     /\ modules' = [modules EXCEPT ![m] = IF raised THEN "absent" ELSE "patching"]
     /\ IF raised
          THEN UNCHANGED <<todo, pending>>
          ELSE todo' = todo \cup mine /\ pending' = pending \ mine
     /\ frames' = [frames EXCEPT ![k] =
          IF raised THEN Front(@) ELSE Append(Front(@), [kind |-> "patch", name |-> m, around |-> Last(@).around])]
     /\ UNCHANGED <<clock, stack, steps, declared, unready, overtaken, applied, listed, timing,
                    overlapped, process>>

\* _run_callbacks(), one target after the other.
RunCallback(k, t) ==
  /\ t \in todo /\ frames[k] # <<>>
  /\ Last(frames[k]).kind = "patch" /\ Last(frames[k]).name = ModuleOf[t]
  /\ \E s \in Statuses : Apply(t, s)
  /\ todo' = todo \ {t}
  /\ UNCHANGED <<spanVars, steps, modules, declared, unready, pending, overtaken, listed, timing, times, process>>

\* The import is over, in sys.modules too.
ImportEnds(k) ==
  LET m == Last(frames[k]).name
  IN /\ frames[k] # <<>> /\ Last(frames[k]).kind = "patch"
     /\ m \in DOMAIN modules /\ modules[m] = "patching"
     /\ \A t \in todo : ModuleOf[t] # m
     /\ modules' = [modules EXCEPT ![m] = "loaded"]
     /\ frames' = [frames EXCEPT ![k] = Front(@)]
     /\ UNCHANGED <<clock, seq, stack, written, tables, timing, times, process>>

\* Tracer._after_fork(): the stack of spans is new, and so is the file; the tables
\* of the hook and of the imports are inherited. Of the tasks only Main goes on, in
\* new frames, as multiprocessing's child never returns from the fork, and the
\* sampler, which is started again.
Fork ==
  /\ Installed /\ ~ forked /\ live # {}
  /\ forked' = TRUE /\ live' = {Main} \cup (live \cap {Sampler})
  /\ stack' = [th \in Thread |-> <<>>]
  /\ frames' = [k \in Task |-> <<>>]
  /\ listed' = None /\ shown' = {}
  /\ UNCHANGED <<clock, seq, written, steps, declared, unready, pending, wrapped, results, todo,
                 overtaken, timing, modules, times>>

\* Time passes for the import each task is in, however deep in calls it is.
Spend(fs) ==
  [i \in DOMAIN fs |->
     IF fs[i].kind = "import" /\ \A j \in i + 1 .. Len(fs) : fs[j].kind # "import"
       THEN [fs[i] EXCEPT !.mine = @ + 1] ELSE fs[i]]
Tick ==
  /\ clock < MaxClock /\ clock' = clock + 1
  /\ frames' = [k \in Task |-> Spend(frames[k])]
  /\ UNCHANGED <<seq, stack, written, tables, timing, modules, times, process>>

HookNext ==
  \/ StepEnds \/ EmitDeclared \/ Fork
  \/ live # {} /\ Tick
  \/ \E t \in Target : Patch(t) \/ Register(t)
  \/ \E k \in live : /\ Turn(k)
                     /\ \/ \E m \in Module : ImportStart(k, m)
                        \/ \E raised \in BOOLEAN : Executed(k, raised)
                        \/ \E t \in Target : RunCallback(k, t)
                        \/ ImportEnds(k)
                        \/ Installed /\ ~ Inside(k, "patch") /\ (Begin(k) \/ Return(k) \/ Raise(k)) /\ UNCHANGED hookVars

\* Any plan of patches, modules that are there early, and tasks.
HookStart ==
  \E plan \in Seq(SUBSET Target), mods \in SUBSET Module, early \in SUBSET Module,
     tasks \in SUBSET Task, observe \in BOOLEAN, used \in Nat :
       HookInit(plan, early, observe, mods, tasks, used)

HookSpec == HookStart /\ [][HookNext]_vars

-----------------------------------------------------------------------------

(***************************************************************************)
(* emit_declared()'s promise: with nothing dropped, what a trace that was  *)
(* cut off anywhere shows as never imported, declared minus resolved, is   *)
(* what coverage() of the process would say at that point, whatever failed *)
(* to import before and whichever thread imported it. A target is resolved *)
(* once, is said to be applied exactly if it is wrapped, is never resolved *)
(* before its module has been executed, and is resolved when its module is *)
(* loaded; but the sampler may have imported the module between patch()'s  *)
(* look at sys.modules and its entry in _pending: that target, and no      *)
(* other, waits for ever. A forked child's file has no list, and shows     *)
(* only what it resolved itself.                                           *)
(***************************************************************************)
CoverageFromTrace ==
  LET resolved == {r[1] : r \in results}
      neverImported == declared \ resolved
  IN /\ listed # None => listed \ {r[1] : r \in shown} = neverImported
     /\ Installed => neverImported = pending \cup todo
     /\ shown \subseteq results
     /\ \A t \in declared :
          /\ modules[ModuleOf[t]] \in {"absent", "executing"} => t \notin resolved
          /\ modules[ModuleOf[t]] = "loaded" => t \in resolved \cup unready \cup overtaken
     /\ overtaken \cap resolved = {}
     /\ \A q, r \in results : q[1] = r[1] => q = r
     /\ wrapped = {r[1] : r \in {x \in results : x[2] = "ok"}}

(***************************************************************************)
(* Self time is the real cost of a module: as long as no two threads have  *)
(* imported at the same time, each module is charged with exactly what it  *)
(* took without its nested imports, failed attempts included, and in a     *)
(* forked child also what its parent had spent. Under threads it is still  *)
(* no less than nothing and no more than the cumulative time.              *)
(***************************************************************************)
ImportTimesAddUp ==
  \A m \in DOMAIN self :
    /\ 0 <= self[m] /\ self[m] <= cum[m]
    /\ timing /\ ~ overlapped => self[m] = own[m]

=============================================================================
