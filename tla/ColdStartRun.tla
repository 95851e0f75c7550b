---------------------------- MODULE ColdStartRun -----------------------------
(***************************************************************************)
(* scripts/coldstart-run.sh with what it starts: the server, its engine    *)
(* process that holds the GPU, and the poller coldstart/cs_ready.py. The   *)
(* server may die at any point and its engine may outlive it. Time limits  *)
(* pass at any moment; a call that has none may never come back. The       *)
(* harness is the only one: --allow-concurrent is not modelled, nor a GPU  *)
(* user from outside.                                                      *)
(***************************************************************************)
EXTENDS Integers, Sequences, SequencesExt

CONSTANT Repeat     \* --repeat
ASSUME RepeatAssumption == Repeat \in Nat \ {0}

VARIABLES
  flags,     \* reuse: --reuse-run-id; token: --first-token
  run,       \* $i, the repeat
  stage,     \* where run_once() is, "exit" at the end; "stuck" in a call without limit
  rc, status,
  api,       \* the server of this repeat
  signalled, \* the strongest signal it was sent
  engines,   \* per repeat, its engine: "coming", "holding" the GPU or "gone"
  used,      \* the last reading of the GPU's memory said it is held
  seen,      \* the poller's edges, in order
  poller,    \* "off", "polling", "ready" or "timeout"
  traced,    \* the repeats in whose directory there is a trace
  log        \* per repeat, what is known of it at its end

harnessVars == <<flags, run, stage, rc, status, api, signalled, engines, used, seen, poller,
                 traced, log>>

Runs == 1 .. Repeat

\* A server comes up in this order; whatever it is, it may be "dead" next.
Phases == <<"starting", "listening", "healthy", "serving">>
holders == {i \in Runs : engines[i] = "holding"}
Alive == api \in ToSet(Phases)
AtLeast(phase) ==
  Alive /\ (CHOOSE i \in DOMAIN Phases : Phases[i] = phase)
             <= (CHOOSE i \in DOMAIN Phases : Phases[i] = api)

HarnessStart(first) ==
  /\ run = 1 /\ stage = first /\ rc = 0 /\ status = 0
  /\ api = "none" /\ signalled = "none" /\ engines = [i \in Runs |-> "none"] /\ used = FALSE /\ seen = <<>> /\ poller = "off"
  /\ log = <<>>

HarnessInit ==
  /\ flags \in [reuse : BOOLEAN, token : BOOLEAN]
  /\ traced \in SUBSET Runs
  /\ HarnessStart("begin")
HarnessIdle ==
  /\ flags = [reuse |-> FALSE, token |-> FALSE]
  /\ traced = {}
  /\ HarnessStart("idle")

-----------------------------------------------------------------------------
\* An earlier trace is refused by die(), which ends the script, or discarded.
Begin ==
  /\ stage = "begin"
  /\ rc' = 0
  /\ IF run \in traced /\ ~ flags.reuse
       THEN stage' = "exit" /\ status' = 1 /\ UNCHANGED traced
       ELSE stage' = "launch" /\ traced' = traced \ {run} /\ UNCHANGED status
  /\ UNCHANGED <<flags, run, api, signalled, engines, used, seen, poller, log>>

Launch ==
  /\ stage = "launch" /\ stage' = "poll"
  /\ api' = "starting" /\ signalled' = "none"
  /\ engines' = [engines EXCEPT ![run] = "coming"]
  /\ traced' = traced \cup {run}
  /\ seen' = <<>> /\ poller' = "polling"
  /\ log' = Append(log, [free |-> holders = {}, ready |-> FALSE, alive |-> FALSE, asked |-> FALSE,
                        drained |-> FALSE, rc |-> 0])
  /\ UNCHANGED <<flags, run, rc, status, used>>

\* The engine takes the GPU on the way up; with too little free memory it fails.
ServerProceeds ==
  /\ Alive /\ api # "serving" /\ signalled = "none"
  /\ api' = Phases[1 + CHOOSE i \in DOMAIN Phases : Phases[i] = api]
  /\ api = "starting" => run \in holders
  /\ UNCHANGED <<flags, run, stage, rc, status, signalled, engines, used, seen, poller, traced, log>>
\* Also when its server is gone by then.
EngineStarts(i) ==
  /\ engines[i] = "coming"
  /\ engines' = [engines EXCEPT ![i] = "holding"]
  /\ UNCHANGED <<flags, run, stage, rc, status, api, signalled, used, seen, poller, traced, log>>
ServerDies ==
  /\ Alive /\ api' = "dead"
  /\ UNCHANGED <<flags, run, stage, rc, status, signalled, engines, used, seen, poller, traced, log>>
\* An engine whose server is gone leaves the GPU, sooner or later or never.
EngineLeaves(i) ==
  /\ engines[i] \in {"coming", "holding"} /\ (i = run => ~ Alive)
  /\ engines' = [engines EXCEPT ![i] = "gone"]
  /\ UNCHANGED <<flags, run, stage, rc, status, api, signalled, used, seen, poller, traced, log>>

-----------------------------------------------------------------------------
\* cs_ready.main(): the next edge that is missing is tried; each was seen once.
Edges == <<"port_open", "health_200", "models_200">> \o (IF flags.token THEN <<"first_token">> ELSE <<>>)
NextEdge == Edges[Len(seen) + 1]
Answers(edge) == CASE edge = "port_open" -> AtLeast("listening")
                   [] edge = "health_200" -> AtLeast("healthy")
                   [] OTHER -> AtLeast("serving")

Poll ==
  /\ poller = "polling"
  /\ Answers(NextEdge)
  /\ seen' = Append(seen, NextEdge)
  /\ poller' = IF Len(seen') = Len(Edges) THEN "ready" ELSE poller
  /\ UNCHANGED <<flags, run, stage, rc, status, api, signalled, engines, used, traced, log>>

\* Mutant: the clock is looked at after an edge only.
PollTimesOutOnEdge ==
  /\ poller = "polling" /\ seen # <<>> /\ poller' = "timeout"
  /\ UNCHANGED <<flags, run, stage, rc, status, api, signalled, engines, used, seen, traced, log>>

\* The deadline; the poller does not look whether the server is still there.
PollTimesOut ==
  /\ poller = "polling" /\ poller' = "timeout"
  /\ UNCHANGED <<flags, run, stage, rc, status, api, signalled, engines, used, seen, traced, log>>

\* Mutant: the pipeline's status is tee's.
PipelineWithoutPipefail == 0

\* cs_ready | tee || rc=$?, under pipefail.
Pipeline == IF poller = "ready" THEN 0 ELSE 1

\* kill -0: a server that died makes the repeat fail, ready or not. Then TERM.
CheckAlive ==
  /\ stage = "poll" /\ poller \in {"ready", "timeout"} /\ stage' = "grace"
  /\ rc' = IF Alive THEN Pipeline ELSE 1
  /\ signalled' = "TERM" /\ poller' = "off"
  /\ log' = [log EXCEPT ![run].alive = Alive, ![run].ready = (seen = Edges)]
  /\ UNCHANGED <<flags, run, status, api, engines, used, seen, traced>>

\* GRACE is over or the server is gone; KILL, and wait for it.
Kill ==
  /\ stage = "grace" /\ stage' = "drain"
  /\ signalled' = "KILL" /\ api' = "dead" /\ used' = FALSE
  /\ UNCHANGED <<flags, run, rc, status, engines, seen, poller, traced, log>>

StillHeld ==
  /\ stage = "drain" /\ holders # {} /\ ~ used
  /\ used' = TRUE
  /\ UNCHANGED <<flags, run, stage, rc, status, api, signalled, engines, seen, poller, traced, log>>

\* After ten seconds whatever the driver lists is killed; it may list too little.
KillHolder ==
  /\ stage = "drain" /\ used
  /\ \E i \in holders : engines' = [engines EXCEPT ![i] = "gone"]
  /\ UNCHANGED <<flags, run, stage, rc, status, api, signalled, used, seen, poller, traced, log>>

\* nvidia-smi says that the memory is free, GPU_DRAIN is over and the last reading
\* counts, or a reading yields nothing, whatever those before it were: then, as
\* without any reading at all, the drain is over and the repeat none the worse.
DrainEnds ==
  /\ stage = "drain" /\ stage' = "return"
  /\ \E reading \in {"free", "held", "nothing"} :
       /\ reading = "free" => holders = {}
       /\ reading = "held" => used
       /\ used' = (reading = "held")
       /\ rc' = IF reading = "held" THEN 1 ELSE rc
       /\ log' = [log EXCEPT ![run].asked = (reading # "nothing"), ![run].drained = (holders = {}),
                             ![run].rc = rc']
  /\ UNCHANGED <<flags, run, status, api, signalled, engines, seen, poller, traced>>

\* nvidia-smi for meta.json or in the drain, and the wait for the server after
\* SIGKILL, have no limit: the driver may hold them for ever.
HarnessHangs ==
  /\ stage \in {"launch", "grace", "drain"} /\ stage' = "stuck"
  /\ UNCHANGED <<flags, run, rc, status, api, signalled, engines, used, seen, poller, traced, log>>

\* run_once "$i" || status=1, and the next repeat either way.
Return ==
  /\ stage = "return"
  /\ status' = IF rc # 0 THEN 1 ELSE status
  /\ IF run = Repeat THEN stage' = "exit" /\ UNCHANGED <<run, api>>
     ELSE stage' = "begin" /\ run' = run + 1 /\ api' = "none"
  /\ UNCHANGED <<flags, rc, signalled, engines, used, seen, poller, traced, log>>

HarnessNext ==
  \/ Begin \/ Launch \/ CheckAlive \/ Kill \/ StillHeld \/ KillHolder \/ DrainEnds \/ Return
  \/ HarnessHangs
  \/ ServerProceeds \/ ServerDies \/ \E i \in Runs : EngineStarts(i) \/ EngineLeaves(i)
  \/ Poll \/ PollTimesOut

\* The script and the poller go on; the poller's clock runs, in a request too: the
\* server does not draw out an answer byte by byte. Nothing else is assumed of it
\* or of the engine.
HarnessFairness ==
  /\ WF_harnessVars(Begin) /\ WF_harnessVars(Launch) /\ WF_harnessVars(CheckAlive)
  /\ WF_harnessVars(Kill) /\ WF_harnessVars(DrainEnds) /\ WF_harnessVars(Return)
  /\ WF_harnessVars(PollTimesOut)

-----------------------------------------------------------------------------
(***************************************************************************)
(* What the harness calls a success can be compared: with exit status 0    *)
(* every repeat came up to its last edge and was alive when that was       *)
(* checked; a repeat whose drain ended on an answer of nvidia-smi left the *)
(* GPU free, whatever earlier ones left, and the next one began with a     *)
(* free GPU. After a reading that yielded nothing, or no reading, nobody   *)
(* knows. A repeat that is no success makes the script's own status say    *)
(* so.                                                                     *)
(***************************************************************************)
SuccessIsComparable ==
  /\ stage = "exit" /\ status = 0 =>
       /\ Len(log) = Repeat
       /\ \A i \in Runs : /\ log[i].ready /\ log[i].alive
                          /\ log[i].asked => log[i].drained
                          /\ i = 1 \/ log[i - 1].asked => log[i].free
  /\ \A i \in DOMAIN log : log[i].rc = 1 /\ i < run => status = 1

\* The script ends whatever the server does, also when it dies before the poller
\* saw it or when the GPU is never given back; only a call without limit that
\* never comes back holds it up.
HarnessEnds == <>(stage \in {"idle", "exit", "stuck"})

=============================================================================
