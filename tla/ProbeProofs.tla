----------------------------- MODULE ProbeProofs -----------------------------
(***************************************************************************)
(* Proofs about the parts of the probe, for any number of tasks, threads,  *)
(* modules, patches, descriptors, pieces and processes: a trace tells what *)
(* was never applied, spans lie where their calls were, a module's self    *)
(* time is what it took, CUDA graph capture leaves torch as it was and     *)
(* labels its forwards truly, and no fork server is started below another. *)
(***************************************************************************)
EXTENDS ImportHook, GraphCapture, ForkServer, SequenceTheorems, TLAPS

----------------------------------------------------------------------------
(* Graph capture. *)

Places == {"before", "loop", "warmup", "second", "construct", "enter", "prologue", "capturing",
           "raised", "after", "failed"}

CaptureTypes ==
  /\ arm \in Arms /\ at \in Places
  /\ closure \in [mode : Modes \cup {"NONE"}, warmup : BOOLEAN, seen : BOOLEAN]
  /\ binding \in [synchronize : {"torch", "presync"}, empty_cache : {"torch", "noempty"}]
  /\ cursor \in Nat /\ drained \in {"none", "done", "raised"}
  /\ unemptied \in BOOLEAN /\ untold \in BOOLEAN

(* The captures are dealt out to the pools in turn. *)
PoolsInTurn ==
  \/ cursor = 0 /\ pools = <<>>
  \/ /\ arm.pools = 1 /\ DOMAIN pools = {1} /\ pools[1] \in Nat
  \/ /\ arm.pools = 2 /\ DOMAIN pools = {1, 2} /\ pools[1] \in Nat /\ pools[2] \in Nat
     /\ pools[1] = pools[2] + (cursor % 2)

CaptureInv ==
  /\ CaptureTypes
  /\ at # "prologue" => binding = Original
  /\ at \in {"enter", "prologue", "capturing"} =>
       /\ graph # 0 /\ ~ untold => graph = graphPoolId
       /\ graph = Upstream => arm.pools = 0
  /\ PoolsInTurn
  /\ at \notin {"after", "failed"} => drained = "none"
  /\ at = "after" => drained # "raised"
  /\ at \in {"after", "failed"} =>
       /\ drained = "none" <=> arm.empty # "once"
       /\ drained = "done" => ~ unemptied

(* A forward function that was made to warm up has not run yet when it is to,
   and one that is run in a capture was not made to warm up. *)
LabelInv ==
  /\ CaptureTypes
  /\ at = "warmup" => closure.warmup /\ ~ closure.seen
  /\ at \in {"construct", "enter", "prologue", "capturing"} /\ closure.mode # "PIECEWISE" => ~ closure.warmup
  /\ ForwardsAreLabelled

(* The variables have their types at the start. *)
LEMMA CaptureStartsTyped == ASSUME CaptureInit PROVE CaptureTypes
<1>1. arm \in Arms /\ at \in Places /\ cursor \in Nat /\ drained \in {"none", "done", "raised"}
  BY DEF CaptureInit, CaptureStart, Places
<1>2. unemptied \in BOOLEAN /\ untold \in BOOLEAN
  BY DEF CaptureInit, CaptureStart
<1>3. closure \in [mode : Modes \cup {"NONE"}, warmup : BOOLEAN, seen : BOOLEAN]
  BY DEF CaptureInit, CaptureStart, NoClosure
<1>4. binding \in [synchronize : {"torch", "presync"}, empty_cache : {"torch", "noempty"}]
  BY DEF CaptureInit, CaptureStart, Original
<1> QED
  BY <1>1, <1>2, <1>3, <1>4 DEF CaptureTypes

(* The variables keep their types. *)
LEMMA CaptureTypesKept == CaptureTypes /\ [CaptureNext]_captureVars => CaptureTypes'
<1> SUFFICES ASSUME CaptureTypes, [CaptureNext]_captureVars PROVE CaptureTypes'
  OBVIOUS
<1> USE DEF CaptureTypes, Places
<1>1. CASE CaptureModel
  BY <1>1 DEF CaptureModel
<1>2. CASE WarmupForward
  BY <1>2 DEF WarmupForward, Forward
<1>3. CASE CapturePass
  <2>1. unemptied' \in BOOLEAN
    BY <1>3 DEF CapturePass, Forward
  <2>2. closure' \in [mode : Modes \cup {"NONE"}, warmup : BOOLEAN, seen : BOOLEAN]
    <3>1. CASE closure.mode = "PIECEWISE"
      BY <1>3, <3>1 DEF CapturePass, Forward
    <3>2. CASE closure.mode # "PIECEWISE"
      <4>1. closure' = [mode |-> closure.mode, warmup |-> FALSE, seen |-> FALSE]
        BY <1>3, <3>2 DEF CapturePass, Factory
      <4>2. closure.mode \in Modes \cup {"NONE"}
        OBVIOUS
      <4> QED
        BY <4>1, <4>2
    <3> QED
      BY <3>1, <3>2
  <2> QED
    BY <1>3, <2>1, <2>2 DEF CapturePass
<1>4. CASE Swap
  BY <1>4 DEF Swap
<1>5. CASE Capture
  BY <1>5 DEF Capture, Forward
<1>6. ASSUME NEW ok \in BOOLEAN, LoopEnds(ok) PROVE CaptureTypes'
  <2>1. unemptied' \in BOOLEAN
    <3>1. unemptied' = unemptied \/ unemptied' = (unemptied /\ (~ ok \/ binding.empty_cache # "torch"))
      BY <1>6, Zenon DEF LoopEnds, Drain
    <3> QED
      BY <3>1, Zenon
  <2>2. drained' \in {"none", "done", "raised"}
    BY <1>6, Zenon DEF LoopEnds, Drain
  <2> QED
    BY <1>6, <2>1, <2>2 DEF LoopEnds
<1>7. ASSUME NEW next \in Modes, NextDesc(next) PROVE CaptureTypes'
  BY <1>7 DEF NextDesc, Factory
<1>8. ASSUME NEW shared \in BOOLEAN, NEW told \in BOOLEAN, Construct(shared, told) PROVE CaptureTypes'
  <2>1. untold' \in BOOLEAN
    <3>1. untold' = FALSE \/ untold' = ~ told
      BY <1>8, Zenon DEF Construct, PoolForNextCapture
    <3> QED
      BY <3>1, Zenon
  <2> QED
    BY <1>8, <2>1 DEF Construct, PoolForNextCapture
<1>9. ASSUME NEW ok \in BOOLEAN, Prologue(ok) PROVE CaptureTypes'
  <2>1. unemptied' \in BOOLEAN
    <3>1. unemptied' = unemptied \/ unemptied' = (unemptied /\ binding.empty_cache # "torch")
      BY <1>9, Zenon DEF Prologue
    <3> QED
      BY <3>1, Zenon
  <2> QED
    BY <1>9, <2>1 DEF Prologue, Restored, Original
<1>11. CASE ConstructRaises
  BY <1>11 DEF ConstructRaises
<1>10. CASE UNCHANGED captureVars
  BY <1>10 DEF captureVars
<1> QED
  BY <1>1, <1>2, <1>3, <1>4, <1>5, <1>6, <1>7, <1>8, <1>9, <1>10, <1>11 DEF CaptureNext

(* The pools stay even. *)
LEMMA PoolsStayEven ==
  ASSUME CaptureTypes, PoolsInTurn, arm.pools > 0, NEW told \in BOOLEAN,
         PoolForNextCapture(told), arm' = arm
  PROVE  PoolsInTurn' /\ graph' \in Nat /\ graph' # 0 /\ (~ untold' => graphPoolId' = graph')
<1> DEFINE made == IF pools = <<>> THEN [i \in 1 .. arm.pools |-> 0] ELSE pools
<1>1. arm.pools \in {1, 2} /\ cursor \in Nat
  BY DEF CaptureTypes, Arms
<1>2. /\ pools' = [made EXCEPT ![NextPool] = @ + 1] /\ cursor' = cursor + 1
      /\ graph' = NextPool /\ (~ untold' => graphPoolId' = NextPool) /\ NextPool = (cursor % arm.pools) + 1
  BY DEF PoolForNextCapture, NextPool
<1>3. CASE arm.pools = 1
  <2>1. NextPool = 1
    BY <1>1, <1>2, <1>3
  <2>2. DOMAIN made = {1} /\ made[1] \in Nat
    BY <1>3 DEF PoolsInTurn
  <2> HIDE DEF made
  <2> QED
    BY <1>2, <1>3, <2>1, <2>2 DEF PoolsInTurn
<1>4. CASE arm.pools = 2
  <2>1. NextPool = (cursor % 2) + 1 /\ cursor % 2 \in {0, 1} /\ (cursor + 1) % 2 = 1 - (cursor % 2)
    BY <1>1, <1>2, <1>4
  <2>2. DOMAIN made = {1, 2} /\ made[1] \in Nat /\ made[2] \in Nat /\ made[1] = made[2] + (cursor % 2)
    BY <1>4 DEF PoolsInTurn
  <2> HIDE DEF made
  <2>3. DOMAIN pools' = {1, 2} /\ NextPool \in {1, 2}
    BY <1>2, <2>1, <2>2
  <2>4. pools'[1] \in Nat /\ pools'[2] \in Nat /\ pools'[1] = pools'[2] + (cursor' % 2)
    <3>1. pools'[NextPool] = made[NextPool] + 1 /\ \A i \in {1, 2} \ {NextPool} : pools'[i] = made[i]
      BY <1>2, <2>2, <2>3
    <3>2. cursor' % 2 = 1 - (cursor % 2)
      BY <1>2, <2>1
    <3>3. CASE cursor % 2 = 0
      BY <2>1, <2>2, <3>1, <3>2, <3>3
    <3>4. CASE cursor % 2 = 1
      BY <2>1, <2>2, <3>1, <3>2, <3>4
    <3> QED
      BY <2>1, <3>3, <3>4
  <2>5. graph' \in Nat /\ graph' # 0 /\ (~ untold' => graphPoolId' = graph')
    BY <1>2, <2>3
  <2> QED
    BY <1>4, <2>3, <2>4, <2>5 DEF PoolsInTurn
<1> QED
  BY <1>1, <1>3, <1>4

(* Every step of the probe or of vLLM's loop under it keeps the invariant. *)
LEMMA CaptureStepsKeepInv == CaptureInv /\ [CaptureNext]_captureVars => CaptureInv'
<1> SUFFICES ASSUME CaptureInv, [CaptureNext]_captureVars PROVE CaptureInv'
  OBVIOUS
<1>0. CaptureTypes' /\ CaptureTypes
  BY CaptureTypesKept DEF CaptureInv
<1>1. CASE CaptureModel \/ WarmupForward \/ CapturePass \/ Swap \/ Capture
  <2>1. UNCHANGED <<arm, pools, cursor, graph, graphPoolId, drained>>
    BY <1>1 DEF CaptureModel, WarmupForward, CapturePass, Swap, Capture
  <2>2. PoolsInTurn'
    BY <2>1 DEF CaptureInv, PoolsInTurn
  <2> QED
    BY <1>0, <1>1, <2>1, <2>2 DEF CaptureInv, CaptureModel, WarmupForward, CapturePass, Swap, Capture
<1>2. ASSUME NEW ok \in BOOLEAN, LoopEnds(ok) PROVE CaptureInv'
  <2>1. PoolsInTurn'
    BY <1>2 DEF LoopEnds, CaptureInv, PoolsInTurn
  <2>2. /\ at \in {"loop", "raised"} /\ at' \in {"after", "failed"}
        /\ drained = "none" /\ binding = Original /\ UNCHANGED <<arm, binding>>
        /\ at' = "after" => ok
    BY <1>2 DEF CaptureInv, LoopEnds
  <2>3. CASE arm.empty = "once"
    <3>1. drained' = IF ok THEN "done" ELSE "raised"
      BY <1>2, <2>3 DEF LoopEnds, Drain
    <3>2. /\ unemptied' = (unemptied /\ (~ ok \/ binding.empty_cache # "torch"))
          /\ binding.empty_cache = "torch"
      BY <1>2, <2>2, <2>3 DEF LoopEnds, Drain, Original
    <3>3. ok => ~ unemptied'
      BY <3>2, Zenon
    <3> QED
      BY <1>0, <2>1, <2>2, <2>3, <3>1, <3>3 DEF CaptureInv
  <2>4. CASE arm.empty # "once"
    <3>1. drained' = drained
      BY <1>2, <2>4 DEF LoopEnds, Drain
    <3> QED
      BY <1>0, <2>1, <2>2, <2>4, <3>1 DEF CaptureInv
  <2> QED
    BY <2>3, <2>4
<1>3. ASSUME NEW next \in Modes, NextDesc(next) PROVE CaptureInv'
  <2>1. PoolsInTurn'
    BY <1>3 DEF NextDesc, CaptureInv, PoolsInTurn
  <2> QED
    BY <1>0, <1>3, <2>1 DEF CaptureInv, NextDesc
<1>4. ASSUME NEW shared \in BOOLEAN, NEW told \in BOOLEAN, Construct(shared, told) PROVE CaptureInv'
  <2>1. at = "construct" /\ at' = "enter" /\ UNCHANGED <<arm, binding, drained>>
    BY <1>4 DEF Construct
  <2>2. CASE shared /\ arm.pools > 0
    <3>1. PoolsInTurn' /\ graph' \in Nat /\ graph' # 0 /\ (~ untold' => graphPoolId' = graph')
      BY <1>4, <2>1, <2>2, PoolsStayEven DEF CaptureInv, Construct
    <3> QED
      BY <1>0, <2>1, <3>1, UpstreamAssumption DEF CaptureInv
  <2>3. CASE ~ (shared /\ arm.pools > 0)
    <3>1. /\ graph' = (IF shared THEN Upstream ELSE 0) /\ graphPoolId' = Upstream
          /\ UNCHANGED <<pools, cursor>>
      BY <1>4, <2>3 DEF Construct
    <3>2. PoolsInTurn'
      BY <2>1, <3>1 DEF CaptureInv, PoolsInTurn
    <3>3. shared => arm.pools = 0
      BY <1>0, <2>3 DEF CaptureTypes, Arms
    <3> QED
      BY <1>0, <2>1, <3>1, <3>2, <3>3, UpstreamAssumption DEF CaptureInv
  <2> QED
    BY <2>2, <2>3
<1>5. ASSUME NEW ok \in BOOLEAN, Prologue(ok) PROVE CaptureInv'
  <2>1. PoolsInTurn'
    BY <1>5 DEF Prologue, CaptureInv, PoolsInTurn
  <2> QED
    BY <1>0, <1>5, <2>1 DEF CaptureInv, Prologue, Restored
<1>6. CASE UNCHANGED captureVars
  BY <1>0, <1>6 DEF captureVars, CaptureInv, PoolsInTurn
<1>7. CASE ConstructRaises
  <2>1. PoolsInTurn'
    BY <1>7 DEF ConstructRaises, CaptureInv, PoolsInTurn
  <2> QED
    BY <1>0, <1>7, <2>1 DEF CaptureInv, ConstructRaises
<1> QED
  BY <1>1, <1>2, <1>3, <1>4, <1>5, <1>6, <1>7 DEF CaptureNext

(* Outside a prologue torch's functions are its own, a capture is in the pool
   pynccl is told of if telling it worked, the pools share the captures evenly,
   and after the loop the drain has been made, or has raised itself: however many
   sizes are captured, in whatever modes, and whatever of it raises. *)
THEOREM TorchIsLeft == CaptureSpec => []CaptureLeavesTorch
<1>1. CaptureInit => CaptureInv
  <2> SUFFICES ASSUME CaptureInit PROVE CaptureInv
    OBVIOUS
  <2>1. CaptureTypes
    BY CaptureStartsTyped
  <2> QED
    BY <2>1 DEF CaptureInit, CaptureStart, CaptureInv, PoolsInTurn
<1>2. CaptureInv => CaptureLeavesTorch
  <2> SUFFICES ASSUME CaptureInv PROVE CaptureLeavesTorch
    OBVIOUS
  <2>1. \A i, j \in DOMAIN pools : pools[i] - pools[j] \in -1 .. 1
    <3>1. cursor % 2 \in {0, 1}
      BY DEF CaptureInv, CaptureTypes
    <3> QED
      BY <3>1 DEF CaptureInv, PoolsInTurn
  <2> QED
    BY <2>1 DEF CaptureInv, CaptureLeavesTorch
<1> QED
  BY <1>1, <1>2, CaptureStepsKeepInv, PTL DEF CaptureSpec

(* Every forward is labelled as what it was, the eager run that warms a size
   up or one inside a capture, although both may run in the same mode. *)
THEOREM LabelsAreTrue == CaptureSpec => []ForwardsAreLabelled
<1>1. CaptureInit => LabelInv
  BY CaptureStartsTyped DEF CaptureInit, CaptureStart, LabelInv, ForwardsAreLabelled
<1>2. LabelInv /\ [CaptureNext]_captureVars => LabelInv'
  <2> SUFFICES ASSUME LabelInv, [CaptureNext]_captureVars PROVE LabelInv'
    OBVIOUS
  <2>0. CaptureTypes' /\ CaptureTypes
    BY CaptureTypesKept DEF LabelInv
  <2> USE DEF LabelInv, ForwardsAreLabelled
  <2>1. CASE CaptureModel \/ Swap \/ ConstructRaises
    BY <2>0, <2>1 DEF CaptureModel, Swap, ConstructRaises
  <2>2. CASE WarmupForward
    BY <2>0, <2>2 DEF WarmupForward, Forward, Label, CaptureTypes
  <2>3. CASE CapturePass
    BY <2>0, <2>3 DEF CapturePass, Forward, Factory, Label, CaptureTypes
  <2>4. CASE Capture
    BY <2>0, <2>4 DEF Capture, Forward, Label, CaptureTypes
  <2>5. ASSUME NEW next \in Modes, NextDesc(next) PROVE LabelInv'
    BY <2>0, <2>5 DEF NextDesc, Factory
  <2>6. ASSUME NEW shared \in BOOLEAN, NEW told \in BOOLEAN, Construct(shared, told) PROVE LabelInv'
    BY <2>0, <2>6 DEF Construct
  <2>7. ASSUME NEW ok \in BOOLEAN, Prologue(ok) PROVE LabelInv'
    BY <2>0, <2>7 DEF Prologue
  <2>8. CASE UNCHANGED captureVars
    BY <2>0, <2>8 DEF captureVars
  <2>9. ASSUME NEW ok \in BOOLEAN, LoopEnds(ok) PROVE LabelInv'
    BY <2>0, <2>9 DEF LoopEnds
  <2> QED
    BY <2>1, <2>2, <2>3, <2>4, <2>5, <2>6, <2>7, <2>8, <2>9 DEF CaptureNext
<1>3. LabelInv => ForwardsAreLabelled
  BY DEF LabelInv
<1> QED
  BY <1>1, <1>2, <1>3, PTL DEF CaptureSpec

----------------------------------------------------------------------------
(* The fork server. *)

Steps == {"absent", "start", "preload", "arm", "context", "running", "unprobed"}
Words == {"armed", "context", "declined", "error"}

(* A process that has done with install() and armed no server, and never will. *)
Free(p) == step[p] = "running" /\ ~ active[p]

(* A process that may arm a server, or has. *)
Pioneer(p) ==
  \/ step[p] = "start" /\ ~ active[p]
  \/ step[p] \in {"preload", "arm", "context"}
  \/ Free(p) \/ server[p] # 0 \/ Served(p)

ForkTypes ==
  /\ mode \in {"early", "late", "typo"}
  /\ step \in [Proc -> Steps]
  /\ parent \in [Proc -> 0 .. MaxProcs] /\ server \in [Proc -> 0 .. MaxProcs]
  /\ active \in [Proc -> BOOLEAN] /\ ctx \in [Proc -> BOOLEAN]
  /\ isServer \in [Proc -> BOOLEAN] /\ vetoed \in [Proc -> BOOLEAN]
  /\ said \in [Proc -> SUBSET Words]

(* What is true of every process by itself. *)
OfOne(p) ==
  /\ ~ Exists(p) => parent[p] = 0 /\ said[p] = {} /\ ~ active[p] /\ ~ vetoed[p]
  /\ ~ active[p] => ~ ctx[p] /\ server[p] = 0 /\ ~ isServer[p]
  /\ isServer[p] => ~ ctx[p] /\ server[p] = 0 /\ step[p] \in {"start", "running"}
  /\ step[p] \in {"arm", "context"} => active[p]
  /\ step[p] = "preload" => ~ active[p]
  /\ step[p] \in {"start", "preload", "arm", "context"} => ~ ctx[p]
  /\ step[p] \in {"start", "preload", "arm"} => server[p] = 0
  /\ "armed" \in said[p] => ctx[p]

(* What is true of a process and its kin: only a process under none but free
   ones may arm a server, and one that is not done has no child but its server. *)
OfKin(p) ==
  /\ Pioneer(p) => parent[p] = 0 \/ Free(parent[p])
  /\ server[p] # 0 => isServer[server[p]]
  /\ step[p] \in {"absent", "start", "preload", "arm", "context"} =>
       \A q \in Proc : parent[q] = p => isServer[q]
  /\ "armed" \in said[p] =>
       \A q \in Proc : parent[q] = p /\ ~ isServer[q] => "declined" \in said[p]

ForkInv == ForkTypes /\ \A p \in Proc : OfOne(p) /\ OfKin(p)

(* A step of install(), or a veto, concerns one process. *)
LEMMA OwnStepsKeepInv ==
  ASSUME ForkInv, NEW p \in Proc, NEW ok \in BOOLEAN,
         \/ Install(p) \/ ComesToVeto(p) \/ Preload(p, ok) \/ GetContext(p, ok)
         \/ ~ ok /\ Arm(p, ok)
  PROVE  ForkInv'
<1>1. UNCHANGED <<parent, server, isServer>>
  BY DEF Install, ComesToVeto, Preload, GetContext, Arm
<1>2. ForkTypes /\ \A x \in Proc : OfOne(x) /\ OfKin(x)
  BY DEF ForkInv
<1>3. /\ ForkTypes'
      /\ step[p] # "absent" /\ step'[p] # "absent"
      /\ \A x \in Proc \ {p} : /\ step'[x] = step[x] /\ active'[x] = active[x] /\ ctx'[x] = ctx[x]
                               /\ vetoed'[x] = vetoed[x] /\ said'[x] = said[x]
  <2>1. CASE Install(p)
    BY <1>1, <1>2, <2>1 DEF Install, Goto, Say, ForkTypes, Steps, Words
  <2>2. CASE ComesToVeto(p)
    BY <1>1, <1>2, <2>2 DEF ComesToVeto, ForkTypes, Steps, Words
  <2>3. CASE Preload(p, ok)
    <3>1. /\ \E a \in BOOLEAN : active' = [active EXCEPT ![p] = a]
          /\ \E s \in {"arm", "context", "running"} : step' = [step EXCEPT ![p] = s]
          /\ said' = said \/ said' = [said EXCEPT ![p] = @ \cup {"error"}]
          /\ step[p] = "preload" /\ UNCHANGED <<mode, ctx, vetoed>>
      <4>1. CASE ok
        BY <1>2, <2>3, <4>1 DEF Preload, Goto
      <4>2. CASE ~ ok
        BY <1>2, <2>3, <4>2 DEF Preload, Goto, Say, ForkTypes
      <4> QED
        BY <4>1, <4>2
    <3> QED
      BY <1>1, <1>2, <3>1 DEF ForkTypes, Steps, Words
  <2>4. CASE GetContext(p, ok)
    BY <1>1, <1>2, <2>4 DEF GetContext, Goto, Say, ForkTypes, Steps, Words
  <2>5. CASE ~ ok /\ Arm(p, ok)
    <3>1. /\ active' = [active EXCEPT ![p] = FALSE] /\ step' = [step EXCEPT ![p] = "running"]
          /\ said' = [said EXCEPT ![p] = @ \cup {"error"}]
          /\ step[p] = "arm" /\ UNCHANGED <<mode, ctx, vetoed>>
      BY <2>5 DEF Arm, Goto, Say
    <3> QED
      BY <1>1, <1>2, <3>1 DEF ForkTypes, Steps, Words
  <2> QED
    BY <2>1, <2>2, <2>3, <2>4, <2>5
<1>4. OfOne(p)'
      /\ (Pioneer(p)' => Pioneer(p)) /\ (Free(p) => Free(p)')
      /\ (step'[p] \in {"absent", "start", "preload", "arm", "context"} => step[p] \in {"start", "preload", "arm"})
      /\ ("armed" \in said'[p] => "armed" \in said[p] \/ step[p] = "context")
      /\ said[p] \subseteq said'[p]
  <2> USE DEF OfOne, Pioneer, Free, Served, Exists
  <2>1. CASE Install(p)
    BY <1>1, <1>2, <2>1 DEF Install, Goto, Say, ForkTypes
  <2>2. CASE ComesToVeto(p)
    BY <1>1, <1>2, <2>2 DEF ComesToVeto, ForkTypes
  <2>3. CASE Preload(p, ok)
    BY <1>1, <1>2, <2>3 DEF Preload, Goto, Say, ForkTypes
  <2>4. CASE GetContext(p, ok)
    BY <1>1, <1>2, <2>4 DEF GetContext, Goto, Say, ForkTypes
  <2>5. CASE ~ ok /\ Arm(p, ok)
    BY <1>1, <1>2, <2>5 DEF Arm, Goto, Say, ForkTypes
  <2> QED
    BY <2>1, <2>2, <2>3, <2>4, <2>5
<1>5. ASSUME NEW x \in Proc PROVE OfOne(x)' /\ (Pioneer(x)' => Pioneer(x)) /\ (Free(x) => Free(x)')
  <2>1. CASE x = p
    BY <1>4, <2>1
  <2>2. CASE x # p
    BY <1>1, <1>2, <1>3, <2>2 DEF OfOne, Pioneer, Free, Served, Exists
  <2> QED
    BY <2>1, <2>2
<1>6. ASSUME NEW x \in Proc PROVE OfKin(x)'
  <2>1. Pioneer(x)' => parent'[x] = 0 \/ Free(parent[x])'
    <3>1. Pioneer(x) => parent[x] = 0 \/ Free(parent[x])
      BY <1>2 DEF OfKin
    <3>2. parent[x] \in Proc \cup {0}
      BY <1>2 DEF ForkTypes, Proc
    <3> QED
      BY <1>1, <1>5, <3>1, <3>2
  <2>2. /\ server'[x] # 0 => isServer'[server'[x]]
        /\ step'[x] \in {"absent", "start", "preload", "arm", "context"} =>
             \A q \in Proc : parent'[q] = x => isServer'[q]
    BY <1>1, <1>2, <1>3, <1>4 DEF OfKin
  <2>3. "armed" \in said'[x] =>
          \A q \in Proc : parent'[q] = x /\ ~ isServer'[q] => "declined" \in said'[x]
    BY <1>1, <1>2, <1>3, <1>4 DEF OfKin
  <2> QED
    BY <1>1, <2>1, <2>2, <2>3 DEF OfKin, Free
<1> QED
  BY <1>3, <1>5, <1>6 DEF ForkInv

(* A process is born: a free number gets a parent, and of those there were only
   the parent changes, from arming to armed or by what its trace says. *)
LEMMA BirthKeepsInv ==
  ASSUME ForkInv, ForkTypes', NEW p \in Proc, NEW q \in NextProc, step[p] \in {"arm", "running"},
         \A x \in Proc \ {p, q} : step'[x] = step[x] /\ said'[x] = said[x],
         \A x \in Proc \ {q} : /\ active'[x] = active[x] /\ ctx'[x] = ctx[x] /\ vetoed'[x] = vetoed[x]
                               /\ isServer'[x] = isServer[x] /\ parent'[x] = parent[x],
         \A x \in Proc \ {p} : server'[x] = server[x],
         server'[p] = server[p] \/ (server'[p] = q /\ isServer'[q]),
         step'[p] = IF step[p] = "arm" THEN "context" ELSE step[p],
         server'[p] # server[p] => step[p] = "arm" \/ Served(p),
         said'[q] = {}, said[p] \subseteq said'[p], "armed" \in said'[p] => "armed" \in said[p],
         parent'[q] # 0, step'[q] \in {"start", "running"},
         parent'[q] = p => isServer'[q] \/ (step[p] = "running" /\ (ctx[p] => "declined" \in said'[p])),
         parent'[q] # p => isServer[parent'[q]] /\ step[parent'[q]] = "running",
         OfOne(q)',
         Pioneer(q)' => parent'[q] = p /\ Free(p)
  PROVE  ForkInv'
<1>1. ForkTypes /\ \A x \in Proc : OfOne(x) /\ OfKin(x)
  BY DEF ForkInv
<1>2. q \in Proc /\ step[q] = "absent" /\ q # p
  BY DEF NextProc, Unborn, Exists
<1>3. OfOne(q) /\ ~ active[q] /\ ~ ctx[q] /\ server[q] = 0 /\ ~ isServer[q] /\ ~ vetoed[q]
  BY <1>1, <1>2 DEF OfOne, Exists
<1>4. ASSUME NEW x \in Proc PROVE OfOne(x)'
  <2>1. OfOne(x) /\ OfOne(p)
    BY <1>1
  <2>2. CASE x = p
    BY <1>2, <2>1, <2>2 DEF OfOne, Exists, Served
  <2>3. CASE x # p /\ x # q
    BY <1>2, <2>1, <2>3 DEF OfOne, Exists
  <2> QED
    BY <2>2, <2>3
<1>5. ASSUME NEW x \in Proc, Free(x) PROVE Free(x)'
  BY <1>2, <1>3, <1>5 DEF Free
<1>6. ASSUME NEW x \in Proc \ {q}, Pioneer(x)' PROVE Pioneer(x)
  BY <1>2, <1>3, <1>6 DEF Pioneer, Free, Served
<1>7. ASSUME NEW x \in Proc PROVE OfKin(x)'
  <2>1. /\ isServer'[q] \in BOOLEAN /\ parent'[q] \in Proc \cup {0}
        /\ \A y \in Proc : parent[y] \in Proc \cup {0} /\ server[y] \in Proc \cup {0}
    BY <1>1, <1>2 DEF ForkTypes, Proc
  <2>2. Pioneer(x)' => parent'[x] = 0 \/ \E r \in Proc : r = parent'[x] /\ Free(r)'
    BY <1>1, <1>2, <1>5, <1>6, <2>1 DEF OfKin
  <2>3. server'[x] # 0 => isServer'[server'[x]]
    BY <1>1, <1>2, <1>3, <2>1 DEF OfKin
  <2>4. ASSUME step'[x] \in {"absent", "start", "preload", "arm", "context"}, NEW y \in Proc, parent'[y] = x
        PROVE  isServer'[y]
    <3>1. step[x] \in {"absent", "start", "preload", "arm", "context"}
      BY <1>2, <2>4
    <3>2. CASE y = q
      BY <1>2, <1>3, <2>4, <3>1, <3>2
    <3>3. CASE y # q
      BY <1>1, <2>4, <3>1, <3>3 DEF OfKin
    <3> QED
      BY <3>2, <3>3
  <2>5. ASSUME "armed" \in said'[x], NEW y \in Proc, parent'[y] = x, ~ isServer'[y]
        PROVE  "declined" \in said'[x]
    <3>1. x # q /\ "armed" \in said[x] /\ ctx[x] /\ said[x] \subseteq said'[x]
      BY <1>1, <1>2, <2>5 DEF OfOne
    <3>2. CASE y = q
      BY <1>1, <1>2, <2>5, <3>1, <3>2 DEF OfOne
    <3>3. CASE y # q
      BY <1>1, <2>5, <3>1, <3>3 DEF OfKin
    <3> QED
      BY <3>2, <3>3
  <2> QED
    BY <2>2, <2>3, <2>4, <2>5 DEF OfKin, Free
<1> QED
  BY <1>4, <1>7 DEF ForkInv

(* The three ways a process is born, and the fork server's own. *)
LEMMA BirthsKeepInv ==
  ASSUME ForkInv, NEW p \in Proc,
         Arm(p, TRUE) \/ StartServerLate(p) \/ LaunchByServer(p) \/ LaunchByVllm(p)
  PROVE  ForkInv'
<1>1. ForkTypes /\ \A x \in Proc : OfOne(x) /\ OfKin(x)
  BY DEF ForkInv
<1>2. ASSUME NEW q \in NextProc
      PROVE  /\ q \in Proc /\ step[q] = "absent" /\ q \in 1 .. MaxProcs /\ q # 0
             /\ ~ active[q] /\ ~ ctx[q] /\ server[q] = 0 /\ ~ isServer[q] /\ ~ vetoed[q]
             /\ said[q] = {} /\ OfOne(q)
  <2>1. q \in Proc /\ step[q] = "absent"
    BY <1>2 DEF NextProc, Unborn, Exists
  <2> QED
    BY <1>1, <2>1 DEF OfOne, Exists, Proc
<1>3. ASSUME NEW q \in NextProc, StartServer(p, q), UNCHANGED <<mode, ctx, vetoed, said>>,
             step[p] = "arm" \/ (step[p] = "running" /\ Served(p))
      PROVE  ForkInv'
  <2>1. active[p] /\ ~ isServer[p] /\ p # q
    BY <1>1, <1>2, <1>3 DEF OfOne, Served
  <2>2. /\ step' = [step EXCEPT ![q] = "start", ![p] = IF @ = "arm" THEN "context" ELSE @]
        /\ parent' = [parent EXCEPT ![q] = p]
        /\ active' = [active EXCEPT ![q] = active[p]]
        /\ server' = [server EXCEPT ![p] = q]
        /\ isServer' = [isServer EXCEPT ![q] = TRUE]
    BY <1>3 DEF StartServer, Environment
  <2>3. ForkTypes'
    <3>1. step' \in [Proc -> Steps]
      BY <1>1, <1>2, <2>1, <2>2 DEF ForkTypes, Steps
    <3>2. parent' \in [Proc -> 0 .. MaxProcs] /\ server' \in [Proc -> 0 .. MaxProcs]
      BY <1>1, <1>2, <2>1, <2>2 DEF ForkTypes, Proc
    <3>3. active' \in [Proc -> BOOLEAN] /\ isServer' \in [Proc -> BOOLEAN]
      BY <1>1, <1>2, <2>1, <2>2 DEF ForkTypes
    <3> QED
      BY <1>1, <1>3, <3>1, <3>2, <3>3 DEF ForkTypes
  <2>4. /\ step'[q] = "start" /\ active'[q] /\ isServer'[q] /\ parent'[q] = p /\ server'[q] = 0
        /\ ~ ctx'[q] /\ ~ vetoed'[q] /\ said'[q] = {}
    BY <1>1, <1>2, <1>3, <2>1, <2>2 DEF ForkTypes
  <2>5. /\ OfOne(q)' /\ ~ Pioneer(q)'
    BY <1>1, <1>2, <1>3, <2>4 DEF OfOne, Pioneer, Free, Served, Exists
  <2>6. p # 0 /\ server'[p] = q
    BY <1>1, <2>2 DEF ForkTypes, Proc
  <2>7. step'[p] = IF step[p] = "arm" THEN "context" ELSE step[p]
    BY <1>1, <1>2, <2>1, <2>2 DEF ForkTypes
  <2>8. /\ \A x \in Proc \ {p, q} : step'[x] = step[x]
        /\ \A x \in Proc \ {q} : active'[x] = active[x] /\ isServer'[x] = isServer[x] /\ parent'[x] = parent[x]
        /\ \A x \in Proc \ {p} : server'[x] = server[x]
    BY <1>1, <2>2 DEF ForkTypes
  <2> QED
    BY <1>3, <2>3, <2>4, <2>5, <2>6, <2>7, <2>8, BirthKeepsInv
<1>4. CASE Arm(p, TRUE)
  <2>1. step[p] = "arm" /\ (\E q \in NextProc : StartServer(p, q)) /\ UNCHANGED <<mode, ctx, vetoed, said>>
    BY <1>4 DEF Arm
  <2> QED
    BY <1>3, <2>1
<1>5. CASE StartServerLate(p)
  BY <1>3, <1>5 DEF StartServerLate
<1>6. CASE LaunchByServer(p)
  <2>1. PICK q \in NextProc :
          /\ step[p] = "running" /\ Served(p)
          /\ server[p] # 0 /\ step[server[p]] = "running"
          /\ step' = [step EXCEPT ![q] = "running"]
          /\ parent' = [parent EXCEPT ![q] = server[p]]
          /\ active' = [active EXCEPT ![q] = active[server[p]]]
          /\ ctx' = [ctx EXCEPT ![q] = ctx[server[p]]]
          /\ Say(p, "context")
          /\ UNCHANGED <<mode, server, isServer, vetoed>>
    BY <1>6 DEF LaunchByServer
  <2>2. /\ server[p] \in Proc /\ isServer[server[p]] /\ active[server[p]] /\ ~ ctx[server[p]]
        /\ p # q /\ server[p] # p /\ server[p] # q
    <3>1. server[p] \in Proc
      BY <1>1, <2>1 DEF ForkTypes, Proc
    <3>2. isServer[server[p]] /\ OfOne(server[p])
      BY <1>1, <2>1, <3>1 DEF OfKin
    <3>3. ctx[p]
      BY <2>1 DEF Served
    <3> QED
      BY <1>2, <2>1, <3>1, <3>2, <3>3 DEF OfOne
  <2>3. said' = [said EXCEPT ![p] = said[p] \cup {"context"}]
    BY <2>1 DEF Say
  <2>4. ForkTypes'
    BY <1>1, <1>2, <2>1, <2>2, <2>3 DEF ForkTypes, Steps, Words, Proc
  <2>5. /\ step'[q] = "running" /\ active'[q] /\ ~ isServer'[q] /\ parent'[q] = server[p] /\ server'[q] = 0
        /\ ~ ctx'[q] /\ ~ vetoed'[q] /\ said'[q] = {}
    BY <1>1, <1>2, <2>1, <2>2, <2>3 DEF ForkTypes
  <2>6. OfOne(q)' /\ ~ Pioneer(q)'
    BY <2>5 DEF OfOne, Pioneer, Free, Served, Exists
  <2>7. /\ \A x \in Proc \ {p, q} : step'[x] = step[x] /\ said'[x] = said[x]
        /\ \A x \in Proc \ {q} : active'[x] = active[x] /\ ctx'[x] = ctx[x] /\ parent'[x] = parent[x]
        /\ step'[p] = step[p] /\ said'[p] = said[p] \cup {"context"}
    BY <1>1, <2>1, <2>2, <2>3 DEF ForkTypes
  <2> QED
    BY <2>1, <2>2, <2>4, <2>5, <2>6, <2>7, BirthKeepsInv
<1>7. CASE LaunchByVllm(p)
  <2>1. PICK q \in NextProc :
          /\ step[p] = "running" /\ ~ Served(p) /\ ~ isServer[p]
          /\ parent' = [parent EXCEPT ![q] = p]
          /\ active' = [active EXCEPT ![q] = active[p]]
          /\ \/ step' = [step EXCEPT ![q] = "start"] /\ UNCHANGED <<ctx, vetoed>>
             \/ /\ step' = [step EXCEPT ![q] = "running"]
                /\ ctx' = [ctx EXCEPT ![q] = ctx[p]] /\ vetoed' = [vetoed EXCEPT ![q] = vetoed[p]]
          /\ IF ctx[p] THEN Say(p, "declined") ELSE UNCHANGED said
          /\ UNCHANGED <<mode, server, isServer>>
    BY <1>7 DEF LaunchByVllm, Environment, Goto
  <2>2. p # q /\ p # 0
    BY <1>1, <1>2, <2>1 DEF ForkTypes, Proc
  <2>3. /\ ctx[p] => said' = [said EXCEPT ![p] = said[p] \cup {"declined"}]
        /\ ~ ctx[p] => said' = said
    BY <2>1 DEF Say
  <2>4. ForkTypes'
    <3>1. said' \in [Proc -> SUBSET Words]
      BY <1>1, <2>3 DEF ForkTypes, Words
    <3>2. ctx' \in [Proc -> BOOLEAN] /\ vetoed' \in [Proc -> BOOLEAN] /\ active' \in [Proc -> BOOLEAN]
      BY <1>1, <1>2, <2>1 DEF ForkTypes
    <3>3. step' \in [Proc -> Steps] /\ parent' \in [Proc -> 0 .. MaxProcs]
      BY <1>1, <1>2, <2>1 DEF ForkTypes, Steps, Proc
    <3> QED
      BY <1>1, <2>1, <3>1, <3>2, <3>3 DEF ForkTypes
  <2>5. /\ step'[q] \in {"start", "running"} /\ (active'[q] <=> active[p])
        /\ ~ isServer'[q] /\ parent'[q] = p /\ server'[q] = 0 /\ said'[q] = {}
        /\ (~ ctx'[q] /\ ~ vetoed'[q]) \/ (step'[q] = "running" /\ (ctx'[q] <=> ctx[p]) /\ (vetoed'[q] <=> vetoed[p]))
    <3>1. ctx[p] \in BOOLEAN
      BY <1>1 DEF ForkTypes
    <3> QED
      BY <1>1, <1>2, <2>1, <2>2, <2>3, <3>1 DEF ForkTypes
  <2>6. OfOne(q)' /\ (Pioneer(q)' => Free(p))
    BY <1>1, <1>2, <2>1, <2>5 DEF OfOne, Pioneer, Free, Served, Exists
  <2>7. /\ \A x \in Proc \ {p, q} : step'[x] = step[x] /\ said'[x] = said[x]
        /\ \A x \in Proc \ {q} : active'[x] = active[x] /\ ctx'[x] = ctx[x] /\ vetoed'[x] = vetoed[x]
                                 /\ parent'[x] = parent[x]
        /\ step'[p] = step[p] /\ said[p] \subseteq said'[p]
        /\ "armed" \in said'[p] => "armed" \in said[p]
        /\ ctx[p] => "declined" \in said'[p]
    BY <1>1, <2>1, <2>2, <2>3 DEF ForkTypes
  <2> QED
    BY <2>1, <2>2, <2>4, <2>5, <2>6, <2>7, BirthKeepsInv
<1> QED
  BY <1>4, <1>5, <1>6, <1>7

(* A fork server is never started below another, nor below a process that has
   one, however the processes of the tree are started, whatever fails, and
   however late a server is started; and a trace that says armed is of a process
   every start of which was served or declined. *)
THEOREM ServersDoNotNest == ForkServerSpec => []NoNestedServer
<1>1. ForkServerInit => ForkInv
  <2> SUFFICES ASSUME ForkServerInit PROVE ForkInv
    OBVIOUS
  <2>1. MaxProcs \in Nat \ {0} /\ Proc = 1 .. MaxProcs
    BY ForkServerAssumption DEF Proc
  <2>2. /\ mode \in {"early", "late", "typo"}
        /\ step = [p \in Proc |-> IF p = 1 THEN "start" ELSE "absent"]
        /\ parent = [p \in Proc |-> 0] /\ server = [p \in Proc |-> 0]
        /\ active = [p \in Proc |-> FALSE] /\ ctx = [p \in Proc |-> FALSE]
        /\ isServer = [p \in Proc |-> FALSE] /\ vetoed = [p \in Proc |-> FALSE]
        /\ said = [p \in Proc |-> {}]
    BY DEF ForkServerInit, Tree
  <2>3. ForkTypes
    BY <2>1, <2>2 DEF ForkTypes, Steps, Words
  <2>4. ASSUME NEW p \in Proc PROVE OfOne(p) /\ OfKin(p)
    BY <2>1, <2>2 DEF OfOne, OfKin, Exists
  <2> QED
    BY <2>3, <2>4 DEF ForkInv
<1>2. ForkInv /\ [ForkServerNext]_forkServerVars => ForkInv'
  <2>1. ASSUME ForkInv, ForkServerNext PROVE ForkInv'
    BY <2>1, OwnStepsKeepInv, BirthsKeepInv DEF ForkServerNext
  <2>2. ASSUME ForkInv, UNCHANGED forkServerVars PROVE ForkInv'
    <3> USE DEF forkServerVars
    <3>1. ForkTypes'
      BY <2>2 DEF ForkInv, ForkTypes
    <3>2. ASSUME NEW p \in Proc PROVE OfOne(p)' /\ OfKin(p)'
      BY <2>2 DEF ForkInv, OfOne, OfKin, Pioneer, Free, Served, Exists
    <3> QED
      BY <3>1, <3>2 DEF ForkInv
  <2> QED
    BY <2>1, <2>2
<1>3. ForkInv => NoNestedServer
  <2> SUFFICES ASSUME ForkInv PROVE NoNestedServer
    OBVIOUS
  <2>1. ForkTypes /\ \A x \in Proc : OfOne(x) /\ OfKin(x)
    BY DEF ForkInv
  <2>2. ASSUME NEW p \in Proc, server[p] # 0, NEW q \in Ancestors(p)
        PROVE  server[q] = 0 /\ ~ isServer[q]
    <3> DEFINE above == {x \in Proc : Free(x)}
    <3>1. \A r \in above \cup {p} : parent[r] \in above \cup {0}
      <4>1. ASSUME NEW r \in above \cup {p} PROVE parent[r] \in above \cup {0}
        <5>1. r \in Proc /\ Pioneer(r)
          BY <2>2 DEF Pioneer
        <5>2. parent[r] \in Proc \cup {0}
          BY <2>1, <5>1 DEF ForkTypes, Proc
        <5> QED
          BY <2>1, <5>1, <5>2 DEF OfKin
      <4> QED
        BY <4>1
    <3>2. q \in above
      BY <3>1 DEF Ancestors
    <3> QED
      BY <2>1, <3>2 DEF OfOne, Free
  <2> QED
    BY <2>1, <2>2 DEF NoNestedServer, OfOne, OfKin
<1> QED
  BY <1>1, <1>2, <1>3, PTL DEF ForkServerSpec

----------------------------------------------------------------------------
(* The hook: the types of its variables. *)

Surroundings == [caller : Nat, calls : Nat]
Token == [id : Nat, start : Nat, parent : Nat]
CallFrame == [kind : {"call"}, tok : Token, around : Surroundings]
ImportFrame == [kind : {"import"}, name : Module, mine : Nat, around : Surroundings]
PatchFrame == [kind : {"patch"}, name : Module, around : Surroundings]
Frame == CallFrame \cup ImportFrame \cup PatchFrame
Line == [id : Nat, start : Nat, end : Nat, parent : Nat, depth : Nat,
         truth : [kind : {"call", "import"}, task : Task, around : Surroundings]]
Entry == [name : Module, at : Nat, child : Int, parent : Nat]
Stages == {"absent", "executing", "patching", "loaded"}

ClockTypes == clock \in Nat /\ seq \in Nat
StackTypes == stack \in [Thread -> Seq(Token)]
FrameTypes == frames \in [Task -> Seq(Frame)]
LineTypes == written \subseteq Line
TableTypes ==
  /\ steps \in Seq(SUBSET Target)
  /\ DOMAIN modules \subseteq Module
  /\ modules \in [DOMAIN modules -> Stages]
TargetTypes ==
  /\ todo \subseteq Target
  /\ declared \subseteq Target
  /\ unready \subseteq Target
  /\ pending \subseteq Target
  /\ overtaken \subseteq Target
  /\ results \subseteq Target \X Statuses
  /\ shown \subseteq Target \X Statuses
TimeTypes ==
  /\ timing \in BOOLEAN
  /\ overlapped \in BOOLEAN
  /\ imports \in Seq(Entry)
  /\ cum \in [DOMAIN modules -> Int]
  /\ self \in [DOMAIN modules -> Int]
  /\ own \in [DOMAIN modules -> Int]
LiveTypes == live \subseteq Task /\ forked \in BOOLEAN

HookTypes ==
  /\ ClockTypes /\ StackTypes /\ FrameTypes /\ LineTypes
  /\ TableTypes /\ TargetTypes /\ TimeTypes /\ LiveTypes

(* What is left when the last element of a sequence is taken away. *)
LEMMA FrontIsShorter ==
  ASSUME NEW S, NEW s \in Seq(S), s # <<>>
  PROVE  /\ Front(s) \in Seq(S)
         /\ Len(Front(s)) = Len(s) - 1
         /\ \A i \in 1 .. Len(s) - 1 : Front(s)[i] = s[i]
         /\ Last(s) \in S
         /\ Last(s) = s[Len(s)]
         /\ Len(s) \in Nat \ {0}
<1>1. Len(s) \in Nat \ {0} /\ s[Len(s)] \in S
  OBVIOUS
<1>2. \A i \in 1 .. Len(s) - 1 : s[i] \in S
  BY <1>1
<1>3. /\ SubSeq(s, 1, Len(s) - 1) \in Seq(S)
      /\ Len(SubSeq(s, 1, Len(s) - 1)) = Len(s) - 1
      /\ \A i \in 1 .. Len(s) - 1 : SubSeq(s, 1, Len(s) - 1)[i] = s[i]
  <2> DEFINE n == Len(s) - 1
  <2>0. n \in Nat
    BY <1>1
  <2>1. 1 \in Int /\ n \in Int /\ n - 1 + 1 = n /\ (IF 1 <= n THEN n - 1 + 1 ELSE 0) = n
    <3> HIDE DEF n
    <3> QED
      BY <2>0
  <2>2. \A i \in 1 .. n : s[i] \in S
    BY <1>2
  <2>3. \A i \in 1 .. n : 1 + i - 1 = i
    BY <2>1
  <2> HIDE DEF n
  <2>4. /\ SubSeq(s, 1, n) \in Seq(S)
        /\ Len(SubSeq(s, 1, n)) = IF 1 <= n THEN n - 1 + 1 ELSE 0
        /\ \A i \in 1 .. n - 1 + 1 : SubSeq(s, 1, n)[i] = s[1 + i - 1]
    BY <2>1, <2>2, SubSeqProperties
  <2>5. /\ SubSeq(s, 1, n) \in Seq(S)
        /\ Len(SubSeq(s, 1, n)) = n
        /\ \A i \in 1 .. n : SubSeq(s, 1, n)[i] = s[i]
    BY <2>1, <2>3, <2>4
  <2> QED
    BY <2>5 DEF n
<1> QED
  BY <1>1, <1>3 DEF Front, Last

(* A frame is of one kind and has the fields of its kind. *)
LEMMA FrameKinds ==
  ASSUME NEW f \in Frame
  PROVE  /\ f.kind \in {"call", "import", "patch"}
         /\ f.around \in Surroundings
         /\ f.kind = "call" => f \in CallFrame /\ f.tok \in Token
         /\ f.kind = "import" => f \in ImportFrame /\ f.name \in Module /\ f.mine \in Nat
         /\ f.kind = "patch" => f \in PatchFrame /\ f.name \in Module
BY DEF Frame, CallFrame, ImportFrame, PatchFrame

(* What is around a task's next call or import is well formed. *)
LEMMA AroundType ==
  ASSUME FrameTypes, NEW k \in Task
  PROVE  Around(k) \in Surroundings
<1>1. frames[k] \in Seq(Frame)
  BY DEF FrameTypes
<1>2. CASE frames[k] = <<>>
  BY <1>2 DEF Around, Surroundings
<1>3. CASE frames[k] # <<>>
  <2>1. Last(frames[k]) \in Frame
    BY <1>1, <1>3, FrontIsShorter
  <2>2. CASE Last(frames[k]).kind = "call"
    <3>1. Last(frames[k]).tok \in Token /\ Last(frames[k]).around \in Surroundings
      BY <2>1, <2>2, FrameKinds
    <3>2. Around(k) = [caller |-> Last(frames[k]).tok.id, calls |-> Last(frames[k]).around.calls + 1]
      BY <1>3, <2>2 DEF Around
    <3> QED
      BY <3>1, <3>2 DEF Token, Surroundings
  <2>3. CASE Last(frames[k]).kind # "call"
    BY <2>1, <2>3, <1>3, FrameKinds DEF Around
  <2> QED
    BY <2>2, <2>3
<1> QED
  BY <1>2, <1>3

(* A task's stack, and the span on top of it, are well formed. *)
LEMMA CurrentSpanType ==
  ASSUME StackTypes, NEW k \in Task
  PROVE  Stack(k) \in Seq(Token) /\ CurrentSpan(k) \in Nat
<1>1. ThreadOf[k] \in Thread
  BY DEF Thread
<1>2. Stack(k) \in Seq(Token)
  BY <1>1 DEF Stack, StackTypes
<1>3. Stack(k) # <<>> => Last(Stack(k)) \in Token
  BY <1>2, FrontIsShorter
<1> QED
  BY <1>2, <1>3 DEF CurrentSpan, Token

(* Time changes the frames of imports only, and of these only the innermost. *)
LEMMA SpendKeeps ==
  ASSUME NEW fs \in Seq(Frame)
  PROVE  /\ Spend(fs) \in Seq(Frame)
         /\ Len(Spend(fs)) = Len(fs)
         /\ \A i \in 1 .. Len(fs) :
              /\ Spend(fs)[i].kind = fs[i].kind
              /\ Spend(fs)[i].around = fs[i].around
              /\ fs[i].kind # "call" => Spend(fs)[i].name = fs[i].name
              /\ fs[i].kind # "import" => Spend(fs)[i] = fs[i]
              /\ fs[i].kind = "import" =>
                   Spend(fs)[i].mine = IF \A j \in i + 1 .. Len(fs) : fs[j].kind # "import"
                                         THEN fs[i].mine + 1 ELSE fs[i].mine
<1>1. DOMAIN fs = 1 .. Len(fs) /\ Len(fs) \in Nat
  OBVIOUS
<1>2. ASSUME NEW i \in 1 .. Len(fs)
      PROVE  /\ Spend(fs)[i] \in Frame
             /\ Spend(fs)[i].kind = fs[i].kind
             /\ Spend(fs)[i].around = fs[i].around
             /\ fs[i].kind # "call" => Spend(fs)[i].name = fs[i].name
             /\ fs[i].kind # "import" => Spend(fs)[i] = fs[i]
             /\ fs[i].kind = "import" =>
                  Spend(fs)[i].mine = IF \A j \in i + 1 .. Len(fs) : fs[j].kind # "import"
                                        THEN fs[i].mine + 1 ELSE fs[i].mine
  <2>1. fs[i] \in Frame
    OBVIOUS
  <2>2. CASE fs[i].kind = "import" /\ \A j \in i + 1 .. Len(fs) : fs[j].kind # "import"
    <3>1. Spend(fs)[i] = [fs[i] EXCEPT !.mine = @ + 1]
      BY <1>1, <2>2 DEF Spend
    <3>2. fs[i] \in ImportFrame
      BY <2>1, <2>2, FrameKinds
    <3>3. [fs[i] EXCEPT !.mine = @ + 1] \in ImportFrame
      BY <3>2 DEF ImportFrame
    <3>4. /\ [fs[i] EXCEPT !.mine = @ + 1].kind = fs[i].kind
          /\ [fs[i] EXCEPT !.mine = @ + 1].around = fs[i].around
          /\ [fs[i] EXCEPT !.mine = @ + 1].name = fs[i].name
          /\ [fs[i] EXCEPT !.mine = @ + 1].mine = fs[i].mine + 1
      BY <3>2 DEF ImportFrame
    <3> QED
      BY <2>2, <3>1, <3>3, <3>4 DEF Frame
  <2>3. CASE ~ (fs[i].kind = "import" /\ \A j \in i + 1 .. Len(fs) : fs[j].kind # "import")
    <3>1. Spend(fs)[i] = fs[i]
      BY <1>1, <2>3 DEF Spend
    <3> QED
      BY <2>1, <2>3, <3>1
  <2> QED
    BY <2>2, <2>3
<1>3. Spend(fs) \in [1 .. Len(fs) -> Frame]
  <2>1. Spend(fs) = [i \in 1 .. Len(fs) |-> Spend(fs)[i]]
    BY <1>1 DEF Spend
  <2> QED
    BY <2>1, <1>2
<1>4. Spend(fs) \in Seq(Frame) /\ Len(Spend(fs)) = Len(fs)
  BY <1>1, <1>3
<1> QED
  BY <1>2, <1>4

(* The variables have their types at the start. *)
LEMMA HookStartsTyped == HookStart => HookTypes
<1> SUFFICES ASSUME NEW plan \in Seq(SUBSET Target), NEW mods \in SUBSET Module,
                    NEW early \in SUBSET Module, NEW tasks \in SUBSET Task,
                    NEW observe \in BOOLEAN, NEW used \in Nat,
                    HookInit(plan, early, observe, mods, tasks, used)
             PROVE  HookTypes
  BY DEF HookStart
<1>1. ClockTypes /\ StackTypes /\ FrameTypes /\ LineTypes
  BY DEF HookInit, SpanInit, ClockTypes, StackTypes, FrameTypes, LineTypes
<1>2. TableTypes /\ TargetTypes
  BY DEF HookInit, TableTypes, TargetTypes, Stages
<1>3. TimeTypes
  <2>1. DOMAIN modules = mods /\ timing = observe /\ overlapped = FALSE /\ imports = <<>>
    BY DEF HookInit
  <2>2. cum = [m \in mods |-> 0] /\ self = cum /\ own = cum
    BY DEF HookInit
  <2>3. cum \in [mods -> Int] /\ self \in [mods -> Int] /\ own \in [mods -> Int]
    BY <2>2
  <2>4. imports \in Seq(Entry)
    BY <2>1
  <2>5. timing \in BOOLEAN /\ overlapped \in BOOLEAN
    BY <2>1, Zenon
  <2> QED
    BY <2>1, <2>3, <2>4, <2>5, Zenon DEF TimeTypes
<1>4. LiveTypes
  BY DEF HookInit, LiveTypes
<1> QED
  BY <1>1, <1>2, <1>3, <1>4 DEF HookTypes

(* Beginning a call. *)
LEMMA BeginTypes ==
  ASSUME HookTypes, NEW k \in Task, Begin(k)
  PROVE  ClockTypes' /\ StackTypes' /\ FrameTypes' /\ LineTypes'
<1> DEFINE tok == [id |-> seq + 1, start |-> clock, parent |-> CurrentSpan(k)]
           f == [kind |-> "call", tok |-> tok, around |-> Around(k)]
<1> USE SpanAssumption DEF HookTypes
<1>1. ThreadOf[k] \in Thread /\ Stack(k) \in Seq(Token) /\ CurrentSpan(k) \in Nat
  BY CurrentSpanType DEF Thread
<1>2. tok \in Token
  BY <1>1 DEF Token, ClockTypes
<1>3. f \in Frame
  BY <1>2, AroundType DEF Frame, CallFrame
<1>4. StackTypes'
  <2>1. stack' = [stack EXCEPT ![ThreadOf[k]] = Append(@, tok)]
    BY DEF Begin
  <2> HIDE DEF tok
  <2> QED
    BY <1>1, <1>2, <2>1 DEF StackTypes
<1>5. FrameTypes'
  <2>1. frames' = [frames EXCEPT ![k] = Append(@, f)]
    BY DEF Begin
  <2> HIDE DEF f
  <2> QED
    BY <1>3, <2>1 DEF FrameTypes
<1>6. ClockTypes' /\ LineTypes'
  BY DEF Begin, ClockTypes, LineTypes
<1> QED
  BY <1>4, <1>5, <1>6

(* What end() leaves of a stack of spans: the part below its token. *)
LEMMA PopToIsPrefix ==
  ASSUME NEW s \in Seq(Token), NEW tok
  PROVE  /\ PopTo(s, tok) \in Seq(Token)
         /\ Len(PopTo(s, tok)) \in 0 .. Len(s)
         /\ \A i \in 1 .. Len(PopTo(s, tok)) : PopTo(s, tok)[i] = s[i]
         /\ tok \in ToSet(s) => /\ Position(s, tok) \in 1 .. Len(s)
                                /\ s[Position(s, tok)] = tok
                                /\ Len(PopTo(s, tok)) = Position(s, tok) - 1
         /\ tok \notin ToSet(s) => PopTo(s, tok) = s
<1>1. CASE tok \in ToSet(s)
  <2>1. Position(s, tok) \in 1 .. Len(s) /\ s[Position(s, tok)] = tok
    <3>1. \E i \in DOMAIN s : s[i] = tok
      BY <1>1 DEF ToSet
    <3> QED
      BY <3>1 DEF Position
  <2> DEFINE p == Position(s, tok)
  <2>2. PopTo(s, tok) = SubSeq(s, 1, p - 1)
    BY <1>1 DEF PopTo
  <2>3. p - 1 \in Nat /\ p \in 1 .. Len(s)
    BY <2>1
  <2>4. \A i \in 1 .. p - 1 : s[i] \in Token
    BY <2>3
  <2> HIDE DEF p
  <2> DEFINE n == p - 1
  <2>5. \A i \in 1 .. n : s[i] \in Token
    BY <2>4
  <2>6. n \in Nat
    BY <2>3
  <2> HIDE DEF n
  <2>7. /\ SubSeq(s, 1, n) \in Seq(Token)
        /\ Len(SubSeq(s, 1, n)) = IF 1 <= n THEN n - 1 + 1 ELSE 0
        /\ \A i \in 1 .. n - 1 + 1 : SubSeq(s, 1, n)[i] = s[1 + i - 1]
    BY <2>5, <2>6, SubSeqProperties
  <2>8. n - 1 + 1 = n /\ \A i \in 1 .. n : 1 + i - 1 = i
    BY <2>6
  <2>9. /\ SubSeq(s, 1, n) \in Seq(Token)
        /\ Len(SubSeq(s, 1, n)) = n
        /\ \A i \in 1 .. n : SubSeq(s, 1, n)[i] = s[i]
    BY <2>6, <2>7, <2>8
  <2>10. n \in 0 .. Len(s)
    BY <2>3 DEF n
  <2>11. n = Position(s, tok) - 1
    BY DEF n, p
  <2>12. PopTo(s, tok) = SubSeq(s, 1, n)
    BY <2>2 DEF n
  <2> HIDE DEF p
  <2> QED
    BY <1>1, <2>1, <2>9, <2>10, <2>11, <2>12
<1>2. CASE tok \notin ToSet(s)
  BY <1>2 DEF PopTo
<1> QED
  BY <1>1, <1>2

(* Ending a call. *)
LEMMA EndTypes ==
  ASSUME HookTypes, NEW k \in Task, NEW floor \in Nat, End(k, floor)
  PROVE  ClockTypes' /\ StackTypes' /\ FrameTypes' /\ LineTypes'
<1> DEFINE f == Last(frames[k])
           tok == f.tok
           rest == PopTo(Stack(k), tok)
           line == [id |-> tok.id, start |-> tok.start, end |-> clock, parent |-> tok.parent,
                    depth |-> Len(rest), truth |-> Truth(k, "call")]
<1> USE SpanAssumption DEF HookTypes
<1>1. ThreadOf[k] \in Thread /\ Stack(k) \in Seq(Token)
  BY CurrentSpanType DEF Thread
<1>2. frames[k] \in Seq(Frame) /\ frames[k] # <<>>
  BY DEF End, FrameTypes
<1>3. f \in Frame /\ Front(frames[k]) \in Seq(Frame)
  BY <1>2, FrontIsShorter
<1>4. tok \in Token /\ f.around \in Surroundings
  <2>1. f.kind = "call"
    BY DEF End
  <2> HIDE DEF f
  <2> QED
    BY <1>3, <2>1, FrameKinds
<1>5. rest \in Seq(Token) /\ Len(rest) \in Nat
  BY <1>1, PopToIsPrefix
<1>6. stack' = [stack EXCEPT ![ThreadOf[k]] = rest]
  BY DEF End
<1>7. frames' = [frames EXCEPT ![k] = Front(@)]
  BY DEF End
<1>8. written' = written \/ written' = written \cup {line}
  BY DEF End
<1>9. Truth(k, "call") \in [kind : {"call", "import"}, task : Task, around : Surroundings]
  BY <1>4 DEF Truth
<1>10. line \in Line
  <2> HIDE DEF tok, rest
  <2> QED
    BY <1>4, <1>5, <1>9 DEF Line, Token, ClockTypes
<1>11. StackTypes'
  <2> HIDE DEF rest
  <2> QED
    BY <1>1, <1>5, <1>6 DEF StackTypes
<1>12. FrameTypes'
  BY <1>3, <1>7 DEF FrameTypes
<1>13. LineTypes'
  <2> HIDE DEF line
  <2> QED
    BY <1>8, <1>10 DEF LineTypes
<1>14. ClockTypes'
  BY DEF End, ClockTypes
<1> QED
  BY <1>11, <1>12, <1>13, <1>14

(* The entry a module's import ends. *)
LEMMA EntryOfModule ==
  ASSUME NEW m, \E i \in DOMAIN imports : imports[i].name = m
  PROVE  EntryOf(m) \in DOMAIN imports /\ imports[EntryOf(m)].name = m
BY DEF EntryOf

(* A nested import is charged to its importer's entry. *)
LEMMA ChargedEntry ==
  ASSUME NEW e \in Entry, NEW total \in Int
  PROVE  /\ [e EXCEPT !.child = @ + total] \in Entry
         /\ [e EXCEPT !.child = @ + total].name = e.name
         /\ [e EXCEPT !.child = @ + total].at = e.at
         /\ [e EXCEPT !.child = @ + total].parent = e.parent
         /\ [e EXCEPT !.child = @ + total].child = e.child + total
BY DEF Entry

(* What an import that ends leaves of the stack of imports. *)
LEMMA EntriesBelow ==
  ASSUME NEW st \in Seq(Entry), NEW n \in Nat, n <= Len(st), NEW total \in Int
  PROVE  LET rest == ChargeParent(SubSeq(st, 1, n), total)
         IN /\ rest \in Seq(Entry)
            /\ Len(rest) = n
            /\ \A i \in 1 .. n : /\ rest[i].name = st[i].name
                                 /\ rest[i].at = st[i].at
                                 /\ rest[i].parent = st[i].parent
                                 /\ rest[i].child = IF i = n THEN st[i].child + total ELSE st[i].child
<1> DEFINE low == SubSeq(st, 1, n)
           rest == ChargeParent(low, total)
<1>1. /\ low \in Seq(Entry)
      /\ Len(low) = n
      /\ \A i \in 1 .. n : low[i] = st[i]
  <2>1. \A i \in 1 .. n : st[i] \in Entry
    OBVIOUS
  <2>2. /\ low \in Seq(Entry)
        /\ Len(low) = IF 1 <= n THEN n - 1 + 1 ELSE 0
        /\ \A i \in 1 .. n - 1 + 1 : low[i] = st[1 + i - 1]
    BY <2>1, SubSeqProperties
  <2>3. n - 1 + 1 = n /\ \A i \in 1 .. n : 1 + i - 1 = i
    OBVIOUS
  <2> HIDE DEF low
  <2> QED
    BY <2>2, <2>3
<1>2. \A i \in 1 .. n : st[i] \in Entry
  OBVIOUS
<1> HIDE DEF low
<1>3. CASE n = 0
  <2>1. low = <<>>
    BY <1>1, <1>3
  <2>2. rest = low
    BY <2>1 DEF ChargeParent
  <2> QED
    BY <1>1, <1>3, <2>2 DEF low
<1>4. CASE n > 0
  <2>1. low # <<>> /\ low \in [1 .. n -> Entry]
    BY <1>1, <1>4
  <2>2. rest = [low EXCEPT ![n].child = @ + total]
    BY <1>1, <2>1 DEF ChargeParent
  <2>3. low[n] \in Entry
    BY <2>1, <1>4
  <2>4. /\ [low[n] EXCEPT !.child = @ + total] \in Entry
        /\ [low[n] EXCEPT !.child = @ + total].name = low[n].name
        /\ [low[n] EXCEPT !.child = @ + total].at = low[n].at
        /\ [low[n] EXCEPT !.child = @ + total].parent = low[n].parent
        /\ [low[n] EXCEPT !.child = @ + total].child = low[n].child + total
    BY <2>3, ChargedEntry
  <2>5. /\ \A i \in 1 .. n : i # n => rest[i] = low[i]
        /\ rest[n] = [low[n] EXCEPT !.child = @ + total]
        /\ DOMAIN rest = 1 .. n
    BY <2>1, <2>2, <1>4, SMTT(20)
  <2>6. \A i \in 1 .. n : rest[i] \in Entry
    BY <2>1, <2>4, <2>5
  <2>7. rest \in Seq(Entry) /\ Len(rest) = n
    <3>1. rest = [i \in 1 .. n |-> rest[i]]
      BY <2>1, <2>2
    <3> HIDE DEF rest
    <3>2. rest \in [1 .. n -> Entry]
      BY <2>6, <3>1
    <3> QED
      BY <3>2
  <2> HIDE DEF rest
  <2>8. \A i \in 1 .. n : /\ rest[i].name = st[i].name
                          /\ rest[i].at = st[i].at
                          /\ rest[i].parent = st[i].parent
                          /\ rest[i].child = IF i = n THEN st[i].child + total ELSE st[i].child
    BY <2>4, <2>5, <1>1, ZenonT(30)
  <2> QED
    BY <2>7, <2>8 DEF rest, low
<1> QED
  BY <1>3, <1>4

(* The end of an import in the tables of cs_imports. *)
LEMMA OnEndTypes ==
  ASSUME HookTypes, NEW k \in Task, frames[k] # <<>>,
         NEW m \in DOMAIN modules, OnEnd(k, m)
  PROVE  /\ seq' \in Nat /\ LineTypes'
         /\ imports' \in Seq(Entry)
         /\ cum' \in [DOMAIN modules -> Int] /\ self' \in [DOMAIN modules -> Int]
<1> USE DEF HookTypes
<1>1. CASE \A i \in DOMAIN imports : imports[i].name # m
  <2>1. imports' = <<>> /\ cum' = cum /\ self' = self /\ seq' = seq /\ written' = written
    BY <1>1 DEF OnEnd
  <2>2. cum \in [DOMAIN modules -> Int] /\ self \in [DOMAIN modules -> Int]
    BY DEF TimeTypes
  <2> QED
    BY <2>1, <2>2 DEF ClockTypes, LineTypes
<1>2. CASE ~ \A i \in DOMAIN imports : imports[i].name # m
  <2> DEFINE e == EntryOf(m)
             entry == imports[e]
             total == clock - entry.at
             rest == ChargeParent(SubSeq(imports, 1, e - 1), total)
  <2>1. e \in DOMAIN imports /\ imports \in Seq(Entry)
    BY <1>2, EntryOfModule DEF TimeTypes
  <2>2. entry \in Entry /\ e - 1 \in Nat /\ e - 1 <= Len(imports)
    BY <2>1
  <2>3. total \in Int /\ entry.child \in Int /\ entry.at \in Nat /\ entry.parent \in Nat
    <3> HIDE DEF entry
    <3> QED
      BY <2>2 DEF Entry, ClockTypes
  <2>4. rest \in Seq(Entry) /\ Len(rest) = e - 1
    <3> HIDE DEF e, total
    <3> QED
      BY <2>1, <2>2, <2>3, EntriesBelow
  <2>5. /\ imports' = rest
        /\ cum' = [cum EXCEPT ![m] = @ + total]
        /\ self' = [self EXCEPT ![m] = @ + total - entry.child]
        /\ IF total >= MinImport
             THEN Emitted(k, entry.at, entry.parent, Len(rest))
             ELSE UNCHANGED <<seq, written>>
    BY <1>2 DEF OnEnd
  <2> HIDE DEF e, entry, total, rest
  <2>6. cum' \in [DOMAIN modules -> Int] /\ self' \in [DOMAIN modules -> Int]
    BY <2>3, <2>5 DEF TimeTypes
  <2>7. seq' \in Nat /\ LineTypes'
    <3>1. CASE UNCHANGED <<seq, written>>
      BY <3>1 DEF ClockTypes, LineTypes
    <3>2. CASE Emitted(k, entry.at, entry.parent, Len(rest))
      <4> DEFINE line == [id |-> seq + 1, start |-> entry.at, end |-> clock, parent |-> entry.parent,
                          depth |-> Len(rest), truth |-> Truth(k, "import")]
      <4>1. frames[k] \in Seq(Frame)
        BY DEF FrameTypes
      <4>2. Last(frames[k]) \in Frame
        BY <4>1, FrontIsShorter
      <4>3. Truth(k, "import") \in [kind : {"call", "import"}, task : Task, around : Surroundings]
        BY <4>2, FrameKinds DEF Truth
      <4>4. Len(rest) \in Nat
        BY <2>4
      <4>5. line \in Line
        BY <2>3, <4>3, <4>4 DEF Line, ClockTypes
      <4>6. seq' = seq + 1 /\ written' = written \cup {line}
        BY <3>2 DEF Emitted
      <4> HIDE DEF line
      <4> QED
        BY <4>5, <4>6 DEF ClockTypes, LineTypes
    <3> QED
      BY <2>5, <3>1, <3>2
  <2> QED
    BY <2>4, <2>5, <2>6, <2>7 DEF ClockTypes
<1> QED
  BY <1>1, <1>2

(* Beginning an import. *)
LEMMA ImportStartTypes ==
  ASSUME HookTypes, NEW k \in Task, NEW m \in Module, ImportStart(k, m)
  PROVE  HookTypes'
<1> USE DEF HookTypes
<1> DEFINE f == [kind |-> "import", name |-> m, mine |-> 0, around |-> Around(k)]
           e == [name |-> m, at |-> clock, child |-> 0, parent |-> CurrentSpan(k)]
<1>1. f \in Frame
  BY AroundType DEF Frame, ImportFrame
<1>2. e \in Entry
  BY CurrentSpanType DEF Entry, ClockTypes
<1>3. FrameTypes'
  <2>1. frames' = [frames EXCEPT ![k] = Append(@, f)]
    BY DEF ImportStart
  <2> HIDE DEF f
  <2> QED
    BY <1>1, <2>1 DEF FrameTypes
<1>4. imports' \in Seq(Entry)
  <2>1. imports' = imports \/ imports' = Append(imports, e)
    BY DEF ImportStart, OnStart
  <2> HIDE DEF e
  <2>2. imports \in Seq(Entry)
    BY DEF TimeTypes
  <2>3. Append(imports, e) \in Seq(Entry)
    BY <1>2, <2>2
  <2> QED
    BY <2>1, <2>2, <2>3
<1>5. modules' = [modules EXCEPT ![m] = "executing"] /\ DOMAIN modules' = DOMAIN modules
  BY DEF ImportStart, TableTypes
<1>6. TableTypes'
  <2>1. steps' = steps
    BY DEF ImportStart, tables
  <2>2. modules \in [DOMAIN modules -> Stages] /\ "executing" \in Stages
    BY DEF TableTypes, Stages
  <2>3. modules' \in [DOMAIN modules' -> Stages]
    BY <1>5, <2>2
  <2> QED
    BY <1>5, <2>1, <2>3 DEF TableTypes
<1>7. TargetTypes'
  BY DEF ImportStart, tables, applied, TargetTypes
<1>8. TimeTypes'
  <2>1. cum' = cum /\ self' = self /\ own' = own
    BY DEF ImportStart
  <2>2. timing' \in BOOLEAN
    BY Zenon DEF ImportStart, TimeTypes
  <2>3. overlapped' \in BOOLEAN
    <3>1. overlapped' = (overlapped \/ \E j \in Task \ {k} : Importing(j))
      BY DEF ImportStart
    <3> QED
      BY <3>1, Zenon
  <2>4. /\ cum' \in [DOMAIN modules' -> Int]
        /\ self' \in [DOMAIN modules' -> Int]
        /\ own' \in [DOMAIN modules' -> Int]
    BY <1>5, <2>1, Zenon DEF TimeTypes
  <2> QED
    BY <1>4, <2>2, <2>3, <2>4, Zenon DEF TimeTypes
<1>9. ClockTypes' /\ StackTypes' /\ LineTypes' /\ LiveTypes'
  BY DEF ImportStart, process, ClockTypes, StackTypes, LineTypes, LiveTypes
<1> QED
  BY <1>3, <1>6, <1>7, <1>8, <1>9

(* The end of a module's execution. *)
LEMMA ExecutedTypes ==
  ASSUME HookTypes, NEW k \in Task, NEW raised \in BOOLEAN, Executed(k, raised)
  PROVE  HookTypes'
<1> USE DEF HookTypes
<1> DEFINE f == Last(frames[k])
           m == f.name
           mine == {t \in pending : ModuleOf[t] = m}
           g == [kind |-> "patch", name |-> m, around |-> f.around]
<1>1. frames[k] \in Seq(Frame) /\ frames[k] # <<>>
  BY DEF Executed, FrameTypes
<1>2. f \in Frame /\ Front(frames[k]) \in Seq(Frame)
  BY <1>1, FrontIsShorter
<1>3. m \in Module /\ f.mine \in Nat /\ f.around \in Surroundings
  <2>1. f.kind = "import"
    BY DEF Executed
  <2> HIDE DEF f
  <2> QED
    BY <1>2, <2>1, FrameKinds
<1>4. m \in DOMAIN modules
  BY DEF Executed
<1>5. /\ frames' = [frames EXCEPT ![k] = Front(@)]
      \/ frames' = [frames EXCEPT ![k] = Append(Front(@), g)]
  BY DEF Executed
<1>6. g \in Frame
  <2> HIDE DEF f
  <2> QED
    BY <1>3 DEF Frame, PatchFrame
<1>7. FrameTypes'
  <2> HIDE DEF f, g
  <2>1. Append(Front(frames[k]), g) \in Seq(Frame)
    BY <1>2, <1>6
  <2> QED
    BY <1>2, <1>5, <2>1 DEF FrameTypes
<1>8. /\ DOMAIN modules' = DOMAIN modules
      /\ modules' \in [DOMAIN modules -> Stages]
  <2>1. \E s \in Stages : modules' = [modules EXCEPT ![m] = s]
    <3>1. CASE raised
      BY <3>1 DEF Executed, Stages
    <3>2. CASE ~ raised
      BY <3>2 DEF Executed, Stages
    <3> QED
      BY <3>1, <3>2
  <2> HIDE DEF m
  <2> QED
    BY <2>1 DEF TableTypes
<1>9. TableTypes'
  BY <1>8 DEF TableTypes, Executed
<1>10. TargetTypes'
  <2>1. todo' \subseteq todo \cup pending /\ pending' \subseteq pending
    BY DEF Executed
  <2> QED
    BY <2>1 DEF TargetTypes, Executed, applied
<1>11. /\ imports' \in Seq(Entry) /\ seq' \in Nat /\ LineTypes'
       /\ cum' \in [DOMAIN modules -> Int] /\ self' \in [DOMAIN modules -> Int]
  <2>1. CASE timing
    <3>1. OnEnd(k, m)
      BY <2>1 DEF Executed
    <3> HIDE DEF m
    <3> QED
      BY <1>1, <1>4, <3>1, OnEndTypes
  <2>2. CASE ~ timing
    <3>1. imports' = imports /\ cum' = cum /\ self' = self /\ seq' = seq /\ written' = written
      BY <2>2 DEF Executed
    <3>2. cum \in [DOMAIN modules -> Int] /\ self \in [DOMAIN modules -> Int] /\ imports \in Seq(Entry)
      BY DEF TimeTypes
    <3> QED
      BY <3>1, <3>2 DEF ClockTypes, LineTypes
  <2> QED
    BY <2>1, <2>2
<1>12. TimeTypes'
  <2>1. own' = [own EXCEPT ![m] = @ + f.mine]
    BY DEF Executed
  <2>2. own' \in [DOMAIN modules -> Int]
    <3>1. own \in [DOMAIN modules -> Int]
      BY DEF TimeTypes
    <3>2. f.mine \in Int /\ own[m] + f.mine \in Int
      <4>1. own[m] \in Int
        BY <1>4, <3>1
      <4> HIDE DEF m, f
      <4> QED
        BY <1>3, <4>1
    <3> HIDE DEF m, f
    <3> QED
      BY <2>1, <3>1, <3>2
  <2>3. timing' \in BOOLEAN /\ overlapped' \in BOOLEAN
    <3>1. timing' = timing /\ overlapped' = overlapped
      BY DEF Executed
    <3> QED
      BY <3>1, Zenon DEF TimeTypes
  <2> HIDE DEF m, f
  <2> QED
    BY <1>8, <1>11, <2>2, <2>3, Zenon DEF TimeTypes
<1>13. ClockTypes' /\ StackTypes' /\ LiveTypes'
  BY <1>11 DEF Executed, process, ClockTypes, StackTypes, LiveTypes
<1> QED
  BY <1>7, <1>9, <1>10, <1>11, <1>12, <1>13

(* What leaves the times of modules alone keeps their types. *)
LEMMA TimesUnchanged ==
  ASSUME TimeTypes, UNCHANGED <<timing, times, modules>>
  PROVE  TimeTypes'
<1>1. /\ timing' = timing /\ overlapped' = overlapped /\ imports' = imports
      /\ cum' = cum /\ self' = self /\ own' = own /\ modules' = modules
  BY DEF times
<1> QED
  BY <1>1, Zenon DEF TimeTypes

(* What an applied patch adds has its type. *)
LEMMA ApplyTypes ==
  ASSUME TargetTypes, NEW t \in Target, NEW s \in Statuses, Apply(t, s)
  PROVE  results' \subseteq Target \X Statuses /\ shown' \subseteq Target \X Statuses
<1>1. results' = results \cup {<<t, s>>} /\ shown' = shown \cup {<<t, s>>}
  BY DEF Apply
<1>2. <<t, s>> \in Target \X Statuses
  OBVIOUS
<1> QED
  BY <1>1, <1>2 DEF TargetTypes

(* One callback after a module's execution. *)
LEMMA RunCallbackTypes ==
  ASSUME HookTypes, NEW k \in Task, NEW t \in Target, RunCallback(k, t)
  PROVE  HookTypes'
<1> USE DEF HookTypes
<1>1. TargetTypes'
  <2>1. PICK s \in Statuses : Apply(t, s)
    BY DEF RunCallback
  <2>2. results' \subseteq Target \X Statuses /\ shown' \subseteq Target \X Statuses
    BY <2>1, ApplyTypes
  <2>3. /\ todo' \subseteq todo /\ declared' = declared /\ pending' = pending
        /\ unready' = unready /\ overtaken' = overtaken
    BY DEF RunCallback
  <2> QED
    BY <2>2, <2>3 DEF TargetTypes
<1>2. TimeTypes'
  BY TimesUnchanged DEF RunCallback
<1> QED
  BY <1>1, <1>2 DEF RunCallback, spanVars, process, ClockTypes, StackTypes, FrameTypes, LineTypes,
                    TableTypes, LiveTypes

(* The end of an import, after its callbacks. *)
LEMMA ImportEndsTypes ==
  ASSUME HookTypes, NEW k \in Task, ImportEnds(k)
  PROVE  HookTypes'
<1> USE DEF HookTypes
<1>1. FrameTypes'
  <2>1. frames[k] \in Seq(Frame) /\ frames[k] # <<>>
    BY DEF ImportEnds, FrameTypes
  <2>2. Front(frames[k]) \in Seq(Frame)
    BY <2>1, FrontIsShorter
  <2>3. frames' = [frames EXCEPT ![k] = Front(@)]
    BY DEF ImportEnds
  <2> QED
    BY <2>2, <2>3 DEF FrameTypes
<1>2. DOMAIN modules' = DOMAIN modules /\ modules' \in [DOMAIN modules -> Stages]
  <2>1. modules' = [modules EXCEPT ![Last(frames[k]).name] = "loaded"]
    BY DEF ImportEnds
  <2> QED
    BY <2>1 DEF TableTypes, Stages
<1>3. TableTypes' /\ TargetTypes'
  BY <1>2 DEF TableTypes, TargetTypes, ImportEnds, tables, applied
<1>4. TimeTypes'
  <2>1. UNCHANGED <<timing, times>>
    BY DEF ImportEnds
  <2>2. /\ timing' = timing /\ overlapped' = overlapped /\ imports' = imports
        /\ cum' = cum /\ self' = self /\ own' = own
    BY <2>1 DEF times
  <2> QED
    BY <1>2, <2>2, Zenon DEF TimeTypes
<1>5. ClockTypes' /\ StackTypes' /\ LineTypes' /\ LiveTypes'
  BY DEF ImportEnds, process, ClockTypes, StackTypes, LineTypes, LiveTypes
<1> QED
  BY <1>1, <1>3, <1>4, <1>5

(* The variables keep their types. *)
LEMMA HookTypesKept == HookTypes /\ [HookNext]_vars => HookTypes'
<1> SUFFICES ASSUME HookTypes, [HookNext]_vars PROVE HookTypes'
  OBVIOUS
<1> USE DEF HookTypes
<1>1. CASE UNCHANGED vars
  <2>1. TimeTypes'
    BY <1>1, TimesUnchanged DEF vars, hookVars, times
  <2> QED
    BY <1>1, <2>1 DEF vars, hookVars, spanVars, ClockTypes, StackTypes, FrameTypes, LineTypes,
                      TableTypes, TargetTypes, LiveTypes
<1>2. CASE StepEnds
  <2>1. TimeTypes'
    BY <1>2, TimesUnchanged DEF StepEnds
  <2>2. steps' \in Seq(SUBSET Target)
    <3>1. steps \in Seq(SUBSET Target) /\ steps # <<>> /\ steps' = Tail(steps)
      BY <1>2 DEF StepEnds, TableTypes
    <3> QED
      BY <3>1
  <2> QED
    BY <1>2, <2>1, <2>2 DEF StepEnds, spanVars, process, applied, ClockTypes, StackTypes, FrameTypes, LineTypes,
                      TableTypes, TargetTypes, LiveTypes
<1>3. CASE EmitDeclared
  <2>1. TimeTypes'
    BY <1>3, TimesUnchanged DEF EmitDeclared
  <2> QED
    BY <1>3, <2>1 DEF EmitDeclared, spanVars, process, applied, ClockTypes, StackTypes, FrameTypes, LineTypes,
                      TableTypes, TargetTypes, LiveTypes
<1>4. CASE Fork
  <2>1. TimeTypes'
    BY <1>4, TimesUnchanged DEF Fork
  <2>2. StackTypes' /\ FrameTypes'
    BY <1>4 DEF Fork, StackTypes, FrameTypes
  <2>3. LiveTypes'
    BY <1>4, HookAssumption DEF Fork, LiveTypes
  <2> QED
    BY <1>4, <2>1, <2>2, <2>3 DEF Fork, ClockTypes, LineTypes, TableTypes, TargetTypes
<1>5. CASE Tick
  <2>1. TimeTypes'
    BY <1>5, TimesUnchanged DEF Tick
  <2>2. FrameTypes'
    <3>1. \A k \in Task : frames[k] \in Seq(Frame)
      BY DEF FrameTypes
    <3>2. \A k \in Task : Spend(frames[k]) \in Seq(Frame)
      BY <3>1, SpendKeeps
    <3>3. frames' = [k \in Task |-> Spend(frames[k])]
      BY <1>5 DEF Tick
    <3> QED
      BY <3>2, <3>3 DEF FrameTypes
  <2> QED
    BY <1>5, <2>1, <2>2 DEF Tick, tables, applied, process, ClockTypes, StackTypes, LineTypes, TableTypes,
                            TargetTypes, LiveTypes
<1>6. ASSUME NEW t \in Target, Patch(t) PROVE HookTypes'
  <2>1. TimeTypes'
    BY <1>6, TimesUnchanged DEF Patch
  <2>2. TargetTypes'
    <3>1. results' \subseteq Target \X Statuses /\ shown' \subseteq Target \X Statuses
      <4>1. CASE modules[ModuleOf[t]] = "loaded"
        <5>1. PICK s \in Statuses : Apply(t, s)
          BY <1>6, <4>1 DEF Patch
        <5> QED
          BY <5>1, ApplyTypes
      <4>2. CASE modules[ModuleOf[t]] # "loaded"
        BY <1>6, <4>2 DEF Patch, applied, TargetTypes
      <4> QED
        BY <4>1, <4>2
    <3>2. /\ unready' \subseteq unready \cup {t} /\ declared' = declared \cup {t}
          /\ todo' = todo /\ pending' = pending /\ overtaken' = overtaken
      BY <1>6 DEF Patch
    <3> QED
      BY <3>1, <3>2 DEF TargetTypes
  <2>3. TableTypes'
    BY <1>6 DEF Patch, TableTypes
  <2> QED
    BY <1>6, <2>1, <2>2, <2>3 DEF Patch, spanVars, process, ClockTypes, StackTypes, FrameTypes,
                                  LineTypes, LiveTypes
<1>7. ASSUME NEW k \in Task, Begin(k) \/ Return(k) \/ Raise(k), UNCHANGED hookVars PROVE HookTypes'
  <2>1. ClockTypes' /\ StackTypes' /\ FrameTypes' /\ LineTypes'
    <3>1. CASE Begin(k)
      BY <3>1, BeginTypes
    <3>2. MinDur \in Nat /\ 0 \in Nat
      BY SpanAssumption
    <3>3. CASE End(k, MinDur)
      BY <3>2, <3>3, EndTypes
    <3>4. CASE End(k, 0)
      BY <3>2, <3>4, EndTypes
    <3> QED
      BY <1>7, <3>1, <3>3, <3>4 DEF Return, Raise
  <2>2. TimeTypes'
    BY <1>7, TimesUnchanged DEF hookVars, times
  <2>3. TableTypes' /\ TargetTypes' /\ LiveTypes'
    BY <1>7 DEF hookVars, TableTypes, TargetTypes, LiveTypes
  <2> QED
    BY <2>1, <2>2, <2>3
<1>8. live \subseteq Task
  BY DEF LiveTypes
<1>9. ASSUME NEW t \in Target, Register(t) PROVE HookTypes'
  <2>1. TimeTypes'
    BY <1>9, TimesUnchanged DEF Register
  <2>2. TargetTypes'
    <3>1. /\ unready' \subseteq unready /\ pending' = pending \cup {t}
          /\ overtaken' \subseteq overtaken \cup {t}
          /\ UNCHANGED <<todo, declared, results, shown>>
      BY <1>9 DEF Register, applied
    <3> QED
      BY <3>1 DEF TargetTypes
  <2> QED
    BY <1>9, <2>1, <2>2 DEF Register, spanVars, process, ClockTypes, StackTypes, FrameTypes,
                            LineTypes, TableTypes, LiveTypes
<1> QED
  BY <1>1, <1>2, <1>3, <1>4, <1>5, <1>6, <1>7, <1>8, <1>9, ImportStartTypes, ExecutedTypes,
     RunCallbackTypes, ImportEndsTypes DEF HookNext

----------------------------------------------------------------------------
(* The coverage of patches. *)

Resolved == {r[1] : r \in results}

(* Every declared target is in one place, and that place fits its module. *)
PlacesFit ==
  /\ pending \cap todo = {}
  /\ unready \cap (pending \cup todo) = {}
  /\ pending \cup todo \cup unready = declared \ Resolved
  /\ Resolved \subseteq declared
  /\ overtaken \subseteq pending
  /\ \A t \in declared : ModuleOf[t] \in DOMAIN modules
  /\ \A t \in pending \ overtaken : modules[ModuleOf[t]] \in {"absent", "executing"}
  /\ \A t \in overtaken : modules[ModuleOf[t]] \in {"loaded", "patching"}
  /\ \A t \in todo : modules[ModuleOf[t]] = "patching"
  /\ \A t \in Resolved : modules[ModuleOf[t]] \in {"loaded", "patching"}

ResultsUnique ==
  /\ \A q, r \in results : q[1] = r[1] => q = r
  /\ wrapped = {r[1] : r \in {x \in results : x[2] = "ok"}}

(* The file of the process that was installed shows all results, and its list
   is complete; nothing is being registered after that. *)
Announced ==
  /\ listed # None => listed = declared
  /\ shown \subseteq results
  /\ ~ forked => shown = results
  /\ forked => listed = None
  /\ Installed => steps = <<>>
  /\ unready # {} => steps # <<>>

CoverInv == PlacesFit /\ ResultsUnique /\ Announced

(* What an applied patch adds to the results, whatever its status. *)
LEMMA ApplyResolves ==
  ASSUME HookTypes, ResultsUnique, NEW t \in Target, t \notin Resolved,
         NEW s \in Statuses, Apply(t, s)
  PROVE  /\ Resolved' = Resolved \cup {t} /\ ResultsUnique'
         /\ shown \subseteq results => shown' \subseteq results'
         /\ shown = results => shown' = results'
<1>1. results' = results \cup {<<t, s>>} /\ shown' = shown \cup {<<t, s>>}
  BY DEF Apply
<1>2. \A r \in results : r[1] # t
  BY DEF Resolved
<1>3. <<t, s>>[1] = t /\ <<t, s>>[2] = s
  OBVIOUS
<1>4. Resolved' = Resolved \cup {t}
  BY <1>1, <1>3 DEF Resolved
<1>5. \A q, r \in results' : q[1] = r[1] => q = r
  BY <1>1, <1>2, <1>3 DEF ResultsUnique
<1>6. wrapped' = {r[1] : r \in {x \in results' : x[2] = "ok"}}
  <2>1. CASE s = "ok"
    BY <1>1, <1>3, <2>1 DEF Apply, ResultsUnique
  <2>2. CASE s # "ok"
    BY <1>1, <1>3, <2>2 DEF Apply, ResultsUnique
  <2> QED
    BY <2>1, <2>2
<1>7. shown \subseteq results => shown' \subseteq results'
  BY <1>1
<1>8. shown = results => shown' = results'
  BY <1>1
<1> QED
  BY <1>4, <1>5, <1>6, <1>7, <1>8 DEF ResultsUnique

(* What leaves the results alone. *)
LEMMA ResultsKept ==
  ASSUME ResultsUnique, UNCHANGED <<results, wrapped>>
  PROVE  Resolved' = Resolved /\ ResultsUnique'
BY DEF ResultsUnique, Resolved

(* At the start nothing is declared. *)
LEMMA CoverStarts == HookStart => CoverInv
<1> SUFFICES ASSUME NEW plan \in Seq(SUBSET Target), NEW mods \in SUBSET Module,
                    NEW early \in SUBSET Module, NEW tasks \in SUBSET Task,
                    NEW observe \in BOOLEAN, NEW used \in Nat,
                    HookInit(plan, early, observe, mods, tasks, used)
             PROVE  CoverInv
  BY DEF HookStart
<1>1. PlacesFit /\ ResultsUnique
  BY DEF HookInit, PlacesFit, Resolved, ResultsUnique
<1>2. Announced
  BY DEF HookInit, Announced, Installed
<1> QED
  BY <1>1, <1>2 DEF CoverInv

(* A target is patched at once only if its module is there, or else is about
   to be registered. *)
LEMMA PatchCovers ==
  ASSUME HookTypes, CoverInv, NEW t \in Target, Patch(t)
  PROVE  CoverInv'
<1> USE DEF CoverInv
<1>1. /\ unready = {} /\ steps # <<>> /\ ModuleOf[t] \in DOMAIN modules
      /\ declared' = declared \cup {t} /\ t \notin declared
      /\ todo' = todo /\ pending' = pending /\ overtaken' = overtaken /\ modules' = modules
      /\ steps' = steps /\ listed' = listed /\ forked' = forked
  BY DEF Patch, process
<1>2. t \notin Resolved /\ t \notin pending /\ t \notin todo
  BY <1>1 DEF PlacesFit
<1>3. listed = None /\ ~ Installed
  BY <1>1 DEF Announced, Installed
<1>4. CASE modules[ModuleOf[t]] = "loaded"
  <2>1. PICK s \in Statuses : Apply(t, s)
    BY <1>4 DEF Patch
  <2>2. unready' = unready
    BY <1>4 DEF Patch
  <2>3. /\ Resolved' = Resolved \cup {t} /\ ResultsUnique'
        /\ shown \subseteq results => shown' \subseteq results'
        /\ shown = results => shown' = results'
    BY <1>2, <2>1, ApplyResolves
  <2>4. PlacesFit'
    BY <1>1, <1>2, <1>4, <2>2, <2>3 DEF PlacesFit
  <2>5. Announced'
    BY <1>1, <1>3, <2>2, <2>3 DEF Announced, Installed
  <2> QED
    BY <2>3, <2>4, <2>5
<1>5. CASE modules[ModuleOf[t]] # "loaded"
  <2>1. unready' = {t} /\ UNCHANGED <<results, wrapped, shown>>
    BY <1>5 DEF Patch, applied
  <2>2. Resolved' = Resolved /\ ResultsUnique'
    BY <2>1, ResultsKept
  <2>3. PlacesFit'
    BY <1>1, <1>2, <2>1, <2>2 DEF PlacesFit
  <2>4. Announced'
    BY <1>1, <1>3, <2>1 DEF Announced, Installed
  <2> QED
    BY <2>2, <2>3, <2>4
<1> QED
  BY <1>4, <1>5

(* A target is entered in _pending; if its module has come meanwhile, it is
   overtaken. *)
LEMMA RegisterCovers ==
  ASSUME HookTypes, CoverInv, NEW t \in Target, Register(t)
  PROVE  CoverInv'
<1> USE DEF CoverInv
<1> DEFINE m == ModuleOf[t]
<1>1. /\ t \in unready /\ unready' = unready \ {t} /\ pending' = pending \cup {t}
      /\ overtaken' = IF modules[m] \in {"patching", "loaded"} THEN overtaken \cup {t} ELSE overtaken
      /\ todo' = todo /\ declared' = declared /\ modules' = modules
      /\ steps' = steps /\ listed' = listed /\ forked' = forked
      /\ UNCHANGED <<results, wrapped, shown>>
  BY DEF Register, process, applied
<1>2. Resolved' = Resolved /\ ResultsUnique'
  BY <1>1, ResultsKept
<1>3. Announced'
  BY <1>1 DEF Announced, Installed
<1>4. m \in DOMAIN modules /\ t \in declared /\ t \notin Resolved /\ t \notin pending /\ t \notin todo
  BY <1>1 DEF PlacesFit
<1>5. modules[m] \in {"absent", "executing", "patching", "loaded"}
  BY <1>4 DEF HookTypes, TableTypes, Stages
<1>6. PlacesFit'
  <2>2. /\ pending' \cap todo' = {} /\ unready' \cap (pending' \cup todo') = {}
        /\ overtaken' \subseteq pending'
        /\ Resolved' \subseteq declared'
        /\ \A u \in declared' : ModuleOf[u] \in DOMAIN modules'
    BY <1>1, <1>2, <1>4 DEF PlacesFit
  <2>3. \A u \in pending' \ overtaken' : modules'[ModuleOf[u]] \in {"absent", "executing"}
    BY <1>1, <1>5 DEF PlacesFit
  <2>4. \A u \in overtaken' : modules'[ModuleOf[u]] \in {"loaded", "patching"}
    BY <1>1, <1>5 DEF PlacesFit
  <2>5. pending' \cup todo' \cup unready' = declared' \ Resolved'
    BY <1>1, <1>2, <1>4 DEF PlacesFit
  <2> QED
    BY <1>1, <1>2, <2>2, <2>3, <2>4, <2>5 DEF PlacesFit
<1> QED
  BY <1>2, <1>3, <1>6

(* A module begins to execute. *)
LEMMA ImportStartCovers ==
  ASSUME HookTypes, CoverInv, NEW k \in Task, NEW m \in Module, ImportStart(k, m)
  PROVE  CoverInv'
<1> USE DEF CoverInv
<1>1. /\ m \in DOMAIN modules /\ modules[m] = "absent"
      /\ modules' = [modules EXCEPT ![m] = "executing"]
      /\ UNCHANGED <<steps, declared, unready, pending, wrapped, results, shown, listed, todo,
                     overtaken, forked>>
  BY DEF ImportStart, tables, applied, process
<1>2. Resolved' = Resolved /\ ResultsUnique'
  BY <1>1, ResultsKept
<1>3. PlacesFit'
  BY <1>1, <1>2 DEF PlacesFit
<1>4. Announced'
  BY <1>1 DEF Announced, Installed
<1> QED
  BY <1>2, <1>3, <1>4

(* A module that has executed hands its targets to its callbacks; one that
   raised keeps them waiting for its next attempt. *)
LEMMA ExecutedCovers ==
  ASSUME HookTypes, CoverInv, NEW k \in Task, NEW raised \in BOOLEAN, Executed(k, raised)
  PROVE  CoverInv'
<1> USE DEF CoverInv
<1> DEFINE m == Last(frames[k]).name
           mine == {t \in pending : ModuleOf[t] = m}
<1>1. /\ m \in DOMAIN modules /\ modules[m] = "executing"
      /\ UNCHANGED <<steps, declared, unready, overtaken, wrapped, results, shown, listed, forked>>
  BY DEF Executed, applied, process
<1>2. Resolved' = Resolved /\ ResultsUnique' /\ Announced'
  BY <1>1, ResultsKept DEF Announced, Installed
<1>3. CASE raised
  <2>1. modules' = [modules EXCEPT ![m] = "absent"] /\ todo' = todo /\ pending' = pending
    BY <1>3 DEF Executed
  <2>2. PlacesFit'
    <3> HIDE DEF m
    <3> QED
      BY <1>1, <1>2, <2>1 DEF PlacesFit
  <2> QED
    BY <1>2, <2>2
<1>4. CASE ~ raised
  <2>1. /\ modules' = [modules EXCEPT ![m] = "patching"]
        /\ todo' = todo \cup mine /\ pending' = pending \ mine
    BY <1>4 DEF Executed
  <2>2. \A t \in pending : t \in mine <=> ModuleOf[t] = m
    OBVIOUS
  <2>3. mine \subseteq pending
    OBVIOUS
  <2> HIDE DEF m, mine
  <2>4. \A t \in overtaken : t \notin mine /\ ModuleOf[t] # m
    BY <1>1, <2>2 DEF PlacesFit
  <2>5. DOMAIN modules' = DOMAIN modules
    BY <2>1
  <2>6. \A n \in DOMAIN modules : modules'[n] = IF n = m THEN "patching" ELSE modules[n]
    BY <2>1
  <2>7. /\ pending' \cap todo' = {}
        /\ unready' \cap (pending' \cup todo') = {}
        /\ pending' \cup todo' \cup unready' = declared' \ Resolved'
        /\ Resolved' \subseteq declared'
    BY <1>1, <1>2, <2>1, <2>3 DEF PlacesFit
  <2>8. overtaken' \subseteq pending'
    BY <1>1, <2>1, <2>4 DEF PlacesFit
  <2>9. \A t \in declared' : ModuleOf[t] \in DOMAIN modules'
    BY <1>1, <2>5 DEF PlacesFit
  <2>10. \A t \in declared : ModuleOf[t] \in DOMAIN modules
    BY DEF PlacesFit
  <2>11. \A t \in pending' \ overtaken' : modules'[ModuleOf[t]] \in {"absent", "executing"}
    BY <1>1, <2>1, <2>2, <2>6, <2>10 DEF PlacesFit
  <2>12. \A t \in overtaken' : modules'[ModuleOf[t]] \in {"loaded", "patching"}
    BY <1>1, <2>4, <2>6, <2>10 DEF PlacesFit
  <2>13. \A t \in todo' : modules'[ModuleOf[t]] = "patching"
    BY <1>1, <2>1, <2>2, <2>3, <2>6, <2>10 DEF PlacesFit
  <2>14. \A t \in Resolved' : modules'[ModuleOf[t]] \in {"loaded", "patching"}
    BY <1>1, <1>2, <2>6, <2>10 DEF PlacesFit
  <2>15. PlacesFit'
    BY <2>7, <2>8, <2>9, <2>11, <2>12, <2>13, <2>14 DEF PlacesFit
  <2> QED
    BY <1>2, <2>15
<1> QED
  BY <1>3, <1>4

(* A callback resolves its target. *)
LEMMA RunCallbackCovers ==
  ASSUME HookTypes, CoverInv, NEW k \in Task, NEW t \in Target, RunCallback(k, t)
  PROVE  CoverInv'
<1> USE DEF CoverInv
<1>1. /\ t \in todo /\ todo' = todo \ {t}
      /\ UNCHANGED <<steps, modules, declared, unready, pending, overtaken, listed, forked>>
  BY DEF RunCallback, process
<1>2. PICK s \in Statuses : Apply(t, s)
  BY DEF RunCallback
<1>3. t \notin Resolved /\ t \notin pending /\ t \in declared /\ modules[ModuleOf[t]] = "patching"
  BY <1>1 DEF PlacesFit
<1>4. /\ Resolved' = Resolved \cup {t} /\ ResultsUnique'
      /\ shown \subseteq results => shown' \subseteq results'
      /\ shown = results => shown' = results'
  BY <1>2, <1>3, ApplyResolves
<1>5. Announced'
  BY <1>1, <1>4 DEF Announced, Installed
<1>6. PlacesFit'
  BY <1>1, <1>3, <1>4 DEF PlacesFit
<1> QED
  BY <1>4, <1>5, <1>6

(* The last one of a module has run. *)
LEMMA ImportEndsCovers ==
  ASSUME HookTypes, CoverInv, NEW k \in Task, ImportEnds(k)
  PROVE  CoverInv'
<1> USE DEF CoverInv
<1> DEFINE m == Last(frames[k]).name
<1>1. /\ m \in DOMAIN modules /\ modules[m] = "patching" /\ \A t \in todo : ModuleOf[t] # m
      /\ modules' = [modules EXCEPT ![m] = "loaded"]
      /\ UNCHANGED <<steps, declared, unready, pending, wrapped, results, shown, listed, todo,
                     overtaken, forked>>
  BY DEF ImportEnds, tables, applied, process
<1>2. Resolved' = Resolved /\ ResultsUnique'
  BY <1>1, ResultsKept
<1> HIDE DEF m
<1>3. PlacesFit'
  BY <1>1, <1>2 DEF PlacesFit
<1>4. Announced'
  BY <1>1 DEF Announced, Installed
<1> QED
  BY <1>2, <1>3, <1>4

(* The coverage of patches is an invariant. *)
LEMMA CoverKept == HookTypes /\ CoverInv /\ [HookNext]_vars => CoverInv'
<1> SUFFICES ASSUME HookTypes, CoverInv, [HookNext]_vars PROVE CoverInv'
  OBVIOUS
<1> USE DEF CoverInv
<1>1. ASSUME UNCHANGED <<tables, modules, forked>> PROVE CoverInv'
  <2>1. UNCHANGED <<steps, declared, unready, pending, wrapped, results, shown, listed, todo,
                    overtaken, modules, forked>>
    BY <1>1 DEF tables, applied
  <2> QED
    BY <2>1 DEF PlacesFit, Resolved, ResultsUnique, Announced, Installed
<1>2. CASE UNCHANGED vars
  BY <1>1, <1>2 DEF vars, hookVars, tables, applied
<1>3. CASE StepEnds
  <2>1. /\ steps # <<>> /\ unready = {}
        /\ UNCHANGED <<declared, unready, pending, overtaken, wrapped, results, shown, listed, todo,
                       modules, forked>>
    BY <1>3 DEF StepEnds, applied, process
  <2>2. ~ Installed
    BY <2>1 DEF Announced
  <2>3. PlacesFit' /\ ResultsUnique'
    BY <2>1 DEF PlacesFit, Resolved, ResultsUnique
  <2>4. Announced'
    BY <2>1, <2>2 DEF Announced, Installed
  <2> QED
    BY <2>3, <2>4
<1>4. CASE EmitDeclared
  <2>1. /\ steps = <<>> /\ listed' = declared /\ ~ Installed
        /\ UNCHANGED <<steps, declared, unready, pending, overtaken, wrapped, results, shown, todo,
                       modules, forked>>
    BY <1>4 DEF EmitDeclared, applied, process
  <2>2. PlacesFit' /\ ResultsUnique'
    BY <2>1 DEF PlacesFit, Resolved, ResultsUnique
  <2>3. Announced'
    BY <2>1 DEF Announced, Installed
  <2> QED
    BY <2>2, <2>3
<1>5. CASE Fork
  <2>1. /\ Installed /\ forked' = TRUE /\ listed' = None /\ shown' = {}
        /\ UNCHANGED <<steps, declared, unready, pending, overtaken, wrapped, results, todo, modules>>
    BY <1>5 DEF Fork
  <2>2. PlacesFit' /\ ResultsUnique'
    BY <2>1 DEF PlacesFit, Resolved, ResultsUnique
  <2>3. Announced'
    BY <2>1 DEF Announced, Installed
  <2> QED
    BY <2>2, <2>3
<1>6. CASE Tick
  BY <1>1, <1>6 DEF Tick, process
<1>7. ASSUME UNCHANGED hookVars PROVE CoverInv'
  BY <1>1, <1>7 DEF hookVars, tables, applied
<1>8. live \subseteq Task
  BY DEF HookTypes, LiveTypes
<1> QED
  BY <1>2, <1>3, <1>4, <1>5, <1>6, <1>7, <1>8, PatchCovers, RegisterCovers, ImportStartCovers,
     ExecutedCovers, RunCallbackCovers, ImportEndsCovers DEF HookNext

(***************************************************************************)
(* For any plan of patches, modules, tasks and clock: after the probe is   *)
(* installed, what the trace shows as declared and not resolved is what    *)
(* the process itself would call never imported; each target is resolved   *)
(* once, no sooner than its module has been executed, and no later than it *)
(* is loaded unless the sampler's import has overtaken its registration;   *)
(* and a patch that is reported as applied is (cs_patch.py, emit_declared, *)
(* _apply, after_import and _run_callbacks).                               *)
(***************************************************************************)
THEOREM CoverageIsKnown == HookSpec => []CoverageFromTrace
<1>1. HookStart => HookTypes /\ CoverInv
  BY HookStartsTyped, CoverStarts
<1>2. HookTypes /\ CoverInv /\ [HookNext]_vars => (HookTypes /\ CoverInv)'
  BY HookTypesKept, CoverKept
<1>3. HookTypes /\ CoverInv => CoverageFromTrace
  <2> SUFFICES ASSUME HookTypes, CoverInv PROVE CoverageFromTrace
    OBVIOUS
  <2> USE DEF CoverInv
  <2>1. listed # None => listed = declared /\ shown = results
    BY DEF Announced
  <2>2. Installed => declared \ Resolved = pending \cup todo
    BY DEF Announced, PlacesFit
  <2>3. ASSUME NEW t \in declared
        PROVE  /\ modules[ModuleOf[t]] \in {"absent", "executing"} => t \notin Resolved
               /\ modules[ModuleOf[t]] = "loaded" => t \in Resolved \cup unready \cup overtaken
    <3>1. t \notin Resolved => t \in pending \cup todo \cup unready
      BY DEF PlacesFit
    <3> QED
      BY <3>1 DEF PlacesFit
  <2>4. overtaken \cap Resolved = {}
    BY DEF PlacesFit
  <2>5. shown \subseteq results
    BY DEF Announced
  <2>6. listed # None => listed \ {r[1] : r \in shown} = declared \ Resolved
    BY <2>1 DEF Resolved
  <2> DEFINE resolved == {r[1] : r \in results}
  <2>7. resolved = Resolved
    BY DEF Resolved
  <2> HIDE DEF resolved
  <2>8. /\ listed # None => listed \ {r[1] : r \in shown} = declared \ resolved
        /\ Installed => declared \ resolved = pending \cup todo
        /\ \A t \in declared :
             /\ modules[ModuleOf[t]] \in {"absent", "executing"} => t \notin resolved
             /\ modules[ModuleOf[t]] = "loaded" => t \in resolved \cup unready \cup overtaken
        /\ overtaken \cap resolved = {}
    BY <2>2, <2>3, <2>4, <2>6, <2>7
  <2> USE DEF resolved
  <2> QED
    BY <2>5, <2>8 DEF CoverageFromTrace, ResultsUnique
<1> QED
  BY <1>1, <1>2, <1>3, PTL DEF HookSpec

----------------------------------------------------------------------------
(* The nesting of spans on a thread with one task. *)

(* What is around something that happens in frame f. *)
Within(f) == IF f.kind = "call" THEN [caller |-> f.tok.id, calls |-> f.around.calls + 1] ELSE f.around

Nobody == [caller |-> 0, calls |-> 0]
TopId(st) == IF st = <<>> THEN 0 ELSE Last(st).id

(* Frame i knows what is around it, and each call's token is on the stack at
   the call's depth. *)
FrameFits(f, st) ==
  /\ f.around.calls <= Len(st)
  /\ f.around.calls = 0 => f.around.caller = 0
  /\ f.around.calls # 0 => f.around.caller = st[f.around.calls].id
  /\ f.kind = "call" => /\ f.around.calls + 1 <= Len(st)
                        /\ st[f.around.calls + 1] = f.tok
                        /\ f.tok.parent = f.around.caller

NestedIn(fs, st) ==
  /\ fs = <<>> => st = <<>>
  /\ fs # <<>> => /\ Len(st) = Within(fs[Len(fs)]).calls
                  /\ fs[1].around = Nobody
  /\ \A i \in 1 .. Len(fs) - 1 : fs[i + 1].around = Within(fs[i])
  /\ \A i, j \in 1 .. Len(fs) : i < j => Within(fs[i]).calls <= fs[j].around.calls
  /\ \A i \in 1 .. Len(fs) : FrameFits(fs[i], st)

(* What is around the next frame of nested frames is the top of their stack. *)
LEMMA NestedTop ==
  ASSUME NEW fs \in Seq(Frame), NEW st \in Seq(Token), NestedIn(fs, st), fs # <<>>
  PROVE  /\ Within(fs[Len(fs)]) \in Surroundings
         /\ Within(fs[Len(fs)]).calls = Len(st)
         /\ Within(fs[Len(fs)]).caller = TopId(st)
<1> DEFINE f == fs[Len(fs)]
<1>1. f \in Frame /\ Len(fs) \in 1 .. Len(fs)
  OBVIOUS
<1>2. Len(st) = Within(f).calls /\ FrameFits(f, st)
  BY <1>1 DEF NestedIn
<1>3. st # <<>> => Last(st) = st[Len(st)]
  BY DEF Last
<1>4. Len(st) \in Nat /\ (st = <<>> <=> Len(st) = 0)
  OBVIOUS
<1> HIDE DEF f
<1>5. CASE f.kind = "call"
  <2>1. f.tok \in Token /\ f.around \in Surroundings
    BY <1>1, <1>5, FrameKinds
  <2>2. Within(f) = [caller |-> f.tok.id, calls |-> f.around.calls + 1]
    BY <1>5 DEF Within
  <2>3. f.tok.id \in Nat /\ f.around.calls \in Nat
    BY <2>1 DEF Token, Surroundings
  <2>4. st[f.around.calls + 1] = f.tok /\ Len(st) = f.around.calls + 1
    BY <1>2, <1>5, <2>2 DEF FrameFits
  <2>5. TopId(st) = f.tok.id
    BY <1>3, <1>4, <2>3, <2>4 DEF TopId
  <2> QED
    BY <1>2, <2>2, <2>3, <2>5 DEF Surroundings, f
<1>6. CASE f.kind # "call"
  <2>1. f.around \in Surroundings /\ Within(f) = f.around
    BY <1>1, <1>6, FrameKinds DEF Within
  <2>2. Len(st) = f.around.calls
    BY <1>2, <2>1
  <2>3. f.around.caller = TopId(st)
    BY <1>2, <1>3, <1>4, <2>2 DEF FrameFits, TopId
  <2> QED
    BY <2>1, <2>2, <2>3 DEF f
<1> QED
  BY <1>5, <1>6

(* A frame's depth is no less than that of what is around it. *)
LEMMA WithinGrows ==
  ASSUME NEW f \in Frame
  PROVE  /\ Within(f).calls \in Nat /\ f.around.calls \in Nat
         /\ f.around.calls <= Within(f).calls
         /\ f.kind = "call" => Within(f).calls = f.around.calls + 1
         /\ f.kind # "call" => Within(f) = f.around
<1>1. f.around.calls \in Nat
  BY FrameKinds DEF Surroundings
<1> QED
  BY <1>1 DEF Within

(* Nested frames stay nested in a stack that grows. *)
LEMMA FitsLongerStack ==
  ASSUME NEW f \in Frame, NEW st \in Seq(Token), NEW tok \in Token, FrameFits(f, st)
  PROVE  FrameFits(f, Append(st, tok))
<1>1. /\ Len(Append(st, tok)) = Len(st) + 1
      /\ \A i \in 1 .. Len(st) : Append(st, tok)[i] = st[i]
      /\ Len(st) \in Nat
  OBVIOUS
<1>2. f.around.calls \in Nat
  BY WithinGrows
<1> QED
  BY <1>1, <1>2 DEF FrameFits

(* A frame whose depth is within a part of the stack fits that part. *)
LEMMA FitsShorterStack ==
  ASSUME NEW f \in Frame, NEW st \in Seq(Token), NEW low \in Seq(Token), FrameFits(f, st),
         Len(low) <= Len(st), \A i \in 1 .. Len(low) : low[i] = st[i],
         Within(f).calls <= Len(low)
  PROVE  FrameFits(f, low)
<1>1. /\ f.around.calls \in Nat /\ f.around.calls <= Within(f).calls
      /\ f.kind = "call" => Within(f).calls = f.around.calls + 1
  BY WithinGrows
<1>2. Len(low) \in Nat
  OBVIOUS
<1>3. Within(f).calls \in Nat
  BY WithinGrows
<1> QED
  BY <1>1, <1>2, <1>3 DEF FrameFits

(* A frame that fits at the end of nested frames is nested. *)
LEMMA NestedAppend ==
  ASSUME NEW fs \in Seq(Frame), NEW st \in Seq(Token), NEW to \in Seq(Token), NEW f \in Frame,
         NestedIn(fs, st),
         f.around = IF fs = <<>> THEN Nobody ELSE Within(fs[Len(fs)]),
         \A i \in 1 .. Len(fs) : FrameFits(fs[i], to),
         FrameFits(f, to), Len(to) = Within(f).calls
  PROVE  NestedIn(Append(fs, f), to)
<1> DEFINE gs == Append(fs, f)
<1>1. /\ gs \in Seq(Frame) /\ gs # <<>> /\ Len(gs) = Len(fs) + 1 /\ gs[Len(fs) + 1] = f
      /\ \A i \in 1 .. Len(fs) : gs[i] = fs[i]
      /\ Len(fs) \in Nat
  <2>1. Len(fs) \in Nat
    OBVIOUS
  <2> QED
    BY <2>1, AppendProperties
<1>2. \A i \in 1 .. Len(fs) : fs[i] \in Frame
  OBVIOUS
<1> HIDE DEF gs
<1>3. Len(to) = Within(gs[Len(gs)]).calls
  BY <1>1
<1>4. gs[1].around = Nobody
  <2>1. CASE fs = <<>>
    BY <1>1, <2>1
  <2>2. CASE fs # <<>>
    <3>1. 1 \in 1 .. Len(fs)
      BY <2>2
    <3> QED
      BY <1>1, <2>2, <3>1 DEF NestedIn
  <2> QED
    BY <2>1, <2>2
<1>5. \A i \in 1 .. Len(gs) - 1 : gs[i + 1].around = Within(gs[i])
  <2> SUFFICES ASSUME NEW i \in 1 .. Len(gs) - 1 PROVE gs[i + 1].around = Within(gs[i])
    OBVIOUS
  <2>1. i \in 1 .. Len(fs)
    BY <1>1
  <2>2. CASE i = Len(fs)
    BY <1>1, <2>1, <2>2
  <2>3. CASE i # Len(fs)
    <3>1. i \in 1 .. Len(fs) - 1 /\ i + 1 \in 1 .. Len(fs)
      BY <1>1, <2>1, <2>3
    <3> QED
      BY <1>1, <2>1, <3>1 DEF NestedIn
  <2> QED
    BY <2>2, <2>3
<1>6. \A i, j \in 1 .. Len(gs) : i < j => Within(gs[i]).calls <= gs[j].around.calls
  <2> SUFFICES ASSUME NEW i \in 1 .. Len(gs), NEW j \in 1 .. Len(gs), i < j
               PROVE  Within(gs[i]).calls <= gs[j].around.calls
    OBVIOUS
  <2>1. i \in 1 .. Len(fs)
    BY <1>1
  <2>2. CASE j \in 1 .. Len(fs)
    BY <1>1, <2>1, <2>2 DEF NestedIn
  <2>3. CASE j = Len(fs) + 1
    <3>1. Len(fs) \in 1 .. Len(fs) /\ fs # <<>>
      BY <1>1, <2>1
    <3>2. f.around = Within(fs[Len(fs)])
      BY <3>1
    <3>3. CASE i = Len(fs)
      <4>1. Within(fs[i]).calls \in Nat
        BY <1>2, <2>1, WithinGrows
      <4> QED
        BY <1>1, <2>1, <2>3, <3>2, <3>3, <4>1
    <3>4. CASE i # Len(fs)
      <4>1. i < Len(fs)
        BY <1>1, <2>1, <3>4
      <4>2. Within(fs[i]).calls <= fs[Len(fs)].around.calls
        BY <2>1, <3>1, <4>1 DEF NestedIn
      <4>3. fs[Len(fs)].around.calls <= Within(fs[Len(fs)]).calls
        BY <1>2, <3>1, WithinGrows
      <4>4. /\ Within(fs[i]).calls \in Nat /\ fs[Len(fs)].around.calls \in Nat
            /\ Within(fs[Len(fs)]).calls \in Nat
        BY <1>2, <2>1, <3>1, WithinGrows
      <4> QED
        BY <1>1, <2>1, <2>3, <3>2, <4>2, <4>3, <4>4
    <3> QED
      BY <3>3, <3>4
  <2> QED
    BY <1>1, <2>2, <2>3
<1>7. \A i \in 1 .. Len(gs) : FrameFits(gs[i], to)
  BY <1>1, SMTT(20)
<1>8. NestedIn(gs, to)
  BY <1>1, <1>3, <1>4, <1>5, <1>6, <1>7 DEF NestedIn
<1> QED
  BY <1>8 DEF gs

(* Nested frames without the last one are nested, in the stack below it. *)
LEMMA NestedFront ==
  ASSUME NEW fs \in Seq(Frame), NEW st \in Seq(Token), NestedIn(fs, st), fs # <<>>,
         NEW low \in Seq(Token), Len(low) = fs[Len(fs)].around.calls,
         Len(low) <= Len(st), \A i \in 1 .. Len(low) : low[i] = st[i]
  PROVE  NestedIn(Front(fs), low)
<1> DEFINE gs == Front(fs)
<1>1. /\ gs \in Seq(Frame) /\ Len(gs) = Len(fs) - 1 /\ Len(fs) \in Nat \ {0}
      /\ \A i \in 1 .. Len(fs) - 1 : gs[i] = fs[i]
  BY FrontIsShorter
<1>2. \A i \in 1 .. Len(fs) : fs[i] \in Frame
  OBVIOUS
<1>3. Len(fs) \in 1 .. Len(fs) /\ Len(gs) \in Nat
  BY <1>1
<1> HIDE DEF gs
<1>4. gs = <<>> => low = <<>>
  <2> SUFFICES ASSUME gs = <<>> PROVE low = <<>>
    OBVIOUS
  <2>1. Len(fs) = 1
    BY <1>1
  <2>2. fs[1].around = Nobody
    BY DEF NestedIn
  <2>3. Len(low) = 0
    BY <2>1, <2>2 DEF Nobody
  <2> QED
    BY <2>3
<1>5. gs # <<>> => Len(low) = Within(gs[Len(gs)]).calls /\ gs[1].around = Nobody
  <2> SUFFICES ASSUME gs # <<>> PROVE Len(low) = Within(gs[Len(gs)]).calls /\ gs[1].around = Nobody
    OBVIOUS
  <2>1. Len(gs) \in 1 .. Len(fs) - 1 /\ 1 \in 1 .. Len(fs) - 1 /\ Len(gs) + 1 = Len(fs)
    BY <1>1, <1>3
  <2>2. fs[Len(gs) + 1].around = Within(fs[Len(gs)])
    BY <2>1 DEF NestedIn
  <2>3. fs[1].around = Nobody
    BY DEF NestedIn
  <2> QED
    BY <1>1, <2>1, <2>2, <2>3
<1>6. \A i \in 1 .. Len(gs) - 1 : gs[i + 1].around = Within(gs[i])
  <2> SUFFICES ASSUME NEW i \in 1 .. Len(gs) - 1 PROVE gs[i + 1].around = Within(gs[i])
    OBVIOUS
  <2>1. i \in 1 .. Len(fs) - 1 /\ i + 1 \in 1 .. Len(fs) - 1
    BY <1>1
  <2> QED
    BY <1>1, <2>1 DEF NestedIn
<1>7. \A i, j \in 1 .. Len(gs) : i < j => Within(gs[i]).calls <= gs[j].around.calls
  <2> SUFFICES ASSUME NEW i \in 1 .. Len(gs), NEW j \in 1 .. Len(gs), i < j
               PROVE  Within(gs[i]).calls <= gs[j].around.calls
    OBVIOUS
  <2>1. /\ i \in 1 .. Len(fs) - 1 /\ j \in 1 .. Len(fs) - 1
        /\ i \in 1 .. Len(fs) /\ j \in 1 .. Len(fs)
    BY <1>1
  <2> QED
    BY <1>1, <2>1 DEF NestedIn
<1>8. \A i \in 1 .. Len(gs) : FrameFits(gs[i], low)
  <2> SUFFICES ASSUME NEW i \in 1 .. Len(gs) PROVE FrameFits(gs[i], low)
    OBVIOUS
  <2>1. i \in 1 .. Len(fs) - 1 /\ i \in 1 .. Len(fs) /\ i < Len(fs) /\ gs[i] = fs[i]
    BY <1>1
  <2>2. Within(fs[i]).calls <= fs[Len(fs)].around.calls
    BY <1>3, <2>1 DEF NestedIn
  <2>3. FrameFits(fs[i], st)
    BY <2>1 DEF NestedIn
  <2>4. FrameFits(fs[i], low)
    BY <1>2, <2>1, <2>2, <2>3, FitsShorterStack
  <2> QED
    BY <2>1, <2>4
<1>9. NestedIn(gs, low)
  BY <1>4, <1>5, <1>6, <1>7, <1>8 DEF NestedIn
<1> QED
  BY <1>9 DEF gs

(* What is around the frame that a task with nested frames enters next. *)
LEMMA NextSurroundings ==
  ASSUME NEW fs \in Seq(Frame), NEW st \in Seq(Token), NestedIn(fs, st),
         NEW around, around = IF fs = <<>> THEN Nobody ELSE Within(fs[Len(fs)])
  PROVE  /\ around \in Surroundings
         /\ around.calls = Len(st) /\ around.caller = TopId(st)
         /\ Len(st) = 0 => TopId(st) = 0
         /\ Len(st) # 0 => TopId(st) = st[Len(st)].id
<1>1. Len(st) = 0 => TopId(st) = 0
  BY DEF TopId
<1>2. Len(st) # 0 => TopId(st) = st[Len(st)].id
  BY DEF TopId, Last
<1>3. CASE fs = <<>>
  <2>1. st = <<>> /\ around = Nobody
    BY <1>3 DEF NestedIn
  <2>2. TopId(st) = 0 /\ Len(st) = 0
    BY <2>1 DEF TopId
  <2> QED
    BY <1>1, <1>2, <2>1, <2>2 DEF Nobody, Surroundings
<1>4. CASE fs # <<>>
  BY <1>1, <1>2, <1>4, NestedTop
<1> QED
  BY <1>3, <1>4

(* A call that begins is nested. *)
LEMMA NestedBegin ==
  ASSUME NEW fs \in Seq(Frame), NEW st \in Seq(Token), NestedIn(fs, st),
         NEW f \in Frame, f.kind = "call", f.tok.parent = TopId(st),
         f.around = IF fs = <<>> THEN Nobody ELSE Within(fs[Len(fs)])
  PROVE  NestedIn(Append(fs, f), Append(st, f.tok))
<1> DEFINE to == Append(st, f.tok)
<1>1. f.tok \in Token
  BY FrameKinds
<1>2. /\ to \in Seq(Token) /\ Len(to) = Len(st) + 1 /\ to[Len(st) + 1] = f.tok
      /\ \A i \in 1 .. Len(st) : to[i] = st[i]
      /\ Len(st) \in Nat
  <2>1. Len(st) \in Nat
    OBVIOUS
  <2> QED
    BY <1>1, <2>1, AppendProperties
<1>3. /\ f.around.calls = Len(st) /\ f.around.caller = TopId(st)
      /\ Len(st) = 0 => TopId(st) = 0
      /\ Len(st) # 0 => TopId(st) = st[Len(st)].id
  BY NextSurroundings
<1>4. \A i \in 1 .. Len(fs) : FrameFits(fs[i], to)
  <2> SUFFICES ASSUME NEW i \in 1 .. Len(fs) PROVE FrameFits(fs[i], to)
    OBVIOUS
  <2>1. fs[i] \in Frame /\ FrameFits(fs[i], st)
    BY DEF NestedIn
  <2> QED
    BY <1>1, <2>1, FitsLongerStack
<1>5. FrameFits(f, to)
  <2> HIDE DEF to
  <2>1. Len(st) # 0 => to[Len(st)] = st[Len(st)]
    BY <1>2
  <2> QED
    BY <1>2, <1>3, <2>1 DEF FrameFits
<1>6. Within(f).calls = Len(st) + 1
  BY <1>3, WithinGrows
<1> HIDE DEF to
<1>7. NestedIn(Append(fs, f), to)
  BY <1>2, <1>4, <1>5, <1>6, NestedAppend
<1> QED
  BY <1>7 DEF to

(* An import or a patch that begins is nested. *)
LEMMA NestedEnter ==
  ASSUME NEW fs \in Seq(Frame), NEW st \in Seq(Token), NestedIn(fs, st),
         NEW f \in Frame, f.kind # "call",
         f.around = IF fs = <<>> THEN Nobody ELSE Within(fs[Len(fs)])
  PROVE  NestedIn(Append(fs, f), st)
<1>1. /\ f.around.calls = Len(st) /\ f.around.caller = TopId(st)
      /\ Len(st) = 0 => TopId(st) = 0
      /\ Len(st) # 0 => TopId(st) = st[Len(st)].id
  BY NextSurroundings
<1>2. \A i \in 1 .. Len(fs) : FrameFits(fs[i], st)
  BY DEF NestedIn
<1>3. Len(st) \in Nat
  OBVIOUS
<1>4. FrameFits(f, st)
  BY <1>1, <1>3 DEF FrameFits
<1>5. Within(f).calls = Len(st)
  BY <1>1, WithinGrows
<1> QED
  BY <1>2, <1>4, <1>5, NestedAppend

(* An import or a patch that ends leaves what is around it. *)
LEMMA NestedLeave ==
  ASSUME NEW fs \in Seq(Frame), NEW st \in Seq(Token), NestedIn(fs, st), fs # <<>>,
         Last(fs).kind # "call"
  PROVE  /\ NestedIn(Front(fs), st)
         /\ Last(fs).around = IF Front(fs) = <<>> THEN Nobody ELSE Within(Front(fs)[Len(Front(fs))])
<1>1. /\ Front(fs) \in Seq(Frame) /\ Len(Front(fs)) = Len(fs) - 1 /\ Len(fs) \in Nat \ {0}
      /\ \A i \in 1 .. Len(fs) - 1 : Front(fs)[i] = fs[i]
      /\ Last(fs) = fs[Len(fs)] /\ Last(fs) \in Frame
  BY FrontIsShorter
<1>2. Len(st) = fs[Len(fs)].around.calls
  <2>1. Len(st) = Within(fs[Len(fs)]).calls
    BY DEF NestedIn
  <2> QED
    BY <1>1, <2>1, WithinGrows
<1>3. NestedIn(Front(fs), st)
  <2>1. Len(st) <= Len(st) /\ \A i \in 1 .. Len(st) : st[i] = st[i]
    OBVIOUS
  <2> QED
    BY <1>2, <2>1, NestedFront
<1>4. CASE Front(fs) = <<>>
  <2>1. Len(fs) = 1
    BY <1>1, <1>4
  <2> QED
    BY <1>1, <1>3, <1>4, <2>1 DEF NestedIn
<1>5. CASE Front(fs) # <<>>
  <2>1. Len(Front(fs)) \in 1 .. Len(fs) - 1 /\ Len(Front(fs)) + 1 = Len(fs)
    BY <1>1, <1>5
  <2>2. fs[Len(Front(fs)) + 1].around = Within(fs[Len(Front(fs))])
    BY <2>1 DEF NestedIn
  <2> QED
    BY <1>1, <1>3, <1>5, <2>1, <2>2
<1> QED
  BY <1>4, <1>5, <1>3

(* A call that ends has its token on top of the stack. *)
LEMMA NestedReturn ==
  ASSUME NEW fs \in Seq(Frame), NEW st \in Seq(Token), NestedIn(fs, st), fs # <<>>,
         Last(fs).kind = "call"
  PROVE  /\ Len(st) = Last(fs).around.calls + 1
         /\ st[Len(st)] = Last(fs).tok
         /\ Last(fs).tok.parent = Last(fs).around.caller
<1>1. /\ Len(fs) \in 1 .. Len(fs) /\ Last(fs) = fs[Len(fs)] /\ Last(fs) \in Frame
  BY FrontIsShorter
<1>2. FrameFits(Last(fs), st) /\ Len(st) = Within(Last(fs)).calls
  BY <1>1 DEF NestedIn
<1>3. Within(Last(fs)).calls = Last(fs).around.calls + 1
  BY <1>1, WithinGrows
<1> QED
  BY <1>2, <1>3 DEF FrameFits

(* Time leaves frames nested. *)
LEMMA NestedSpend ==
  ASSUME NEW fs \in Seq(Frame), NEW st \in Seq(Token), NestedIn(fs, st)
  PROVE  NestedIn(Spend(fs), st)
<1> DEFINE gs == Spend(fs)
<1>1. /\ gs \in Seq(Frame) /\ Len(gs) = Len(fs) /\ Len(fs) \in Nat
      /\ \A i \in 1 .. Len(fs) : /\ gs[i].kind = fs[i].kind
                                 /\ gs[i].around = fs[i].around
                                 /\ fs[i].kind # "import" => gs[i] = fs[i]
  BY SpendKeeps
<1> HIDE DEF gs
<1>2. \A i \in 1 .. Len(fs) : Within(gs[i]) = Within(fs[i])
  BY <1>1 DEF Within
<1>3. \A i \in 1 .. Len(fs) : FrameFits(gs[i], st)
  <2> SUFFICES ASSUME NEW i \in 1 .. Len(fs) PROVE FrameFits(gs[i], st)
    OBVIOUS
  <2>1. FrameFits(fs[i], st)
    BY DEF NestedIn
  <2> QED
    BY <1>1, <2>1 DEF FrameFits
<1>4. fs # <<>> => Len(fs) \in 1 .. Len(fs) /\ 1 \in 1 .. Len(fs)
  BY <1>1
<1>5. (gs = <<>> <=> fs = <<>>) /\ \A i \in 1 .. Len(fs) - 1 : i \in 1 .. Len(fs) /\ i + 1 \in 1 .. Len(fs)
  BY <1>1
<1>6. gs = <<>> => st = <<>>
  BY <1>5 DEF NestedIn
<1>7. gs # <<>> => Len(st) = Within(gs[Len(gs)]).calls /\ gs[1].around = Nobody
  BY <1>1, <1>2, <1>4, <1>5 DEF NestedIn
<1>8. \A i \in 1 .. Len(gs) - 1 : gs[i + 1].around = Within(gs[i])
  BY <1>1, <1>2, <1>5 DEF NestedIn
<1>9. \A i, j \in 1 .. Len(gs) : i < j => Within(gs[i]).calls <= gs[j].around.calls
  BY <1>1, <1>2 DEF NestedIn
<1>10. NestedIn(gs, st)
  BY <1>1, <1>3, <1>6, <1>7, <1>8, <1>9 DEF NestedIn
<1> QED
  BY <1>10 DEF gs

----------------------------------------------------------------------------
(* How a step changes the frames of tasks. *)

(* Task k enters f. *)
Entered(k, f) ==
  /\ \A l \in Task : \A i \in 1 .. Len(frames'[l]) :
       \/ l = k /\ i = Len(frames[k]) + 1 /\ frames'[l][i] = f
       \/ i \in 1 .. Len(frames[l]) /\ frames'[l][i] = frames[l][i]
  /\ \A l \in Task : \A i \in 1 .. Len(frames[l]) :
       i \in 1 .. Len(frames'[l]) /\ frames'[l][i] = frames[l][i]
  /\ Len(frames[k]) + 1 \in 1 .. Len(frames'[k])
  /\ frames'[k][Len(frames[k]) + 1] = f

(* Task k leaves its last frame. *)
Left(k) ==
  /\ \A l \in Task : \A i \in 1 .. Len(frames'[l]) :
       i \in 1 .. Len(frames[l]) /\ frames'[l][i] = frames[l][i] /\ (l = k => i # Len(frames[k]))
  /\ \A l \in Task : \A i \in 1 .. Len(frames[l]) :
       (l = k => i # Len(frames[k])) => i \in 1 .. Len(frames'[l]) /\ frames'[l][i] = frames[l][i]

(* A task enters a frame. *)
LEMMA Entering ==
  ASSUME FrameTypes, NEW k \in Task, NEW f \in Frame,
         frames' = [frames EXCEPT ![k] = Append(@, f)]
  PROVE  Entered(k, f) /\ frames'[k] = Append(frames[k], f) /\ \A l \in Task \ {k} : frames'[l] = frames[l]
<1>1. frames[k] \in Seq(Frame) /\ Len(frames[k]) \in Nat
  BY DEF FrameTypes
<1>2. frames'[k] = Append(frames[k], f)
  BY DEF FrameTypes
<1>3. \A l \in Task \ {k} : frames'[l] = frames[l]
  BY DEF FrameTypes
<1>4. /\ Len(frames'[k]) = Len(frames[k]) + 1 /\ frames'[k][Len(frames[k]) + 1] = f
      /\ \A i \in 1 .. Len(frames[k]) : frames'[k][i] = frames[k][i]
  BY <1>1, <1>2, AppendProperties
<1>5. ASSUME NEW l \in Task, NEW i \in 1 .. Len(frames'[l])
      PROVE  \/ l = k /\ i = Len(frames[k]) + 1 /\ frames'[l][i] = f
             \/ i \in 1 .. Len(frames[l]) /\ frames'[l][i] = frames[l][i]
  <2>1. CASE l = k
    <3>1. i = Len(frames[k]) + 1 \/ i \in 1 .. Len(frames[k])
      BY <1>1, <1>4, <2>1
    <3> QED
      BY <1>4, <2>1, <3>1
  <2>2. CASE l # k
    BY <1>3, <2>2
  <2> QED
    BY <2>1, <2>2
<1>6. ASSUME NEW l \in Task, NEW i \in 1 .. Len(frames[l])
      PROVE  i \in 1 .. Len(frames'[l]) /\ frames'[l][i] = frames[l][i]
  BY <1>1, <1>3, <1>4
<1>7. Len(frames[k]) + 1 \in 1 .. Len(frames'[k])
  BY <1>1, <1>4
<1> QED
  BY <1>2, <1>3, <1>4, <1>5, <1>6, <1>7 DEF Entered

(* A task leaves a frame. *)
LEMMA Leaving ==
  ASSUME FrameTypes, NEW k \in Task, frames[k] # <<>>, frames' = [frames EXCEPT ![k] = Front(@)]
  PROVE  Left(k) /\ frames'[k] = Front(frames[k]) /\ \A l \in Task \ {k} : frames'[l] = frames[l]
<1>1. frames[k] \in Seq(Frame)
  BY DEF FrameTypes
<1>2. frames'[k] = Front(frames[k]) /\ \A l \in Task \ {k} : frames'[l] = frames[l]
  BY DEF FrameTypes
<1>3. /\ Len(Front(frames[k])) = Len(frames[k]) - 1 /\ Len(frames[k]) \in Nat \ {0}
      /\ \A i \in 1 .. Len(frames[k]) - 1 : Front(frames[k])[i] = frames[k][i]
  BY <1>1, FrontIsShorter
<1>4. ASSUME NEW l \in Task, NEW i \in 1 .. Len(frames'[l])
      PROVE  i \in 1 .. Len(frames[l]) /\ frames'[l][i] = frames[l][i] /\ (l = k => i # Len(frames[k]))
  <2>1. CASE l = k
    <3>1. i \in 1 .. Len(frames[k]) - 1 /\ i \in 1 .. Len(frames[k]) /\ i # Len(frames[k])
      BY <1>2, <1>3, <2>1
    <3> QED
      BY <1>2, <1>3, <2>1, <3>1
  <2>2. CASE l # k
    BY <1>2, <2>2
  <2> QED
    BY <2>1, <2>2
<1>5. ASSUME NEW l \in Task, NEW i \in 1 .. Len(frames[l]), l = k => i # Len(frames[k])
      PROVE  i \in 1 .. Len(frames'[l]) /\ frames'[l][i] = frames[l][i]
  <2>1. CASE l = k
    <3>1. i \in 1 .. Len(frames[k]) - 1
      BY <1>3, <1>5, <2>1
    <3> QED
      BY <1>2, <1>3, <2>1, <3>1
  <2>2. CASE l # k
    BY <1>2, <2>2
  <2> QED
    BY <2>1, <2>2
<1> QED
  BY <1>2, <1>4, <1>5 DEF Left

----------------------------------------------------------------------------
(* The spans of a process. *)

(* A span is born with its identifier and its start; a span or an import
   claims the parent it had when it started. *)
Born(n, s) ==
  \/ \E x \in written : x.id = n /\ x.start = s
  \/ \E k \in Task : \E i \in 1 .. Len(frames[k]) :
       frames[k][i].kind = "call" /\ frames[k][i].tok.id = n /\ frames[k][i].tok.start = s

Claimed(p, s) ==
  \/ \E x \in written : x.parent = p /\ x.start = s
  \/ \E k \in Task : \E i \in 1 .. Len(frames[k]) :
       frames[k][i].kind = "call" /\ frames[k][i].tok.parent = p /\ frames[k][i].tok.start = s
  \/ \E i \in 1 .. Len(imports) : imports[i].parent = p /\ imports[i].at = s

ParentsFirst ==
  /\ \A n, s \in Nat : Born(n, s) => 1 <= n /\ n <= seq /\ s <= clock
  /\ \A p, s \in Nat : Claimed(p, s) => p <= seq /\ s <= clock
  /\ \A n, s, t \in Nat : Born(n, s) /\ Claimed(n, t) => s <= t

IdsUnique ==
  /\ \A x, y \in written : x.id = y.id => x = y
  /\ \A k, l \in Task : \A i \in 1 .. Len(frames[k]), j \in 1 .. Len(frames[l]) :
       frames[k][i].kind = "call" /\ frames[l][j].kind = "call"
         /\ frames[k][i].tok.id = frames[l][j].tok.id => k = l /\ i = j
  /\ \A x \in written, k \in Task : \A i \in 1 .. Len(frames[k]) :
       frames[k][i].kind = "call" => x.id # frames[k][i].tok.id
  /\ \A x \in written : x.parent < x.id
  /\ \A k \in Task : \A i \in 1 .. Len(frames[k]) :
       frames[k][i].kind = "call" => frames[k][i].tok.parent < frames[k][i].tok.id

StackOpen ==
  \A th \in Thread :
    /\ \A i, j \in 1 .. Len(stack[th]) : i < j => stack[th][i].id < stack[th][j].id
    /\ \A i \in 1 .. Len(stack[th]) : \E k \in Task : \E j \in 1 .. Len(frames[k]) :
         ThreadOf[k] = th /\ frames[k][j].kind = "call" /\ frames[k][j].tok = stack[th][i]

AllNested == \A k \in Task : Sync(k) => NestedIn(frames[k], stack[ThreadOf[k]])

(* A module is imported by one frame, and an entry of cs_imports has the
   parent of the frame that it times. *)
Executing(m) == m \in DOMAIN modules /\ modules[m] = "executing"

StillExecuting(m) == m \in DOMAIN modules' /\ modules'[m] = "executing"

EntriesFit ==
  /\ ~ timing => imports = <<>>
  /\ \A i, j \in 1 .. Len(imports) : imports[i].name = imports[j].name => i = j
  /\ \A i \in 1 .. Len(imports) : Executing(imports[i].name)
  /\ \A k, l \in Task : \A i \in 1 .. Len(frames[k]), j \in 1 .. Len(frames[l]) :
       frames[k][i].kind = "import" /\ frames[l][j].kind = "import"
         /\ frames[k][i].name = frames[l][j].name => k = l /\ i = j
  /\ \A k \in Task : \A i \in 1 .. Len(frames[k]) :
       frames[k][i].kind = "import" => Executing(frames[k][i].name)
  /\ \A k \in Task : \A i \in 1 .. Len(frames[k]), j \in 1 .. Len(imports) :
       Sync(k) /\ frames[k][i].kind = "import" /\ frames[k][i].name = imports[j].name
         => imports[j].parent = frames[k][i].around.caller

LinesTrue ==
  \A x \in written : Sync(x.truth.task) =>
    /\ x.parent = x.truth.around.caller
    /\ x.truth.kind = "call" => x.depth = x.truth.around.calls

SpanInv == ParentsFirst /\ IdsUnique /\ StackOpen /\ AllNested /\ EntriesFit /\ LinesTrue

(* The calls, and the imports, that tasks are in after a step are some that
   they were in before it; all of them are. *)
NoNewCalls ==
  \A l \in Task : \A i \in 1 .. Len(frames'[l]) : frames'[l][i].kind = "call" =>
    i \in 1 .. Len(frames[l]) /\ frames[l][i].kind = "call" /\ frames'[l][i].tok = frames[l][i].tok

CallsStay ==
  \A l \in Task : \A i \in 1 .. Len(frames[l]) : frames[l][i].kind = "call" =>
    i \in 1 .. Len(frames'[l]) /\ frames'[l][i].kind = "call" /\ frames'[l][i].tok = frames[l][i].tok

NoNewImports ==
  \A l \in Task : \A i \in 1 .. Len(frames'[l]) : frames'[l][i].kind = "import" =>
    /\ i \in 1 .. Len(frames[l]) /\ frames[l][i].kind = "import"
    /\ frames'[l][i].name = frames[l][i].name /\ frames'[l][i].around = frames[l][i].around

(* At the start there are no spans. *)
LEMMA SpansStart == HookStart => SpanInv
<1> SUFFICES ASSUME NEW plan \in Seq(SUBSET Target), NEW mods \in SUBSET Module,
                    NEW early \in SUBSET Module, NEW tasks \in SUBSET Task,
                    NEW observe \in BOOLEAN, NEW used \in Nat,
                    HookInit(plan, early, observe, mods, tasks, used)
             PROVE  SpanInv
  BY DEF HookStart
<1>1. /\ written = {} /\ imports = <<>> /\ stack = [th \in Thread |-> <<>>]
      /\ frames = [k \in Task |-> <<>>]
  BY DEF HookInit, SpanInit
<1>2. /\ \A k \in Task : frames[k] = <<>> /\ Len(frames[k]) = 0
      /\ \A th \in Thread : stack[th] = <<>> /\ Len(stack[th]) = 0
      /\ Len(imports) = 0
  BY <1>1
<1>3. \A n, s : ~ Born(n, s) /\ ~ Claimed(n, s)
  BY <1>1, <1>2 DEF Born, Claimed
<1>4. ParentsFirst
  BY <1>3 DEF ParentsFirst
<1>5. IdsUnique
  BY <1>1, <1>2 DEF IdsUnique
<1>6. StackOpen
  BY <1>2 DEF StackOpen
<1>7. AllNested
  <2> SUFFICES ASSUME NEW k \in Task PROVE NestedIn(frames[k], stack[ThreadOf[k]])
    BY DEF AllNested
  <2>1. frames[k] = <<>> /\ stack[ThreadOf[k]] = <<>>
    BY <1>2 DEF Thread
  <2>2. NestedIn(<<>>, <<>>)
    <3>1. 1 .. Len(<<>>) = {} /\ 1 .. Len(<<>>) - 1 = {}
      OBVIOUS
    <3> QED
      BY <3>1 DEF NestedIn
  <2> QED
    BY <2>1, <2>2
<1>8. EntriesFit
  BY <1>1, <1>2 DEF EntriesFit
<1>9. LinesTrue
  BY <1>1 DEF LinesTrue
<1> QED
  BY <1>4, <1>5, <1>6, <1>7, <1>8, <1>9 DEF SpanInv

(* Parents start first if what is born has a new identifier, and what is
   claimed is claimed now. *)
LEMMA ParentsKept ==
  ASSUME HookTypes, ParentsFirst, seq' = seq \/ seq' = seq + 1, clock' = clock \/ clock' = clock + 1,
         \A n, s \in Nat : Born(n, s)' => Born(n, s) \/ (n = seq + 1 /\ seq' = seq + 1 /\ s <= clock),
         \A p, s \in Nat : Claimed(p, s)' => Claimed(p, s) \/ (p <= seq /\ s = clock)
  PROVE  ParentsFirst'
<1>1. seq \in Nat /\ clock \in Nat
  BY DEF HookTypes, ClockTypes
<1>2. \A n, s \in Nat : Born(n, s)' => 1 <= n /\ n <= seq' /\ s <= clock'
  <2> SUFFICES ASSUME NEW n \in Nat, NEW s \in Nat, Born(n, s)' PROVE 1 <= n /\ n <= seq' /\ s <= clock'
    OBVIOUS
  <2>1. CASE Born(n, s)
    <3>1. 1 <= n /\ n <= seq /\ s <= clock
      BY <2>1 DEF ParentsFirst
    <3> QED
      BY <1>1, <3>1
  <2>2. CASE n = seq + 1 /\ seq' = seq + 1 /\ s <= clock
    BY <1>1, <2>2
  <2> QED
    BY <2>1, <2>2
<1>3. \A p, s \in Nat : Claimed(p, s)' => p <= seq' /\ s <= clock'
  <2> SUFFICES ASSUME NEW p \in Nat, NEW s \in Nat, Claimed(p, s)' PROVE p <= seq' /\ s <= clock'
    OBVIOUS
  <2>1. p <= seq /\ s <= clock
    <3>1. CASE Claimed(p, s)
      BY <3>1 DEF ParentsFirst
    <3>2. CASE p <= seq /\ s = clock
      BY <1>1, <3>2
    <3> QED
      BY <3>1, <3>2
  <2> QED
    BY <1>1, <2>1
<1>4. \A n, s, t \in Nat : Born(n, s)' /\ Claimed(n, t)' => s <= t
  <2> SUFFICES ASSUME NEW n \in Nat, NEW s \in Nat, NEW t \in Nat, Born(n, s)', Claimed(n, t)'
               PROVE  s <= t
    OBVIOUS
  <2>1. Claimed(n, t) => n <= seq /\ t <= clock
    BY DEF ParentsFirst
  <2>2. Born(n, s) => n <= seq /\ s <= clock
    BY DEF ParentsFirst
  <2>3. Born(n, s) /\ Claimed(n, t) => s <= t
    BY DEF ParentsFirst
  <2>4. n <= seq
    BY <1>1, <2>1
  <2>5. Born(n, s)
    <3>1. n # seq + 1
      BY <1>1, <2>4
    <3> QED
      BY <3>1
  <2>6. CASE Claimed(n, t)
    BY <2>3, <2>5, <2>6
  <2>7. CASE n <= seq /\ t = clock
    BY <2>2, <2>5, <2>7
  <2> QED
    BY <2>6, <2>7
<1> QED
  BY <1>2, <1>3, <1>4 DEF ParentsFirst

(* The spans of an open call, and of a line. *)
LEMMA CallIsBorn ==
  ASSUME HookTypes, NEW k \in Task, NEW i \in 1 .. Len(frames[k]), frames[k][i].kind = "call"
  PROVE  /\ frames[k][i].tok \in Token
         /\ Born(frames[k][i].tok.id, frames[k][i].tok.start)
         /\ Claimed(frames[k][i].tok.parent, frames[k][i].tok.start)
<1>1. frames[k][i] \in Frame
  BY DEF HookTypes, FrameTypes
<1>2. frames[k][i].tok \in Token
  BY <1>1, FrameKinds
<1> QED
  BY <1>2 DEF Born, Claimed

(* Identifiers of open calls and of lines have been given. *)
LEMMA IdsGiven ==
  ASSUME HookTypes, ParentsFirst
  PROVE  /\ \A k \in Task : \A i \in 1 .. Len(frames[k]) :
              frames[k][i].kind = "call" => frames[k][i].tok.id \in Nat /\ frames[k][i].tok.id <= seq
         /\ \A x \in written : x.id \in Nat /\ x.id <= seq
<1>1. ASSUME NEW k \in Task, NEW i \in 1 .. Len(frames[k]), frames[k][i].kind = "call"
      PROVE  frames[k][i].tok.id \in Nat /\ frames[k][i].tok.id <= seq
  <2> DEFINE t == frames[k][i].tok
  <2>1. t \in Token /\ Born(t.id, t.start)
    BY <1>1, CallIsBorn
  <2>2. t.id \in Nat /\ t.start \in Nat
    BY <2>1 DEF Token
  <2> HIDE DEF t
  <2>3. t.id <= seq
    BY <2>1, <2>2 DEF ParentsFirst
  <2> QED
    BY <2>2, <2>3 DEF t
<1>2. ASSUME NEW x \in written PROVE x.id \in Nat /\ x.id <= seq
  <2>1. x.id \in Nat /\ x.start \in Nat
    BY DEF HookTypes, LineTypes, Line
  <2>2. Born(x.id, x.start)
    BY DEF Born
  <2> QED
    BY <2>1, <2>2 DEF ParentsFirst
<1> QED
  BY <1>1, <1>2

(* The span on top of a stack has been given its identifier. *)
LEMMA CurrentIsGiven ==
  ASSUME HookTypes, ParentsFirst, StackOpen, NEW k \in Task
  PROVE  /\ ThreadOf[k] \in Thread /\ Stack(k) = stack[ThreadOf[k]]
         /\ CurrentSpan(k) \in Nat /\ CurrentSpan(k) <= seq
         /\ CurrentSpan(k) = TopId(stack[ThreadOf[k]])
         /\ \A i \in 1 .. Len(stack[ThreadOf[k]]) :
              stack[ThreadOf[k]][i].id \in Nat /\ stack[ThreadOf[k]][i].id <= seq
<1> DEFINE st == stack[ThreadOf[k]]
<1>1. ThreadOf[k] \in Thread /\ Stack(k) = st
  BY DEF Thread, Stack
<1>2. st \in Seq(Token)
  BY <1>1 DEF HookTypes, StackTypes
<1>3. ASSUME NEW i \in 1 .. Len(st) PROVE st[i].id \in Nat /\ st[i].id <= seq
  <2>1. PICK l \in Task : \E j \in 1 .. Len(frames[l]) :
          ThreadOf[l] = ThreadOf[k] /\ frames[l][j].kind = "call" /\ frames[l][j].tok = st[i]
    BY <1>1 DEF StackOpen
  <2> QED
    BY <2>1, IdsGiven
<1> HIDE DEF st
<1>4. CurrentSpan(k) = TopId(st)
  BY <1>1 DEF CurrentSpan, TopId
<1>5. seq \in Nat
  BY DEF HookTypes, ClockTypes
<1>6. TopId(st) \in Nat /\ TopId(st) <= seq
  <2>1. CASE st = <<>>
    BY <1>5, <2>1 DEF TopId
  <2>2. CASE st # <<>>
    <3>1. Len(st) \in 1 .. Len(st)
      BY <1>2, <2>2
    <3> QED
      BY <1>3, <2>2, <3>1 DEF TopId, Last
  <2> QED
    BY <2>1, <2>2
<1> QED
  BY <1>1, <1>3, <1>4, <1>6 DEF st

(* What is around a task's next frame, in terms of its frames. *)
LEMMA AroundIsWithin ==
  ASSUME NEW k \in Task
  PROVE  Around(k) = IF frames[k] = <<>> THEN Nobody ELSE Within(frames[k][Len(frames[k])])
BY DEF Around, Nobody, Within, Last

(* Entries go on fitting their frames when none is added. *)
LEMMA EntriesKept ==
  ASSUME EntriesFit, NoNewImports, UNCHANGED <<modules, imports, timing>>
  PROVE  EntriesFit'
<1> USE DEF EntriesFit, NoNewImports
<1>1. ASSUME NEW k \in Task, NEW l \in Task,
             NEW i \in 1 .. Len(frames'[k]), NEW j \in 1 .. Len(frames'[l]),
             frames'[k][i].kind = "import", frames'[l][j].kind = "import",
             frames'[k][i].name = frames'[l][j].name
      PROVE  k = l /\ i = j
  <2>1. /\ i \in 1 .. Len(frames[k]) /\ frames[k][i].kind = "import" /\ frames'[k][i].name = frames[k][i].name
        /\ j \in 1 .. Len(frames[l]) /\ frames[l][j].kind = "import" /\ frames'[l][j].name = frames[l][j].name
    BY <1>1
  <2>2. frames[k][i].name = frames[l][j].name
    BY <1>1, <2>1
  <2>3. \A n \in 1 .. Len(frames[k]), o \in 1 .. Len(frames[l]) :
          frames[k][n].kind = "import" /\ frames[l][o].kind = "import"
            /\ frames[k][n].name = frames[l][o].name => k = l /\ n = o
    OBVIOUS
  <2> QED
    BY <2>1, <2>2, <2>3
<1>2. ASSUME NEW k \in Task, NEW i \in 1 .. Len(frames'[k]), frames'[k][i].kind = "import"
      PROVE  /\ Executing(frames'[k][i].name)
             /\ \A j \in 1 .. Len(imports) : Sync(k) /\ frames'[k][i].name = imports[j].name
                  => imports[j].parent = frames'[k][i].around.caller
  BY <1>2
<1>3. /\ \A i, j \in 1 .. Len(imports) : imports[i].name = imports[j].name => i = j
      /\ \A i \in 1 .. Len(imports) : Executing(imports[i].name)
  OBVIOUS
<1>4. imports' = imports /\ modules' = modules /\ \A m : Executing(m)' <=> Executing(m)
  BY DEF Executing
<1>5. ~ timing' => imports' = <<>>
  OBVIOUS
<1> QED
  BY <1>1, <1>2, <1>3, <1>4, <1>5

(* The stacks hold open calls as long as none ends. *)
LEMMA StackKept ==
  ASSUME StackOpen, CallsStay, UNCHANGED stack
  PROVE  StackOpen'
<1> SUFFICES ASSUME NEW th \in Thread, NEW i \in 1 .. Len(stack[th])
             PROVE  \E k \in Task : \E j \in 1 .. Len(frames'[k]) :
                      ThreadOf[k] = th /\ frames'[k][j].kind = "call" /\ frames'[k][j].tok = stack[th][i]
  BY DEF StackOpen
<1>1. PICK k \in Task : \E j \in 1 .. Len(frames[k]) :
        ThreadOf[k] = th /\ frames[k][j].kind = "call" /\ frames[k][j].tok = stack[th][i]
  BY DEF StackOpen
<1>2. PICK j \in 1 .. Len(frames[k]) :
        ThreadOf[k] = th /\ frames[k][j].kind = "call" /\ frames[k][j].tok = stack[th][i]
  BY <1>1
<1>3. j \in 1 .. Len(frames'[k]) /\ frames'[k][j].kind = "call" /\ frames'[k][j].tok = stack[th][i]
  BY <1>2 DEF CallsStay
<1> QED
  BY <1>2, <1>3

(* Identifiers stay unique if no call begins and at most a line with a new
   one is written. *)
LEMMA IdsKept ==
  ASSUME HookTypes, ParentsFirst, IdsUnique, NoNewCalls,
         NEW x, written' = written \/ (written' = written \cup {x} /\ x.id = seq + 1 /\ x.parent < x.id)
  PROVE  IdsUnique'
<1> USE DEF IdsUnique
<1>1. seq \in Nat
  BY DEF HookTypes, ClockTypes
<1>2. \A y \in written : y.id \in Nat /\ y.id <= seq
  BY IdsGiven
<1>3. \A y, z \in written' : y.id = z.id => y = z
  <2>1. \A y \in written : y.id # seq + 1
    BY <1>1, <1>2
  <2> QED
    BY <2>1
<1>4. \A y \in written' : y.parent < y.id
  OBVIOUS
<1>5. ASSUME NEW k \in Task, NEW l \in Task,
             NEW i \in 1 .. Len(frames'[k]), NEW j \in 1 .. Len(frames'[l]),
             frames'[k][i].kind = "call", frames'[l][j].kind = "call",
             frames'[k][i].tok.id = frames'[l][j].tok.id
      PROVE  k = l /\ i = j
  <2>1. /\ i \in 1 .. Len(frames[k]) /\ frames[k][i].kind = "call" /\ frames'[k][i].tok = frames[k][i].tok
        /\ j \in 1 .. Len(frames[l]) /\ frames[l][j].kind = "call" /\ frames'[l][j].tok = frames[l][j].tok
    BY <1>5 DEF NoNewCalls
  <2> QED
    BY <1>5, <2>1
<1>6. ASSUME NEW k \in Task, NEW i \in 1 .. Len(frames'[k]), frames'[k][i].kind = "call"
      PROVE  /\ frames'[k][i].tok.parent < frames'[k][i].tok.id
             /\ \A y \in written' : y.id # frames'[k][i].tok.id
  <2>1. i \in 1 .. Len(frames[k]) /\ frames[k][i].kind = "call" /\ frames'[k][i].tok = frames[k][i].tok
    BY <1>6 DEF NoNewCalls
  <2>2. frames[k][i].tok.id \in Nat /\ frames[k][i].tok.id <= seq
    BY <2>1, IdsGiven
  <2>3. frames[k][i].tok.id # seq + 1
    BY <1>1, <2>2
  <2> QED
    BY <2>1, <2>3
<1> QED
  BY <1>3, <1>4, <1>5, <1>6

(* A call begins. *)
LEMMA BeginSpans ==
  ASSUME HookTypes, SpanInv, NEW k \in Task, Begin(k), UNCHANGED hookVars
  PROVE  SpanInv'
<1> USE DEF SpanInv
<1> DEFINE th == ThreadOf[k]
           tok == [id |-> seq + 1, start |-> clock, parent |-> CurrentSpan(k)]
           f == [kind |-> "call", tok |-> tok, around |-> Around(k)]
<1>1. /\ th \in Thread /\ CurrentSpan(k) \in Nat /\ CurrentSpan(k) <= seq
      /\ CurrentSpan(k) = TopId(stack[th])
      /\ \A i \in 1 .. Len(stack[th]) : stack[th][i].id \in Nat /\ stack[th][i].id <= seq
  BY CurrentIsGiven
<1>2. seq \in Nat /\ clock \in Nat
  BY DEF HookTypes, ClockTypes
<1>3. tok \in Token /\ tok.id = seq + 1 /\ tok.start = clock /\ tok.parent = TopId(stack[th])
      /\ tok.parent <= seq
  BY <1>1, <1>2 DEF Token
<1>4. /\ stack' = [stack EXCEPT ![th] = Append(@, tok)]
      /\ frames' = [frames EXCEPT ![k] = Append(@, f)]
      /\ clock' = clock /\ seq' = seq + 1 /\ written' = written
      /\ modules' = modules /\ imports' = imports /\ timing' = timing
  BY DEF Begin, hookVars
<1> HIDE DEF tok
<1>5. f \in Frame /\ f.kind = "call" /\ f.tok = tok /\ f.around = Around(k)
  BY <1>3, AroundType DEF Frame, CallFrame, HookTypes
<1> HIDE DEF f
<1>6. /\ Entered(k, f) /\ frames'[k] = Append(frames[k], f)
      /\ \A l \in Task \ {k} : frames'[l] = frames[l]
  BY <1>4, <1>5, Entering DEF HookTypes
<1>7. /\ stack'[th] = Append(stack[th], tok) /\ stack[th] \in Seq(Token)
      /\ \A u \in Thread \ {th} : stack'[u] = stack[u]
  BY <1>1, <1>4 DEF HookTypes, StackTypes
<1>8. ParentsFirst'
  <2>1. ASSUME NEW n \in Nat, NEW s \in Nat, Born(n, s)'
        PROVE  Born(n, s) \/ (n = seq + 1 /\ seq' = seq + 1 /\ s <= clock)
    <3>1. CASE \E x \in written' : x.id = n /\ x.start = s
      BY <1>4, <3>1 DEF Born
    <3>2. ASSUME NEW l \in Task, NEW i \in 1 .. Len(frames'[l]),
                 frames'[l][i].kind = "call" /\ frames'[l][i].tok.id = n /\ frames'[l][i].tok.start = s
          PROVE  Born(n, s) \/ (n = seq + 1 /\ seq' = seq + 1 /\ s <= clock)
      <4>1. CASE frames'[l][i] = f
        BY <1>2, <1>3, <1>4, <1>5, <3>2, <4>1
      <4>2. CASE i \in 1 .. Len(frames[l]) /\ frames'[l][i] = frames[l][i]
        BY <3>2, <4>2 DEF Born
      <4> QED
        BY <1>6, <4>1, <4>2 DEF Entered
    <3> QED
      BY <2>1, <3>1, <3>2 DEF Born
  <2>2. ASSUME NEW p \in Nat, NEW s \in Nat, Claimed(p, s)'
        PROVE  Claimed(p, s) \/ (p <= seq /\ s = clock)
    <3>1. CASE \E x \in written' : x.parent = p /\ x.start = s
      BY <1>4, <3>1 DEF Claimed
    <3>2. CASE \E i \in 1 .. Len(imports') : imports'[i].parent = p /\ imports'[i].at = s
      BY <1>4, <3>2 DEF Claimed
    <3>3. ASSUME NEW l \in Task, NEW i \in 1 .. Len(frames'[l]),
                 frames'[l][i].kind = "call" /\ frames'[l][i].tok.parent = p /\ frames'[l][i].tok.start = s
          PROVE  Claimed(p, s) \/ (p <= seq /\ s = clock)
      <4>1. CASE frames'[l][i] = f
        BY <1>3, <1>5, <3>3, <4>1
      <4>2. CASE i \in 1 .. Len(frames[l]) /\ frames'[l][i] = frames[l][i]
        BY <3>3, <4>2 DEF Claimed
      <4> QED
        BY <1>6, <4>1, <4>2 DEF Entered
    <3> QED
      BY <2>2, <3>1, <3>2, <3>3 DEF Claimed
  <2> QED
    BY <1>4, <2>1, <2>2, ParentsKept
<1>9. IdsUnique'
  <2>1. \A l \in Task : \A i \in 1 .. Len(frames[l]) :
          frames[l][i].kind = "call" => frames[l][i].tok.id # seq + 1
    <3>1. \A l \in Task : \A i \in 1 .. Len(frames[l]) :
            frames[l][i].kind = "call" => frames[l][i].tok.id \in Nat /\ frames[l][i].tok.id <= seq
      BY IdsGiven
    <3> QED
      BY <1>2, <3>1
  <2>2. \A x \in written : x.id # seq + 1
    <3>1. \A x \in written : x.id \in Nat /\ x.id <= seq
      BY IdsGiven
    <3> QED
      BY <1>2, <3>1
  <2>3. ASSUME NEW l \in Task, NEW o \in Task,
               NEW i \in 1 .. Len(frames'[l]), NEW j \in 1 .. Len(frames'[o]),
               frames'[l][i].kind = "call", frames'[o][j].kind = "call",
               frames'[l][i].tok.id = frames'[o][j].tok.id
        PROVE  l = o /\ i = j
    <3>1. \/ l = k /\ i = Len(frames[k]) + 1 /\ frames'[l][i].tok.id = seq + 1
          \/ i \in 1 .. Len(frames[l]) /\ frames'[l][i] = frames[l][i] /\ frames'[l][i].tok.id # seq + 1
      BY <1>3, <1>5, <1>6, <2>1, <2>3 DEF Entered
    <3>2. \/ o = k /\ j = Len(frames[k]) + 1 /\ frames'[o][j].tok.id = seq + 1
          \/ j \in 1 .. Len(frames[o]) /\ frames'[o][j] = frames[o][j] /\ frames'[o][j].tok.id # seq + 1
      BY <1>3, <1>5, <1>6, <2>1, <2>3 DEF Entered
    <3>3. CASE frames'[l][i].tok.id = seq + 1
      BY <2>3, <3>1, <3>2, <3>3
    <3>4. CASE frames'[l][i].tok.id # seq + 1
      <4>1. /\ i \in 1 .. Len(frames[l]) /\ frames'[l][i] = frames[l][i]
            /\ j \in 1 .. Len(frames[o]) /\ frames'[o][j] = frames[o][j]
        BY <2>3, <3>1, <3>2, <3>4
      <4>2. /\ frames[l][i].kind = "call" /\ frames[o][j].kind = "call"
            /\ frames[l][i].tok.id = frames[o][j].tok.id
        BY <2>3, <4>1
      <4> QED
        BY <4>1, <4>2 DEF IdsUnique
    <3> QED
      BY <3>3, <3>4
  <2>4. ASSUME NEW l \in Task, NEW i \in 1 .. Len(frames'[l]), frames'[l][i].kind = "call"
        PROVE  /\ frames'[l][i].tok.parent < frames'[l][i].tok.id
               /\ \A x \in written : x.id # frames'[l][i].tok.id
    <3>1. CASE frames'[l][i] = f
      <4>1. f.tok.parent < f.tok.id
        BY <1>2, <1>3, <1>5 DEF Token
      <4> QED
        BY <1>3, <1>5, <2>2, <3>1, <4>1
    <3>2. CASE i \in 1 .. Len(frames[l]) /\ frames'[l][i] = frames[l][i]
      BY <2>4, <3>2 DEF IdsUnique
    <3> QED
      BY <1>6, <3>1, <3>2 DEF Entered
  <2>5. /\ \A x, y \in written : x.id = y.id => x = y
        /\ \A x \in written : x.parent < x.id
    BY DEF IdsUnique
  <2> QED
    BY <1>4, <2>3, <2>4, <2>5 DEF IdsUnique
<1>10. StackOpen'
  <2> DEFINE st == stack[th]
  <2>1. /\ Len(stack'[th]) = Len(st) + 1 /\ stack'[th][Len(st) + 1] = tok /\ Len(st) \in Nat
        /\ \A i \in 1 .. Len(st) : stack'[th][i] = st[i]
    BY <1>3, <1>7, AppendProperties
  <2>2. ASSUME NEW u \in Thread, NEW i \in 1 .. Len(stack[u])
        PROVE  \E l \in Task : \E j \in 1 .. Len(frames'[l]) :
                 ThreadOf[l] = u /\ frames'[l][j].kind = "call" /\ frames'[l][j].tok = stack[u][i]
    <3>1. PICK l \in Task : \E j \in 1 .. Len(frames[l]) :
            ThreadOf[l] = u /\ frames[l][j].kind = "call" /\ frames[l][j].tok = stack[u][i]
      BY DEF StackOpen
    <3>2. PICK j \in 1 .. Len(frames[l]) :
            ThreadOf[l] = u /\ frames[l][j].kind = "call" /\ frames[l][j].tok = stack[u][i]
      BY <3>1
    <3> QED
      BY <1>6, <3>2 DEF Entered
  <2>3. \E l \in Task : \E j \in 1 .. Len(frames'[l]) :
          ThreadOf[l] = th /\ frames'[l][j].kind = "call" /\ frames'[l][j].tok = tok
    BY <1>5, <1>6 DEF Entered
  <2>4. ASSUME NEW i \in 1 .. Len(st) + 1, NEW j \in 1 .. Len(st) + 1, i < j
        PROVE  stack'[th][i].id < stack'[th][j].id
    <3>1. i \in 1 .. Len(st) /\ stack'[th][i] = st[i]
      BY <2>1, <2>4
    <3>2. CASE j \in 1 .. Len(st)
      BY <1>1, <2>1, <2>4, <3>1, <3>2 DEF StackOpen
    <3>3. CASE j = Len(st) + 1
      <4>1. st[i].id \in Nat /\ st[i].id <= seq
        BY <1>1, <3>1
      <4> QED
        BY <1>2, <1>3, <2>1, <3>1, <3>3, <4>1, SMTT(20)
    <3> QED
      BY <2>1, <3>2, <3>3
  <2>5. ASSUME NEW i \in 1 .. Len(st) + 1
        PROVE  \E l \in Task : \E j \in 1 .. Len(frames'[l]) :
                 ThreadOf[l] = th /\ frames'[l][j].kind = "call" /\ frames'[l][j].tok = stack'[th][i]
    <3>1. CASE i \in 1 .. Len(st)
      <4>1. stack'[th][i] = stack[th][i] /\ i \in 1 .. Len(stack[th])
        BY <2>1, <3>1
      <4>2. \E l \in Task : \E j \in 1 .. Len(frames'[l]) :
              ThreadOf[l] = th /\ frames'[l][j].kind = "call" /\ frames'[l][j].tok = stack[th][i]
        BY <1>1, <2>2, <4>1
      <4> QED
        BY <4>1, <4>2
    <3>2. CASE i = Len(st) + 1
      BY <2>1, <2>3, <3>2
    <3> QED
      BY <2>1, <3>1, <3>2
  <2>6. ASSUME NEW u \in Thread, u # th
        PROVE  /\ \A i, j \in 1 .. Len(stack'[u]) : i < j => stack'[u][i].id < stack'[u][j].id
               /\ \A i \in 1 .. Len(stack'[u]) : \E l \in Task : \E j \in 1 .. Len(frames'[l]) :
                    ThreadOf[l] = u /\ frames'[l][j].kind = "call" /\ frames'[l][j].tok = stack'[u][i]
    <3>1. stack'[u] = stack[u]
      BY <1>7, <2>6
    <3>2. \A i, j \in 1 .. Len(stack[u]) : i < j => stack[u][i].id < stack[u][j].id
      BY DEF StackOpen
    <3> QED
      BY <2>2, <3>1, <3>2
  <2> HIDE DEF st
  <2>7. Len(stack'[th]) = Len(st) + 1
    BY <2>1
  <2>8. /\ \A i, j \in 1 .. Len(stack'[th]) : i < j => stack'[th][i].id < stack'[th][j].id
        /\ \A i \in 1 .. Len(stack'[th]) : \E l \in Task : \E j \in 1 .. Len(frames'[l]) :
             ThreadOf[l] = th /\ frames'[l][j].kind = "call" /\ frames'[l][j].tok = stack'[th][i]
    BY <2>4, <2>5, <2>7
  <2>9. ASSUME NEW u \in Thread
        PROVE  /\ \A i, j \in 1 .. Len(stack'[u]) : i < j => stack'[u][i].id < stack'[u][j].id
               /\ \A i \in 1 .. Len(stack'[u]) : \E l \in Task : \E j \in 1 .. Len(frames'[l]) :
                    ThreadOf[l] = u /\ frames'[l][j].kind = "call" /\ frames'[l][j].tok = stack'[u][i]
    <3>1. CASE u = th
      BY <2>8, <3>1, Zenon
    <3>2. CASE u # th
      BY <2>6, <3>2, Zenon
    <3> QED
      BY <3>1, <3>2, Zenon
  <2> QED
    BY <2>9 DEF StackOpen
<1>11. AllNested'
  <2> SUFFICES ASSUME NEW l \in Task, Sync(l) PROVE NestedIn(frames'[l], stack'[ThreadOf[l]])
    BY DEF AllNested
  <2>1. CASE l = k
    <3>1. frames[k] \in Seq(Frame) /\ NestedIn(frames[k], stack[th])
      BY <2>1 DEF HookTypes, FrameTypes, AllNested
    <3>2. NestedIn(Append(frames[k], f), Append(stack[th], f.tok))
      BY <1>3, <1>5, <1>7, <3>1, AroundIsWithin, NestedBegin
    <3> QED
      BY <1>5, <1>6, <1>7, <2>1, <3>2
  <2>2. CASE l # k
    <3>1. ThreadOf[l] # th /\ ThreadOf[l] \in Thread
      BY <2>2 DEF Sync, Thread
    <3> QED
      BY <1>6, <1>7, <2>2, <3>1 DEF AllNested
  <2> QED
    BY <2>1, <2>2
<1>12. EntriesFit'
  <2>1. NoNewImports
    BY <1>5, <1>6 DEF Entered, NoNewImports
  <2> QED
    BY <1>4, <2>1, EntriesKept
<1>13. LinesTrue'
  BY <1>4 DEF LinesTrue
<1> QED
  BY <1>8, <1>9, <1>10, <1>11, <1>12, <1>13

(* A call ends: its line, if it gets one, takes the place of its token. *)
LEMMA EndSpans ==
  ASSUME HookTypes, SpanInv, NEW k \in Task, NEW floor \in Nat, End(k, floor), UNCHANGED hookVars
  PROVE  SpanInv'
<1> USE DEF SpanInv
<1> DEFINE th == ThreadOf[k]
           n == Len(frames[k])
           f == Last(frames[k])
           tok == f.tok
           rest == PopTo(stack[th], tok)
           line == [id |-> tok.id, start |-> tok.start, end |-> clock, parent |-> tok.parent,
                    depth |-> Len(rest), truth |-> Truth(k, "call")]
<1>1. th \in Thread /\ Stack(k) = stack[th] /\ stack[th] \in Seq(Token)
  BY CurrentIsGiven DEF HookTypes, StackTypes
<1>2. /\ frames[k] # <<>> /\ f.kind = "call"
      /\ stack' = [stack EXCEPT ![th] = rest]
      /\ frames' = [frames EXCEPT ![k] = Front(@)]
      /\ written' = written \/ written' = written \cup {line}
      /\ clock' = clock /\ seq' = seq /\ modules' = modules /\ imports' = imports /\ timing' = timing
  BY <1>1 DEF End, hookVars
<1>3. /\ frames[k] \in Seq(Frame) /\ f = frames[k][n] /\ n \in 1 .. Len(frames[k])
  <2>1. frames[k] \in Seq(Frame)
    BY DEF HookTypes, FrameTypes
  <2>2. Last(frames[k]) = frames[k][Len(frames[k])] /\ Len(frames[k]) \in Nat \ {0}
    BY <1>2, <2>1, FrontIsShorter
  <2> QED
    BY <2>1, <2>2
<1>4. /\ Left(k) /\ frames'[k] = Front(frames[k])
      /\ \A l \in Task \ {k} : frames'[l] = frames[l]
  BY <1>2, Leaving DEF HookTypes
<1>5. /\ tok \in Token /\ Born(tok.id, tok.start) /\ Claimed(tok.parent, tok.start)
      /\ frames[k][n].kind = "call" /\ frames[k][n].tok = tok
  BY <1>2, <1>3, CallIsBorn
<1>6. /\ rest \in Seq(Token) /\ Len(rest) \in 0 .. Len(stack[th])
      /\ \A i \in 1 .. Len(rest) : rest[i] = stack[th][i]
      /\ tok \in ToSet(stack[th]) => /\ Position(stack[th], tok) \in 1 .. Len(stack[th])
                                     /\ stack[th][Position(stack[th], tok)] = tok
                                     /\ Len(rest) = Position(stack[th], tok) - 1
      /\ tok \notin ToSet(stack[th]) => rest = stack[th]
  BY <1>1, PopToIsPrefix
<1>7. /\ line.id = tok.id /\ line.start = tok.start /\ line.parent = tok.parent
      /\ line.depth = Len(rest) /\ line.truth = Truth(k, "call")
  OBVIOUS
<1>8. stack'[th] = rest /\ \A u \in Thread \ {th} : stack'[u] = stack[u]
  <2> HIDE DEF rest
  <2> QED
    BY <1>1, <1>2 DEF HookTypes, StackTypes
<1>9. Truth(k, "call").task = k /\ Truth(k, "call").around = f.around
  BY DEF Truth
<1> HIDE DEF line, rest, tok, f, n
<1>10. ParentsFirst'
  <2>1. ASSUME NEW i \in Nat, NEW s \in Nat, Born(i, s)' PROVE Born(i, s)
    <3>1. CASE \E x \in written' : x.id = i /\ x.start = s
      <4>1. PICK x \in written' : x.id = i /\ x.start = s
        BY <3>1
      <4>2. CASE x \in written
        BY <4>1, <4>2 DEF Born
      <4>3. CASE x = line
        BY <1>5, <1>7, <4>1, <4>3
      <4> QED
        BY <1>2, <4>2, <4>3
    <3>2. CASE \E l \in Task : \E j \in 1 .. Len(frames'[l]) :
                 frames'[l][j].kind = "call" /\ frames'[l][j].tok.id = i /\ frames'[l][j].tok.start = s
      <4>1. PICK l \in Task : \E j \in 1 .. Len(frames'[l]) :
              frames'[l][j].kind = "call" /\ frames'[l][j].tok.id = i /\ frames'[l][j].tok.start = s
        BY <3>2
      <4>2. \E j \in 1 .. Len(frames[l]) :
              frames[l][j].kind = "call" /\ frames[l][j].tok.id = i /\ frames[l][j].tok.start = s
        BY <1>4, <4>1 DEF Left
      <4> QED
        BY <4>2 DEF Born
    <3> QED
      BY <2>1, <3>1, <3>2 DEF Born
  <2>2. ASSUME NEW p \in Nat, NEW s \in Nat, Claimed(p, s)' PROVE Claimed(p, s)
    <3>1. CASE \E x \in written' : x.parent = p /\ x.start = s
      <4>1. PICK x \in written' : x.parent = p /\ x.start = s
        BY <3>1
      <4>2. CASE x \in written
        BY <4>1, <4>2 DEF Claimed
      <4>3. CASE x = line
        BY <1>5, <1>7, <4>1, <4>3
      <4> QED
        BY <1>2, <4>2, <4>3
    <3>2. CASE \E l \in Task : \E j \in 1 .. Len(frames'[l]) :
                 frames'[l][j].kind = "call" /\ frames'[l][j].tok.parent = p /\ frames'[l][j].tok.start = s
      <4>1. PICK l \in Task : \E j \in 1 .. Len(frames'[l]) :
              frames'[l][j].kind = "call" /\ frames'[l][j].tok.parent = p /\ frames'[l][j].tok.start = s
        BY <3>2
      <4>2. \E j \in 1 .. Len(frames[l]) :
              frames[l][j].kind = "call" /\ frames[l][j].tok.parent = p /\ frames[l][j].tok.start = s
        BY <1>4, <4>1 DEF Left
      <4> QED
        BY <4>2 DEF Claimed
    <3>3. CASE \E i \in 1 .. Len(imports') : imports'[i].parent = p /\ imports'[i].at = s
      BY <1>2, <3>3 DEF Claimed
    <3> QED
      BY <2>2, <3>1, <3>2, <3>3 DEF Claimed
  <2> QED
    BY <1>2, <2>1, <2>2, ParentsKept
(* The token that goes is nobody else's. *)
<1>11. /\ \A l \in Task : \A i \in 1 .. Len(frames[l]) :
            frames[l][i].kind = "call" /\ frames[l][i].tok.id = tok.id => l = k /\ i = n
       /\ \A x \in written : x.id # tok.id
       /\ tok.parent < tok.id
  BY <1>3, <1>5 DEF IdsUnique
<1>12. IdsUnique'
  <2>1. \A x, y \in written' : x.id = y.id => x = y
    <3>1. \A x, y \in written : x.id = y.id => x = y
      BY DEF IdsUnique
    <3> QED
      BY <1>2, <1>7, <1>11, <3>1
  <2>2. \A x \in written' : x.parent < x.id
    BY <1>2, <1>7, <1>11 DEF IdsUnique
  <2>3. ASSUME NEW l \in Task, NEW i \in 1 .. Len(frames'[l]), frames'[l][i].kind = "call"
        PROVE  /\ i \in 1 .. Len(frames[l]) /\ frames'[l][i] = frames[l][i]
               /\ frames[l][i].tok.parent < frames[l][i].tok.id
               /\ frames[l][i].tok.id # tok.id
               /\ \A x \in written : x.id # frames[l][i].tok.id
    <3>1. i \in 1 .. Len(frames[l]) /\ frames'[l][i] = frames[l][i] /\ (l = k => i # n)
      BY <1>4 DEF Left, n
    <3>2. frames[l][i].tok.id # tok.id
      BY <1>11, <2>3, <3>1
    <3> QED
      BY <2>3, <3>1, <3>2 DEF IdsUnique
  <2>4. ASSUME NEW l \in Task, NEW o \in Task,
               NEW i \in 1 .. Len(frames'[l]), NEW j \in 1 .. Len(frames'[o]),
               frames'[l][i].kind = "call", frames'[o][j].kind = "call",
               frames'[l][i].tok.id = frames'[o][j].tok.id
        PROVE  l = o /\ i = j
    <3>1. /\ i \in 1 .. Len(frames[l]) /\ frames'[l][i] = frames[l][i]
          /\ j \in 1 .. Len(frames[o]) /\ frames'[o][j] = frames[o][j]
      BY <2>3, <2>4
    <3>2. /\ frames[l][i].kind = "call" /\ frames[o][j].kind = "call"
          /\ frames[l][i].tok.id = frames[o][j].tok.id
      BY <2>4, <3>1
    <3> QED
      BY <3>1, <3>2 DEF IdsUnique
  <2>5. ASSUME NEW x \in written', NEW l \in Task, NEW i \in 1 .. Len(frames'[l]), frames'[l][i].kind = "call"
        PROVE  /\ x.id # frames'[l][i].tok.id
               /\ frames'[l][i].tok.parent < frames'[l][i].tok.id
    BY <1>2, <1>7, <2>3, <2>5
  <2>6. ASSUME NEW l \in Task, NEW i \in 1 .. Len(frames'[l]), frames'[l][i].kind = "call"
        PROVE  frames'[l][i].tok.parent < frames'[l][i].tok.id
    BY <2>3, <2>6
  <2> QED
    BY <2>1, <2>2, <2>4, <2>5, <2>6 DEF IdsUnique
(* Nor is it left on the stack. *)
<1>13. \A i \in 1 .. Len(rest) : i \in 1 .. Len(stack[th]) /\ rest[i] = stack[th][i] /\ rest[i] # tok
  <2> SUFFICES ASSUME NEW i \in 1 .. Len(rest)
               PROVE  i \in 1 .. Len(stack[th]) /\ rest[i] = stack[th][i] /\ rest[i] # tok
    OBVIOUS
  <2>1. i \in 1 .. Len(stack[th]) /\ rest[i] = stack[th][i]
    BY <1>1, <1>6
  <2>2. CASE tok \in ToSet(stack[th])
    <3> DEFINE p == Position(stack[th], tok)
    <3>1. p \in 1 .. Len(stack[th]) /\ stack[th][p] = tok /\ i < p
      BY <1>6, <2>2
    <3> HIDE DEF p
    <3>2. stack[th][i].id < stack[th][p].id
      BY <1>1, <2>1, <3>1 DEF StackOpen
    <3>3. tok.id \in Nat
      BY <1>5 DEF Token
    <3> QED
      BY <2>1, <3>1, <3>2, <3>3
  <2>3. CASE tok \notin ToSet(stack[th])
    <3>1. stack[th][i] \in ToSet(stack[th])
      BY <1>1, <2>1 DEF ToSet
    <3> QED
      BY <2>1, <2>3, <3>1
  <2> QED
    BY <2>1, <2>2, <2>3
<1>14. StackOpen'
  <2>1. ASSUME NEW u \in Thread, NEW i \in 1 .. Len(stack[u]), u = th => stack[u][i] # tok
        PROVE  \E l \in Task : \E j \in 1 .. Len(frames'[l]) :
                 ThreadOf[l] = u /\ frames'[l][j].kind = "call" /\ frames'[l][j].tok = stack[u][i]
    <3>1. PICK l \in Task : \E j \in 1 .. Len(frames[l]) :
            ThreadOf[l] = u /\ frames[l][j].kind = "call" /\ frames[l][j].tok = stack[u][i]
      BY DEF StackOpen
    <3>2. PICK j \in 1 .. Len(frames[l]) :
            ThreadOf[l] = u /\ frames[l][j].kind = "call" /\ frames[l][j].tok = stack[u][i]
      BY <3>1
    <3>3. l = k => j # n
      BY <1>5, <2>1, <3>2
    <3>4. j \in 1 .. Len(frames'[l]) /\ frames'[l][j] = frames[l][j]
      BY <1>4, <3>2, <3>3 DEF Left, n
    <3> QED
      BY <3>2, <3>4
  <2>2. \A u \in Thread : \A i, j \in 1 .. Len(stack[u]) : i < j => stack[u][i].id < stack[u][j].id
    BY DEF StackOpen
  <2>3. ASSUME NEW u \in Thread
        PROVE  /\ \A i, j \in 1 .. Len(stack'[u]) : i < j => stack'[u][i].id < stack'[u][j].id
               /\ \A i \in 1 .. Len(stack'[u]) : \E l \in Task : \E j \in 1 .. Len(frames'[l]) :
                    ThreadOf[l] = u /\ frames'[l][j].kind = "call" /\ frames'[l][j].tok = stack'[u][i]
    <3>1. CASE u = th
      <4>1. \A i \in 1 .. Len(stack'[u]) :
              i \in 1 .. Len(stack[u]) /\ stack'[u][i] = stack[u][i] /\ stack[u][i] # tok
        BY <1>8, <1>13, <3>1
      <4>2. \A i, j \in 1 .. Len(stack'[u]) : i < j => stack'[u][i].id < stack'[u][j].id
        BY <2>2, <4>1
      <4>3. ASSUME NEW i \in 1 .. Len(stack'[u])
            PROVE  \E l \in Task : \E j \in 1 .. Len(frames'[l]) :
                     ThreadOf[l] = u /\ frames'[l][j].kind = "call" /\ frames'[l][j].tok = stack'[u][i]
        <5>1. \E l \in Task : \E j \in 1 .. Len(frames'[l]) :
                ThreadOf[l] = u /\ frames'[l][j].kind = "call" /\ frames'[l][j].tok = stack[u][i]
          BY <2>1, <4>1
        <5> QED
          BY <4>1, <5>1
      <4> QED
        BY <4>2, <4>3
    <3>2. CASE u # th
      <4>1. stack'[u] = stack[u]
        BY <1>8, <3>2
      <4> QED
        BY <2>1, <2>2, <3>2, <4>1
    <3> QED
      BY <3>1, <3>2
  <2> QED
    BY <2>3 DEF StackOpen
<1>15. Sync(k) => /\ NestedIn(frames[k], stack[th])
                  /\ Len(rest) = f.around.calls /\ tok.parent = f.around.caller
  <2> SUFFICES ASSUME Sync(k)
               PROVE  /\ NestedIn(frames[k], stack[th])
                      /\ Len(rest) = f.around.calls /\ tok.parent = f.around.caller
    OBVIOUS
  <2> DEFINE st == stack[th]
  <2>1. NestedIn(frames[k], st)
    BY DEF AllNested
  <2>2. /\ Len(st) = f.around.calls + 1 /\ st[Len(st)] = tok /\ tok.parent = f.around.caller
    BY <1>1, <1>2, <1>3, <2>1, NestedReturn DEF f, tok
  <2>3. f.around.calls \in Nat
    <3>1. f \in Frame
      BY <1>3
    <3> QED
      BY <3>1, WithinGrows
  <2>4. Len(st) \in 1 .. Len(st) /\ st \in Seq(Token)
    BY <1>1, <2>2, <2>3
  <2>5. tok \in ToSet(st)
    BY <2>2, <2>4 DEF ToSet
  <2> DEFINE p == Position(st, tok)
  <2>6. p \in 1 .. Len(st) /\ st[p] = tok /\ Len(rest) = p - 1
    BY <1>6, <2>5
  <2> HIDE DEF p
  <2>7. p = Len(st)
    <3> SUFFICES ASSUME p # Len(st) PROVE FALSE
      OBVIOUS
    <3>1. p < Len(st)
      BY <2>4, <2>6
    <3>2. st[p].id < st[Len(st)].id
      BY <1>1, <2>4, <2>6, <3>1 DEF StackOpen
    <3>3. tok.id \in Nat
      BY <1>5 DEF Token
    <3> QED
      BY <2>2, <2>6, <3>2, <3>3
  <2>8. Len(rest) = f.around.calls
    BY <2>2, <2>3, <2>6, <2>7
  <2> QED
    BY <2>1, <2>2, <2>8
<1>16. AllNested'
  <2> SUFFICES ASSUME NEW l \in Task, Sync(l) PROVE NestedIn(frames'[l], stack'[ThreadOf[l]])
    BY DEF AllNested
  <2>1. CASE l = k
    <3>1. /\ NestedIn(frames[k], stack[th]) /\ Len(rest) = frames[k][Len(frames[k])].around.calls
      BY <1>3, <1>15, <2>1 DEF n
    <3>2. Len(rest) <= Len(stack[th])
      BY <1>1, <1>6
    <3>3. NestedIn(Front(frames[k]), rest)
      BY <1>1, <1>2, <1>3, <1>6, <3>1, <3>2, NestedFront
    <3> QED
      BY <1>4, <1>8, <2>1, <3>3
  <2>2. CASE l # k
    <3>1. ThreadOf[l] # th /\ ThreadOf[l] \in Thread
      BY <2>2 DEF Sync, Thread
    <3> QED
      BY <1>4, <1>8, <2>2, <3>1 DEF AllNested
  <2> QED
    BY <2>1, <2>2
<1>17. EntriesFit'
  <2>1. NoNewImports
    BY <1>4 DEF Left, NoNewImports
  <2> QED
    BY <1>2, <2>1, EntriesKept
<1>18. LinesTrue'
  <2>1. Sync(line.truth.task) => /\ line.parent = line.truth.around.caller
                                 /\ line.depth = line.truth.around.calls
    BY <1>7, <1>9, <1>15
  <2> QED
    BY <1>2, <2>1 DEF LinesTrue
<1> QED
  BY <1>10, <1>12, <1>14, <1>16, <1>17, <1>18

(* An import begins: its frame and its entry have the same parent. *)
LEMMA ImportStartSpans ==
  ASSUME HookTypes, SpanInv, NEW k \in Task, NEW m \in Module, ImportStart(k, m)
  PROVE  SpanInv'
<1> USE DEF SpanInv
<1> DEFINE f == [kind |-> "import", name |-> m, mine |-> 0, around |-> Around(k)]
           e == [name |-> m, at |-> clock, child |-> 0, parent |-> CurrentSpan(k)]
<1>1. /\ m \in DOMAIN modules /\ modules[m] = "absent"
      /\ modules' = [modules EXCEPT ![m] = "executing"]
      /\ frames' = [frames EXCEPT ![k] = Append(@, f)]
      /\ imports' = imports \/ imports' = Append(imports, e)
      /\ clock' = clock /\ seq' = seq /\ stack' = stack /\ written' = written
  BY DEF ImportStart, OnStart
<1>2. f \in Frame /\ f.kind = "import" /\ f.name = m /\ f.around = Around(k)
  BY AroundType DEF Frame, ImportFrame, HookTypes
<1>3. /\ ThreadOf[k] \in Thread /\ CurrentSpan(k) \in Nat /\ CurrentSpan(k) <= seq
      /\ CurrentSpan(k) = TopId(stack[ThreadOf[k]])
  BY CurrentIsGiven
<1>4. e \in Entry /\ e.name = m /\ e.at = clock /\ e.parent = CurrentSpan(k)
  BY <1>3 DEF Entry, HookTypes, ClockTypes
<1> HIDE DEF f, e
<1>5. /\ Entered(k, f) /\ frames'[k] = Append(frames[k], f)
      /\ \A l \in Task \ {k} : frames'[l] = frames[l]
  BY <1>1, <1>2, Entering DEF HookTypes
<1>6. NoNewCalls /\ CallsStay
  BY <1>2, <1>5 DEF Entered, NoNewCalls, CallsStay
<1>7. /\ imports \in Seq(Entry) /\ Len(imports) \in Nat
      /\ \A i \in 1 .. Len(imports') : \/ i \in 1 .. Len(imports) /\ imports'[i] = imports[i]
                                       \/ i = Len(imports) + 1 /\ imports'[i] = e
  <2>1. imports \in Seq(Entry) /\ Len(imports) \in Nat
    BY DEF HookTypes, TimeTypes
  <2>2. CASE imports' = imports
    BY <2>1, <2>2
  <2>3. CASE imports' = Append(imports, e)
    <3>1. /\ Len(imports') = Len(imports) + 1 /\ imports'[Len(imports) + 1] = e
          /\ \A i \in 1 .. Len(imports) : imports'[i] = imports[i]
      BY <1>4, <2>1, <2>3, AppendProperties
    <3>2. \A i \in 1 .. Len(imports) + 1 : i \in 1 .. Len(imports) \/ i = Len(imports) + 1
      BY <2>1
    <3> QED
      BY <2>1, <3>1, <3>2
  <2> QED
    BY <1>1, <2>1, <2>2, <2>3
<1>8. ParentsFirst'
  <2>1. ASSUME NEW n \in Nat, NEW s \in Nat, Born(n, s)' PROVE Born(n, s)
    <3>1. CASE \E x \in written' : x.id = n /\ x.start = s
      BY <1>1, <3>1 DEF Born
    <3>2. CASE \E l \in Task : \E j \in 1 .. Len(frames'[l]) :
                 frames'[l][j].kind = "call" /\ frames'[l][j].tok.id = n /\ frames'[l][j].tok.start = s
      BY <1>6, <3>2 DEF NoNewCalls, Born
    <3> QED
      BY <2>1, <3>1, <3>2 DEF Born
  <2>2. ASSUME NEW p \in Nat, NEW s \in Nat, Claimed(p, s)' PROVE Claimed(p, s) \/ (p <= seq /\ s = clock)
    <3>1. CASE \E x \in written' : x.parent = p /\ x.start = s
      BY <1>1, <3>1 DEF Claimed
    <3>2. CASE \E l \in Task : \E j \in 1 .. Len(frames'[l]) :
                 frames'[l][j].kind = "call" /\ frames'[l][j].tok.parent = p /\ frames'[l][j].tok.start = s
      BY <1>6, <3>2 DEF NoNewCalls, Claimed
    <3>3. CASE \E i \in 1 .. Len(imports') : imports'[i].parent = p /\ imports'[i].at = s
      <4>1. PICK i \in 1 .. Len(imports') : imports'[i].parent = p /\ imports'[i].at = s
        BY <3>3
      <4>2. CASE i \in 1 .. Len(imports) /\ imports'[i] = imports[i]
        BY <4>1, <4>2 DEF Claimed
      <4>3. CASE imports'[i] = e
        BY <1>3, <1>4, <4>1, <4>3
      <4> QED
        BY <1>7, <4>2, <4>3
    <3> QED
      BY <2>2, <3>1, <3>2, <3>3 DEF Claimed
  <2> QED
    BY <1>1, <2>1, <2>2, ParentsKept
<1>9. IdsUnique'
  BY <1>1, <1>6, IdsKept
<1>10. StackOpen'
  BY <1>1, <1>6, StackKept
<1>11. AllNested'
  <2> SUFFICES ASSUME NEW l \in Task, Sync(l) PROVE NestedIn(frames'[l], stack[ThreadOf[l]])
    BY <1>1 DEF AllNested
  <2>1. CASE l = k
    <3>1. /\ frames[k] \in Seq(Frame) /\ NestedIn(frames[k], stack[ThreadOf[k]])
          /\ stack[ThreadOf[k]] \in Seq(Token)
      BY <1>3, <2>1 DEF HookTypes, FrameTypes, StackTypes, AllNested
    <3>2. NestedIn(Append(frames[k], f), stack[ThreadOf[k]])
      BY <1>2, <3>1, AroundIsWithin, NestedEnter
    <3> QED
      BY <1>5, <2>1, <3>2
  <2>2. CASE l # k
    BY <1>5, <2>2 DEF AllNested
  <2> QED
    BY <2>1, <2>2
<1>12. \A n : Executing(n) => n # m /\ StillExecuting(n)
  BY <1>1 DEF Executing, StillExecuting
<1>13. StillExecuting(m)
  BY <1>1 DEF StillExecuting
<1>14. EntriesFit'
  <2>1. ASSUME NEW i \in 1 .. Len(imports')
        PROVE  /\ StillExecuting(imports'[i].name)
               /\ \/ i \in 1 .. Len(imports) /\ imports'[i] = imports[i] /\ imports'[i].name # m
                  \/ i = Len(imports) + 1 /\ imports'[i] = e
    <3>1. CASE i \in 1 .. Len(imports) /\ imports'[i] = imports[i]
      <4>1. Executing(imports[i].name)
        BY <3>1 DEF EntriesFit
      <4>2. imports[i].name # m /\ StillExecuting(imports[i].name)
        BY <1>12, <4>1
      <4>3. StillExecuting(imports'[i].name)
        BY <3>1, <4>2
      <4> QED
        BY <3>1, <4>2, <4>3
    <3>2. CASE i = Len(imports) + 1 /\ imports'[i] = e
      BY <1>4, <1>13, <3>2
    <3> QED
      BY <1>7, <3>1, <3>2
  <2>2. ASSUME NEW l \in Task, NEW i \in 1 .. Len(frames'[l]), frames'[l][i].kind = "import"
        PROVE  /\ StillExecuting(frames'[l][i].name)
               /\ \/ /\ i \in 1 .. Len(frames[l]) /\ frames'[l][i] = frames[l][i]
                     /\ frames[l][i].kind = "import" /\ frames[l][i].name # m
                  \/ l = k /\ i = Len(frames[k]) + 1 /\ frames'[l][i] = f
    <3>1. CASE i \in 1 .. Len(frames[l]) /\ frames'[l][i] = frames[l][i]
      <4>1. Executing(frames[l][i].name)
        BY <2>2, <3>1 DEF EntriesFit
      <4>2. frames[l][i].name # m /\ StillExecuting(frames[l][i].name)
        BY <1>12, <4>1
      <4>3. StillExecuting(frames'[l][i].name)
        BY <3>1, <4>2
      <4> QED
        BY <2>2, <3>1, <4>2, <4>3
    <3>2. CASE l = k /\ i = Len(frames[k]) + 1 /\ frames'[l][i] = f
      BY <1>2, <1>13, <3>2
    <3> QED
      BY <1>5, <3>1, <3>2 DEF Entered
  <2>3. ASSUME NEW i \in 1 .. Len(imports'), NEW j \in 1 .. Len(imports'), imports'[i].name = imports'[j].name
        PROVE  i = j
    BY <1>4, <2>1, <2>3 DEF EntriesFit
  <2>4. ASSUME NEW l \in Task, NEW o \in Task,
               NEW i \in 1 .. Len(frames'[l]), NEW j \in 1 .. Len(frames'[o]),
               frames'[l][i].kind = "import", frames'[o][j].kind = "import",
               frames'[l][i].name = frames'[o][j].name
        PROVE  l = o /\ i = j
    <3>1. \/ /\ i \in 1 .. Len(frames[l]) /\ frames'[l][i] = frames[l][i]
             /\ frames[l][i].kind = "import" /\ frames[l][i].name # m
          \/ l = k /\ i = Len(frames[k]) + 1 /\ frames'[l][i].name = m
      BY <1>2, <2>2, <2>4
    <3>2. \/ /\ j \in 1 .. Len(frames[o]) /\ frames'[o][j] = frames[o][j]
             /\ frames[o][j].kind = "import" /\ frames[o][j].name # m
          \/ o = k /\ j = Len(frames[k]) + 1 /\ frames'[o][j].name = m
      BY <1>2, <2>2, <2>4
    <3>3. CASE frames'[l][i].name = m
      BY <2>4, <3>1, <3>2, <3>3
    <3>4. CASE frames'[l][i].name # m
      <4>1. /\ i \in 1 .. Len(frames[l]) /\ frames[l][i].kind = "import"
            /\ j \in 1 .. Len(frames[o]) /\ frames[o][j].kind = "import"
            /\ frames[l][i].name = frames[o][j].name
        BY <2>4, <3>1, <3>2, <3>4
      <4> QED
        BY <4>1 DEF EntriesFit
    <3> QED
      BY <3>3, <3>4
  <2>5. ASSUME NEW l \in Task, NEW i \in 1 .. Len(frames'[l]), NEW j \in 1 .. Len(imports'),
               Sync(l), frames'[l][i].kind = "import", frames'[l][i].name = imports'[j].name
        PROVE  imports'[j].parent = frames'[l][i].around.caller
    <3>1. CASE frames'[l][i].name = m
      <4>1. l = k /\ frames'[l][i] = f
        BY <2>2, <2>5, <3>1
      <4>2. imports'[j] = e
        BY <2>1, <2>5, <3>1
      <4>3. Around(k).caller = TopId(stack[ThreadOf[k]])
        <5>1. /\ frames[k] \in Seq(Frame) /\ NestedIn(frames[k], stack[ThreadOf[k]])
              /\ stack[ThreadOf[k]] \in Seq(Token)
          BY <1>3, <2>5, <4>1 DEF HookTypes, FrameTypes, StackTypes, AllNested
        <5> QED
          BY <5>1, AroundIsWithin, NextSurroundings
      <4> QED
        BY <1>2, <1>3, <1>4, <4>1, <4>2, <4>3
    <3>2. CASE frames'[l][i].name # m
      <4>1. /\ i \in 1 .. Len(frames[l]) /\ frames'[l][i] = frames[l][i] /\ frames[l][i].kind = "import"
        BY <1>2, <2>2, <2>5, <3>2
      <4>2. j \in 1 .. Len(imports) /\ imports'[j] = imports[j]
        BY <1>4, <2>1, <2>5, <3>2
      <4> QED
        BY <2>5, <4>1, <4>2 DEF EntriesFit
    <3> QED
      BY <3>1, <3>2
  <2>6. ~ timing' => imports' = <<>>
    BY DEF ImportStart, OnStart, EntriesFit
  <2> QED
    BY <2>1, <2>2, <2>3, <2>4, <2>5, <2>6 DEF EntriesFit, Executing, StillExecuting
<1>15. LinesTrue'
  BY <1>1 DEF LinesTrue
<1> QED
  BY <1>8, <1>9, <1>10, <1>11, <1>14, <1>15

(* A step that begins and ends no call, in a thread's terms. *)
LEMMA QuietSpans ==
  ASSUME HookTypes, SpanInv, NoNewCalls, CallsStay, clock' = clock \/ clock' = clock + 1,
         UNCHANGED <<seq, stack, written, imports>>
  PROVE  ParentsFirst' /\ IdsUnique' /\ StackOpen' /\ LinesTrue'
<1> USE DEF SpanInv
<1>1. seq' = seq /\ written' = written /\ imports' = imports /\ stack' = stack
  OBVIOUS
<1>2. ParentsFirst'
  <2>1. ASSUME NEW n \in Nat, NEW s \in Nat, Born(n, s)' PROVE Born(n, s)
    <3>1. CASE \E x \in written' : x.id = n /\ x.start = s
      BY <1>1, <3>1 DEF Born
    <3>2. CASE \E l \in Task : \E j \in 1 .. Len(frames'[l]) :
                 frames'[l][j].kind = "call" /\ frames'[l][j].tok.id = n /\ frames'[l][j].tok.start = s
      BY <3>2 DEF NoNewCalls, Born
    <3> QED
      BY <2>1, <3>1, <3>2 DEF Born
  <2>2. ASSUME NEW p \in Nat, NEW s \in Nat, Claimed(p, s)' PROVE Claimed(p, s)
    <3>1. CASE \E x \in written' : x.parent = p /\ x.start = s
      BY <1>1, <3>1 DEF Claimed
    <3>2. CASE \E l \in Task : \E j \in 1 .. Len(frames'[l]) :
                 frames'[l][j].kind = "call" /\ frames'[l][j].tok.parent = p /\ frames'[l][j].tok.start = s
      BY <3>2 DEF NoNewCalls, Claimed
    <3>3. CASE \E i \in 1 .. Len(imports') : imports'[i].parent = p /\ imports'[i].at = s
      BY <1>1, <3>3 DEF Claimed
    <3> QED
      BY <2>2, <3>1, <3>2, <3>3 DEF Claimed
  <2> QED
    BY <1>1, <2>1, <2>2, ParentsKept
<1>3. IdsUnique'
  BY <1>1, IdsKept
<1>4. StackOpen'
  BY <1>1, StackKept
<1>5. LinesTrue'
  BY <1>1 DEF LinesTrue
<1> QED
  BY <1>2, <1>3, <1>4, <1>5

(* A task's last frame, that of an import, goes or becomes that of its
   patches. *)
LEMMA ImportFrameGoes ==
  ASSUME HookTypes, SpanInv, NEW k \in Task, NEW raised \in BOOLEAN, Executed(k, raised)
  PROVE  LET f == Last(frames[k]) IN
         /\ f \in Frame /\ f.kind = "import" /\ f = frames[k][Len(frames[k])]
         /\ Len(frames[k]) \in 1 .. Len(frames[k])
         /\ f.name \in DOMAIN modules /\ modules[f.name] = "executing"
         /\ f.around \in Surroundings
         /\ NoNewCalls /\ CallsStay
         /\ \A l \in Task : \A i \in 1 .. Len(frames'[l]) : frames'[l][i].kind = "import" =>
              /\ i \in 1 .. Len(frames[l]) /\ frames'[l][i] = frames[l][i]
              /\ frames[l][i].name # f.name
         /\ \A l \in Task : Sync(l) => NestedIn(frames'[l], stack[ThreadOf[l]])
<1> USE DEF SpanInv
<1> DEFINE f == Last(frames[k])
           n == Len(frames[k])
           g == [kind |-> "patch", name |-> f.name, around |-> f.around]
<1>1. /\ frames[k] # <<>> /\ f.kind = "import"
      /\ f.name \in DOMAIN modules /\ modules[f.name] = "executing"
      /\ \/ frames' = [frames EXCEPT ![k] = Front(@)]
         \/ frames' = [frames EXCEPT ![k] = Append(Front(@), g)]
  BY DEF Executed
<1>2. frames[k] \in Seq(Frame)
  BY DEF HookTypes, FrameTypes
<1>3. /\ f \in Frame /\ f = frames[k][n] /\ n \in Nat \ {0} /\ n \in 1 .. n
      /\ Front(frames[k]) \in Seq(Frame) /\ Len(Front(frames[k])) = n - 1
      /\ \A i \in 1 .. n - 1 : Front(frames[k])[i] = frames[k][i]
  BY <1>1, <1>2, FrontIsShorter
<1>4. f.name \in Module /\ f.around \in Surroundings
  <2> HIDE DEF f
  <2> QED
    BY <1>1, <1>3, FrameKinds
<1>5. g \in Frame /\ g.kind = "patch" /\ g.around = f.around
  <2> HIDE DEF f
  <2> QED
    BY <1>4 DEF Frame, PatchFrame
<1> HIDE DEF f, g, n
<1>6. \A l \in Task \ {k} : frames'[l] = frames[l]
  BY <1>1 DEF HookTypes, FrameTypes
<1>7. frames'[k] = Front(frames[k]) \/ frames'[k] = Append(Front(frames[k]), g)
  BY <1>1 DEF HookTypes, FrameTypes
<1>8. /\ \A i \in 1 .. Len(frames'[k]) : \/ i \in 1 .. n - 1 /\ frames'[k][i] = frames[k][i]
                                         \/ i = n /\ frames'[k][i] = g
      /\ \A i \in 1 .. n - 1 : i \in 1 .. Len(frames'[k]) /\ frames'[k][i] = frames[k][i]
  <2>1. CASE frames'[k] = Front(frames[k])
    BY <1>3, <2>1
  <2>2. CASE frames'[k] = Append(Front(frames[k]), g)
    <3>1. /\ Len(frames'[k]) = n - 1 + 1 /\ frames'[k][n - 1 + 1] = g
          /\ \A i \in 1 .. n - 1 : frames'[k][i] = Front(frames[k])[i]
      BY <1>3, <1>5, <2>2, AppendProperties
    <3>2. n - 1 + 1 = n /\ \A i \in 1 .. n : i \in 1 .. n - 1 \/ i = n
      BY <1>3
    <3>3. \A i \in 1 .. n - 1 : i \in 1 .. n
      BY <1>3
    <3> QED
      BY <1>3, <3>1, <3>2, <3>3
  <2> QED
    BY <1>7, <2>1, <2>2
<1>9. \A i \in 1 .. n : i \in 1 .. n - 1 \/ i = n
  BY <1>3
<1>10. \A i \in 1 .. n - 1 : i \in 1 .. n /\ i # n
  BY <1>3
<1>11. NoNewCalls
  <2>1. ASSUME NEW l \in Task, NEW i \in 1 .. Len(frames'[l]), frames'[l][i].kind = "call"
        PROVE  i \in 1 .. Len(frames[l]) /\ frames[l][i].kind = "call" /\ frames'[l][i].tok = frames[l][i].tok
    <3>1. CASE l = k
      <4>1. i \in 1 .. n - 1 /\ frames'[k][i] = frames[k][i]
        BY <1>5, <1>8, <2>1, <3>1
      <4> QED
        BY <1>10, <2>1, <3>1, <4>1 DEF n
    <3>2. CASE l # k
      BY <1>6, <2>1, <3>2
    <3> QED
      BY <3>1, <3>2
  <2> QED
    BY <2>1 DEF NoNewCalls
<1>12. CallsStay
  <2>1. ASSUME NEW l \in Task, NEW i \in 1 .. Len(frames[l]), frames[l][i].kind = "call"
        PROVE  i \in 1 .. Len(frames'[l]) /\ frames'[l][i].kind = "call" /\ frames'[l][i].tok = frames[l][i].tok
    <3>1. CASE l = k
      <4>1. i \in 1 .. n - 1
        BY <1>1, <1>3, <1>9, <2>1, <3>1 DEF n
      <4> QED
        BY <1>8, <2>1, <3>1, <4>1
    <3>2. CASE l # k
      BY <1>6, <2>1, <3>2
    <3> QED
      BY <3>1, <3>2
  <2> QED
    BY <2>1 DEF CallsStay
<1>13. ASSUME NEW l \in Task, NEW i \in 1 .. Len(frames'[l]), frames'[l][i].kind = "import"
       PROVE  /\ i \in 1 .. Len(frames[l]) /\ frames'[l][i] = frames[l][i]
              /\ frames[l][i].name # f.name
  <2>1. i \in 1 .. Len(frames[l]) /\ frames'[l][i] = frames[l][i] /\ (l = k => i # n)
    <3>1. CASE l = k
      <4>1. i \in 1 .. n - 1 /\ frames'[k][i] = frames[k][i]
        BY <1>5, <1>8, <1>13, <3>1
      <4> QED
        BY <1>10, <3>1, <4>1 DEF n
    <3>2. CASE l # k
      BY <1>6, <1>13, <3>2
    <3> QED
      BY <3>1, <3>2
  <2>2. frames[l][i].kind = "import" /\ n \in 1 .. Len(frames[k]) /\ frames[k][n].kind = "import"
    BY <1>1, <1>3, <1>13, <2>1 DEF n
  <2>3. \A j \in 1 .. Len(frames[l]), o \in 1 .. Len(frames[k]) :
          frames[l][j].kind = "import" /\ frames[k][o].kind = "import"
            /\ frames[l][j].name = frames[k][o].name => l = k /\ j = o
    BY DEF EntriesFit
  <2>4. frames[l][i].name # frames[k][n].name
    BY <2>1, <2>2, <2>3
  <2> QED
    BY <1>3, <2>1, <2>4
<1>14. ASSUME NEW l \in Task, Sync(l) PROVE NestedIn(frames'[l], stack[ThreadOf[l]])
  <2>1. NestedIn(frames[l], stack[ThreadOf[l]])
    BY <1>14 DEF AllNested
  <2>2. CASE l = k
    <3> DEFINE st == stack[ThreadOf[k]]
    <3>1. st \in Seq(Token)
      BY DEF HookTypes, StackTypes, Thread
    <3>2. /\ NestedIn(Front(frames[k]), st)
          /\ f.around = IF Front(frames[k]) = <<>> THEN Nobody
                          ELSE Within(Front(frames[k])[Len(Front(frames[k]))])
      BY <1>1, <1>2, <2>1, <2>2, <3>1, NestedLeave DEF f
    <3>3. NestedIn(Append(Front(frames[k]), g), st)
      BY <1>3, <1>5, <3>1, <3>2, NestedEnter
    <3> QED
      BY <1>7, <2>2, <3>2, <3>3
  <2>3. CASE l # k
    BY <1>6, <2>1, <2>3
  <2> QED
    BY <2>2, <2>3
<1> QED
  BY <1>1, <1>3, <1>4, <1>11, <1>12, <1>13, <1>14 DEF f, n

(* The entries of other modules stay as they are, and the line of an import
   has its entry's start and parent. *)
LEMMA OnEndEntries ==
  ASSUME HookTypes, EntriesFit, NEW k \in Task, NEW m, OnEnd(k, m)
  PROVE  /\ \A i \in 1 .. Len(imports') :
              /\ i \in 1 .. Len(imports)
              /\ imports'[i].name = imports[i].name /\ imports[i].name # m
              /\ imports'[i].at = imports[i].at /\ imports'[i].parent = imports[i].parent
         /\ \/ seq' = seq /\ written' = written
            \/ \E e \in 1 .. Len(imports), d \in Nat :
                 imports[e].name = m /\ Emitted(k, imports[e].at, imports[e].parent, d)
<1>1. imports \in Seq(Entry) /\ DOMAIN imports = 1 .. Len(imports)
  BY DEF HookTypes, TimeTypes
<1>2. CASE \A i \in DOMAIN imports : imports[i].name # m
  <2>1. imports' = <<>> /\ seq' = seq /\ written' = written
    BY <1>2 DEF OnEnd
  <2>2. 1 .. Len(imports') = {}
    BY <2>1
  <2> QED
    BY <2>1, <2>2
<1>3. CASE ~ \A i \in DOMAIN imports : imports[i].name # m
  <2> DEFINE e == EntryOf(m)
             entry == imports[e]
             total == clock - entry.at
             rest == ChargeParent(SubSeq(imports, 1, e - 1), total)
  <2>1. e \in 1 .. Len(imports) /\ entry.name = m
    BY <1>1, <1>3, EntryOfModule
  <2>2. entry \in Entry /\ e - 1 \in Nat /\ e - 1 <= Len(imports)
    BY <1>1, <2>1
  <2>3. total \in Int
    <3> HIDE DEF entry
    <3> QED
      BY <2>2 DEF Entry, HookTypes, ClockTypes
  <2>4. /\ rest \in Seq(Entry) /\ Len(rest) = e - 1
        /\ \A i \in 1 .. e - 1 : /\ rest[i].name = imports[i].name
                                 /\ rest[i].at = imports[i].at
                                 /\ rest[i].parent = imports[i].parent
    <3>1. PICK p \in Nat : p = e - 1
      BY <2>2
    <3> HIDE DEF e, total
    <3>2. p <= Len(imports)
      BY <2>2, <3>1
    <3>3. LET low == ChargeParent(SubSeq(imports, 1, p), total)
          IN /\ low \in Seq(Entry)
             /\ Len(low) = p
             /\ \A i \in 1 .. p : /\ low[i].name = imports[i].name
                                  /\ low[i].at = imports[i].at
                                  /\ low[i].parent = imports[i].parent
                                  /\ low[i].child = IF i = p THEN imports[i].child + total
                                                              ELSE imports[i].child
      BY <1>1, <2>3, <3>2, EntriesBelow, Zenon
    <3> QED
      BY <3>1, <3>3, Zenon
  <2>5. /\ imports' = rest
        /\ IF total >= MinImport
             THEN Emitted(k, entry.at, entry.parent, Len(rest))
             ELSE UNCHANGED <<seq, written>>
    BY <1>3 DEF OnEnd
  <2> HIDE DEF e, entry, total, rest
  <2>6. \A i \in 1 .. e - 1 : i \in 1 .. Len(imports) /\ i # e
    BY <2>1
  <2>7. \A i \in 1 .. e - 1 : imports[i].name # m
    BY <2>1, <2>6 DEF EntriesFit, entry
  <2>8. \/ seq' = seq /\ written' = written
        \/ Emitted(k, entry.at, entry.parent, e - 1)
    BY <2>4, <2>5
  <2> QED
    BY <2>1, <2>2, <2>4, <2>5, <2>6, <2>7, <2>8 DEF entry
<1> QED
  BY <1>2, <1>3

(* An import ends: its line, if it gets one, has its frame's caller. *)
LEMMA ExecutedSpans ==
  ASSUME HookTypes, SpanInv, NEW k \in Task, NEW raised \in BOOLEAN, Executed(k, raised)
  PROVE  SpanInv'
<1> USE DEF SpanInv
<1> DEFINE f == Last(frames[k])
           n == Len(frames[k])
           m == f.name
<1>1. /\ f \in Frame /\ f.kind = "import" /\ f = frames[k][n] /\ n \in 1 .. Len(frames[k])
      /\ m \in DOMAIN modules /\ modules[m] = "executing" /\ f.around \in Surroundings
      /\ NoNewCalls /\ CallsStay
      /\ \A l \in Task : \A i \in 1 .. Len(frames'[l]) : frames'[l][i].kind = "import" =>
           /\ i \in 1 .. Len(frames[l]) /\ frames'[l][i] = frames[l][i]
           /\ frames[l][i].name # m
      /\ \A l \in Task : Sync(l) => NestedIn(frames'[l], stack[ThreadOf[l]])
  BY ImportFrameGoes
<1>2. /\ clock' = clock /\ stack' = stack /\ timing' = timing
      /\ IF timing THEN OnEnd(k, m) ELSE UNCHANGED <<imports, seq, written>>
      /\ \E s \in Stages : modules' = [modules EXCEPT ![m] = s]
  <2>1. \E s \in Stages : modules' = [modules EXCEPT ![m] = s]
    <3>1. CASE raised
      BY <3>1 DEF Executed, Stages
    <3>2. CASE ~ raised
      BY <3>2 DEF Executed, Stages
    <3> QED
      BY <3>1, <3>2
  <2> QED
    BY <2>1 DEF Executed
<1> HIDE DEF f, n, m
<1>3. /\ \A i \in 1 .. Len(imports') :
           /\ i \in 1 .. Len(imports)
           /\ imports'[i].name = imports[i].name /\ imports[i].name # m
           /\ imports'[i].at = imports[i].at /\ imports'[i].parent = imports[i].parent
      /\ \/ seq' = seq /\ written' = written
         \/ \E e \in 1 .. Len(imports), d \in Nat :
              imports[e].name = m /\ Emitted(k, imports[e].at, imports[e].parent, d)
  <2>1. CASE timing
    BY <1>2, <2>1, OnEndEntries
  <2>2. CASE ~ timing
    <3>1. imports' = <<>> /\ seq' = seq /\ written' = written
      BY <1>2, <2>2 DEF EntriesFit
    <3>2. 1 .. Len(imports') = {}
      BY <3>1
    <3> QED
      BY <3>1, <3>2
  <2> QED
    BY <2>1, <2>2
(* The line, if there is one. *)
<1>4. \/ seq' = seq /\ written' = written
      \/ \E x : /\ seq' = seq + 1 /\ written' = written \cup {x}
                /\ x.id = seq + 1 /\ x.parent < x.id /\ x.start \in Nat /\ x.start <= clock
                /\ Claimed(x.parent, x.start)
                /\ x.truth.kind = "import" /\ x.truth.task = k
                /\ Sync(k) => x.parent = x.truth.around.caller
  <2> SUFFICES ASSUME NEW e \in 1 .. Len(imports), NEW d \in Nat,
                      imports[e].name = m, Emitted(k, imports[e].at, imports[e].parent, d)
               PROVE  \E x : /\ seq' = seq + 1 /\ written' = written \cup {x}
                             /\ x.id = seq + 1 /\ x.parent < x.id /\ x.start \in Nat /\ x.start <= clock
                             /\ Claimed(x.parent, x.start)
                             /\ x.truth.kind = "import" /\ x.truth.task = k
                             /\ Sync(k) => x.parent = x.truth.around.caller
    BY <1>3
  <2> DEFINE entry == imports[e]
             x == [id |-> seq + 1, start |-> entry.at, end |-> clock, parent |-> entry.parent,
                   depth |-> d, truth |-> Truth(k, "import")]
  <2>1. entry \in Entry /\ Claimed(entry.parent, entry.at)
    <3>1. imports \in Seq(Entry)
      BY DEF HookTypes, TimeTypes
    <3>2. entry \in Entry
      BY <3>1
    <3> QED
      BY <3>2 DEF Claimed
  <2>2. seq' = seq + 1 /\ written' = written \cup {x}
    BY DEF Emitted
  <2>3. Truth(k, "import").kind = "import" /\ Truth(k, "import").task = k /\ Truth(k, "import").around = f.around
    BY DEF Truth, f
  <2>4. Sync(k) => entry.parent = f.around.caller
    BY <1>1 DEF EntriesFit, m
  <2>5. /\ x.id = seq + 1 /\ x.start = entry.at /\ x.parent = entry.parent /\ x.truth = Truth(k, "import")
    OBVIOUS
  <2> HIDE DEF x, entry
  <2>6. entry.at \in Nat /\ entry.parent \in Nat /\ seq \in Nat
    BY <2>1 DEF Entry, HookTypes, ClockTypes
  <2>7. entry.parent <= seq /\ entry.at <= clock
    BY <2>1, <2>6 DEF ParentsFirst
  <2>8. x.parent < x.id
    BY <2>5, <2>6, <2>7
  <2> QED
    BY <2>1, <2>2, <2>3, <2>4, <2>5, <2>6, <2>7, <2>8
<1>5. \A i \in 1 .. Len(imports') : Claimed(imports'[i].parent, imports'[i].at)
  BY <1>3 DEF Claimed
<1>6. ParentsFirst'
  <2>1. ASSUME NEW j \in Nat, NEW s \in Nat, Born(j, s)'
        PROVE  Born(j, s) \/ (j = seq + 1 /\ seq' = seq + 1 /\ s <= clock)
    <3>1. CASE \E x \in written' : x.id = j /\ x.start = s
      <4>1. CASE \E x \in written : x.id = j /\ x.start = s
        BY <4>1 DEF Born
      <4>2. CASE ~ \E x \in written : x.id = j /\ x.start = s
        BY <1>4, <3>1, <4>2
      <4> QED
        BY <4>1, <4>2
    <3>2. CASE \E l \in Task : \E o \in 1 .. Len(frames'[l]) :
                 frames'[l][o].kind = "call" /\ frames'[l][o].tok.id = j /\ frames'[l][o].tok.start = s
      <4>0. PICK l \in Task : \E o \in 1 .. Len(frames'[l]) :
              frames'[l][o].kind = "call" /\ frames'[l][o].tok.id = j /\ frames'[l][o].tok.start = s
        BY <3>2
      <4>1. PICK o \in 1 .. Len(frames'[l]) :
              frames'[l][o].kind = "call" /\ frames'[l][o].tok.id = j /\ frames'[l][o].tok.start = s
        BY <4>0
      <4>2. /\ o \in 1 .. Len(frames[l]) /\ frames[l][o].kind = "call"
            /\ frames'[l][o].tok = frames[l][o].tok
        BY <1>1, <4>1 DEF NoNewCalls
      <4> QED
        BY <4>1, <4>2 DEF Born
    <3> QED
      BY <2>1, <3>1, <3>2 DEF Born
  <2>2. ASSUME NEW p \in Nat, NEW s \in Nat, Claimed(p, s)' PROVE Claimed(p, s)
    <3>1. CASE \E x \in written' : x.parent = p /\ x.start = s
      <4>1. CASE \E x \in written : x.parent = p /\ x.start = s
        BY <4>1 DEF Claimed
      <4>2. CASE ~ \E x \in written : x.parent = p /\ x.start = s
        BY <1>4, <3>1, <4>2
      <4> QED
        BY <4>1, <4>2
    <3>2. CASE \E l \in Task : \E o \in 1 .. Len(frames'[l]) :
                 frames'[l][o].kind = "call" /\ frames'[l][o].tok.parent = p /\ frames'[l][o].tok.start = s
      <4>0. PICK l \in Task : \E o \in 1 .. Len(frames'[l]) :
              frames'[l][o].kind = "call" /\ frames'[l][o].tok.parent = p /\ frames'[l][o].tok.start = s
        BY <3>2
      <4>1. PICK o \in 1 .. Len(frames'[l]) :
              frames'[l][o].kind = "call" /\ frames'[l][o].tok.parent = p /\ frames'[l][o].tok.start = s
        BY <4>0
      <4>2. o \in 1 .. Len(frames[l]) /\ frames[l][o].kind = "call" /\ frames'[l][o].tok = frames[l][o].tok
        BY <1>1, <4>1 DEF NoNewCalls
      <4> QED
        BY <4>1, <4>2 DEF Claimed
    <3>3. CASE \E i \in 1 .. Len(imports') : imports'[i].parent = p /\ imports'[i].at = s
      BY <1>5, <3>3
    <3> QED
      BY <2>2, <3>1, <3>2, <3>3 DEF Claimed
  <2> QED
    BY <1>2, <1>4, <2>1, <2>2, ParentsKept
<1>7. IdsUnique'
  BY <1>1, <1>4, IdsKept
<1>8. StackOpen'
  BY <1>1, <1>2, StackKept
<1>9. AllNested'
  BY <1>1, <1>2 DEF AllNested
<1>10. \A j : Executing(j) /\ j # m => StillExecuting(j)
  BY <1>1, <1>2 DEF Executing, StillExecuting
<1>11. EntriesFit'
  <2>1. ~ timing' => imports' = <<>>
    BY <1>2 DEF EntriesFit
  <2>2. \A i, j \in 1 .. Len(imports') : imports'[i].name = imports'[j].name => i = j
    BY <1>3 DEF EntriesFit
  <2>3. \A i \in 1 .. Len(imports') : StillExecuting(imports'[i].name)
    BY <1>3, <1>10 DEF EntriesFit
  <2>4. ASSUME NEW l \in Task, NEW i \in 1 .. Len(frames'[l]), frames'[l][i].kind = "import"
        PROVE  /\ StillExecuting(frames'[l][i].name)
               /\ i \in 1 .. Len(frames[l]) /\ frames'[l][i] = frames[l][i]
    <3>1. /\ i \in 1 .. Len(frames[l]) /\ frames'[l][i] = frames[l][i] /\ frames[l][i].name # m
      BY <1>1, <2>4
    <3>2. Executing(frames[l][i].name)
      BY <2>4, <3>1 DEF EntriesFit
    <3> QED
      BY <1>10, <3>1, <3>2
  <2>5. ASSUME NEW l \in Task, NEW o \in Task,
               NEW i \in 1 .. Len(frames'[l]), NEW j \in 1 .. Len(frames'[o]),
               frames'[l][i].kind = "import", frames'[o][j].kind = "import",
               frames'[l][i].name = frames'[o][j].name
        PROVE  l = o /\ i = j
    <3>1. /\ i \in 1 .. Len(frames[l]) /\ frames'[l][i] = frames[l][i]
          /\ j \in 1 .. Len(frames[o]) /\ frames'[o][j] = frames[o][j]
      BY <2>4, <2>5
    <3>2. /\ frames[l][i].kind = "import" /\ frames[o][j].kind = "import"
          /\ frames[l][i].name = frames[o][j].name
      BY <2>5, <3>1
    <3> QED
      BY <3>1, <3>2 DEF EntriesFit
  <2>6. ASSUME NEW l \in Task, NEW i \in 1 .. Len(frames'[l]), NEW j \in 1 .. Len(imports'),
               Sync(l), frames'[l][i].kind = "import", frames'[l][i].name = imports'[j].name
        PROVE  imports'[j].parent = frames'[l][i].around.caller
    <3>1. i \in 1 .. Len(frames[l]) /\ frames'[l][i] = frames[l][i]
      BY <2>4, <2>6
    <3>2. /\ j \in 1 .. Len(imports) /\ imports'[j].name = imports[j].name
          /\ imports'[j].parent = imports[j].parent
      BY <1>3
    <3>3. frames[l][i].kind = "import" /\ frames[l][i].name = imports[j].name
      BY <2>6, <3>1, <3>2
    <3>4. imports[j].parent = frames[l][i].around.caller
      BY <2>6, <3>1, <3>2, <3>3 DEF EntriesFit
    <3> QED
      BY <3>1, <3>2, <3>4
  <2> QED
    BY <2>1, <2>2, <2>3, <2>4, <2>5, <2>6 DEF EntriesFit, Executing, StillExecuting
<1>12. LinesTrue'
  BY <1>4 DEF LinesTrue
<1> QED
  BY <1>6, <1>7, <1>8, <1>9, <1>11, <1>12

(* The end of an import leaves the spans as they are. *)
LEMMA ImportEndsSpans ==
  ASSUME HookTypes, SpanInv, NEW k \in Task, ImportEnds(k)
  PROVE  SpanInv'
<1> USE DEF SpanInv
<1> DEFINE m == Last(frames[k]).name
           n == Len(frames[k])
<1>1. /\ frames[k] # <<>> /\ Last(frames[k]).kind = "patch" /\ modules[m] = "patching"
      /\ clock' = clock /\ seq' = seq /\ stack' = stack /\ written' = written
      /\ imports' = imports /\ timing' = timing
  BY DEF ImportEnds, times
<1>2. modules' = [modules EXCEPT ![m] = "loaded"]
  BY DEF ImportEnds
<1>3. frames' = [frames EXCEPT ![k] = Front(@)]
  BY DEF ImportEnds
<1> HIDE DEF m
<1>4. frames[k] \in Seq(Frame) /\ n \in 1 .. Len(frames[k]) /\ frames[k][n].kind = "patch"
  <2>1. frames[k] \in Seq(Frame)
    BY DEF HookTypes, FrameTypes
  <2>2. Last(frames[k]) = frames[k][Len(frames[k])] /\ Len(frames[k]) \in Nat \ {0}
    BY <1>1, <2>1, FrontIsShorter
  <2> QED
    BY <1>1, <2>1, <2>2
<1>5. NoNewCalls /\ CallsStay /\ NoNewImports
  <2>1. Left(k)
    BY <1>1, <1>3, Leaving DEF HookTypes
  <2>2. NoNewCalls /\ NoNewImports
    BY <2>1 DEF Left, NoNewCalls, NoNewImports
  <2>3. CallsStay
    BY <1>4, <2>1 DEF Left, CallsStay
  <2> QED
    BY <2>2, <2>3
<1>6. ParentsFirst' /\ IdsUnique' /\ StackOpen' /\ LinesTrue'
  BY <1>1, <1>5, QuietSpans
<1>7. AllNested'
  <2> SUFFICES ASSUME NEW l \in Task, Sync(l) PROVE NestedIn(frames'[l], stack[ThreadOf[l]])
    BY <1>1 DEF AllNested
  <2>1. frames'[k] = Front(frames[k]) /\ \A o \in Task \ {k} : frames'[o] = frames[o]
    BY <1>1, <1>3, Leaving DEF HookTypes
  <2>2. NestedIn(frames[l], stack[ThreadOf[l]]) /\ stack[ThreadOf[l]] \in Seq(Token)
    BY DEF AllNested, HookTypes, StackTypes, Thread
  <2>3. CASE l = k
    <3>1. NestedIn(Front(frames[k]), stack[ThreadOf[k]])
      BY <1>1, <1>4, <2>2, <2>3, NestedLeave
    <3> QED
      BY <2>1, <2>3, <3>1
  <2>4. CASE l # k
    BY <2>1, <2>2, <2>4
  <2> QED
    BY <2>3, <2>4
<1>8. \A j : Executing(j) => Executing(j)'
  BY <1>1, <1>2 DEF Executing
<1>9. EntriesFit'
  <2>1. ASSUME NEW l \in Task, NEW i \in 1 .. Len(frames'[l]), frames'[l][i].kind = "import"
        PROVE  /\ i \in 1 .. Len(frames[l]) /\ frames[l][i].kind = "import"
               /\ frames'[l][i].name = frames[l][i].name /\ frames'[l][i].around = frames[l][i].around
    BY <1>5, <2>1 DEF NoNewImports
  <2>2. ASSUME NEW l \in Task, NEW o \in Task,
               NEW i \in 1 .. Len(frames'[l]), NEW j \in 1 .. Len(frames'[o]),
               frames'[l][i].kind = "import", frames'[o][j].kind = "import",
               frames'[l][i].name = frames'[o][j].name
        PROVE  l = o /\ i = j
    <3>1. /\ i \in 1 .. Len(frames[l]) /\ frames[l][i].kind = "import"
          /\ j \in 1 .. Len(frames[o]) /\ frames[o][j].kind = "import"
          /\ frames[l][i].name = frames[o][j].name
      BY <2>1, <2>2
    <3> QED
      BY <3>1 DEF EntriesFit
  <2>3. \A j : Executing(j) => StillExecuting(j)
    BY <1>8 DEF Executing, StillExecuting
  <2>4. ASSUME NEW l \in Task, NEW i \in 1 .. Len(frames'[l]), frames'[l][i].kind = "import"
        PROVE  /\ StillExecuting(frames'[l][i].name)
               /\ \A j \in 1 .. Len(imports) : Sync(l) /\ frames'[l][i].name = imports[j].name
                    => imports[j].parent = frames'[l][i].around.caller
    <3>1. Executing(frames[l][i].name)
      BY <2>1, <2>4 DEF EntriesFit
    <3> QED
      BY <2>1, <2>3, <2>4, <3>1 DEF EntriesFit
  <2>5. /\ ~ timing' => imports' = <<>>
        /\ \A i, j \in 1 .. Len(imports) : imports[i].name = imports[j].name => i = j
        /\ \A i \in 1 .. Len(imports) : StillExecuting(imports[i].name)
    BY <1>1, <2>3 DEF EntriesFit
  <2> QED
    BY <1>1, <2>2, <2>4, <2>5 DEF EntriesFit, Executing, StillExecuting
<1> QED
  BY <1>6, <1>7, <1>9

(* Time passes in the frames. *)
LEMMA TickSpans ==
  ASSUME HookTypes, SpanInv, Tick
  PROVE  SpanInv'
<1> USE DEF SpanInv
<1>1. /\ clock' = clock + 1 /\ seq' = seq /\ stack' = stack /\ written' = written
      /\ imports' = imports /\ timing' = timing /\ modules' = modules
      /\ frames' = [l \in Task |-> Spend(frames[l])]
  BY DEF Tick, times
<1>2. ASSUME NEW l \in Task
      PROVE  /\ frames[l] \in Seq(Frame) /\ frames'[l] = Spend(frames[l])
             /\ Len(frames'[l]) = Len(frames[l])
             /\ \A i \in 1 .. Len(frames[l]) :
                  /\ frames'[l][i].kind = frames[l][i].kind
                  /\ frames'[l][i].around = frames[l][i].around
                  /\ frames[l][i].kind # "call" => frames'[l][i].name = frames[l][i].name
                  /\ frames[l][i].kind # "import" => frames'[l][i] = frames[l][i]
  <2>1. frames[l] \in Seq(Frame) /\ frames'[l] = Spend(frames[l])
    BY <1>1 DEF HookTypes, FrameTypes
  <2> QED
    BY <2>1, SpendKeeps
<1>3. NoNewCalls
  BY <1>2 DEF NoNewCalls
<1>4. CallsStay
  BY <1>2 DEF CallsStay
<1>5. NoNewImports
  BY <1>2 DEF NoNewImports
<1>6. ParentsFirst' /\ IdsUnique' /\ StackOpen' /\ LinesTrue'
  BY <1>1, <1>3, <1>4, QuietSpans
<1>7. EntriesFit'
  BY <1>1, <1>5, EntriesKept
<1>8. AllNested'
  <2> SUFFICES ASSUME NEW l \in Task, Sync(l) PROVE NestedIn(Spend(frames[l]), stack[ThreadOf[l]])
    BY <1>1 DEF AllNested
  <2>1. /\ frames[l] \in Seq(Frame) /\ NestedIn(frames[l], stack[ThreadOf[l]])
        /\ stack[ThreadOf[l]] \in Seq(Token)
    BY <1>2 DEF AllNested, HookTypes, StackTypes, Thread
  <2> QED
    BY <2>1, NestedSpend
<1> QED
  BY <1>6, <1>7, <1>8

(* A forked child begins with empty stacks, and its parent's lines and
   entries. *)
LEMMA ForkSpans ==
  ASSUME HookTypes, SpanInv, Fork
  PROVE  SpanInv'
<1> USE DEF SpanInv
<1>1. /\ clock' = clock /\ seq' = seq /\ written' = written
      /\ imports' = imports /\ timing' = timing /\ modules' = modules
      /\ \A l \in Task : frames'[l] = <<>> /\ Len(frames'[l]) = 0
      /\ \A th \in Thread : stack'[th] = <<>> /\ Len(stack'[th]) = 0
  BY DEF Fork, times
<1>2. NoNewCalls /\ NoNewImports
  BY <1>1 DEF NoNewCalls, NoNewImports
<1>3. ParentsFirst'
  <2>1. ASSUME NEW n \in Nat, NEW s \in Nat, Born(n, s)' PROVE Born(n, s)
    BY <1>1, <2>1 DEF Born
  <2>2. ASSUME NEW p \in Nat, NEW s \in Nat, Claimed(p, s)' PROVE Claimed(p, s)
    BY <1>1, <2>2 DEF Claimed
  <2> QED
    BY <1>1, <2>1, <2>2, ParentsKept
<1>4. IdsUnique'
  BY <1>1, <1>2, IdsKept
<1>5. StackOpen'
  BY <1>1 DEF StackOpen
<1>6. AllNested'
  <2> SUFFICES ASSUME NEW l \in Task PROVE NestedIn(frames'[l], stack'[ThreadOf[l]])
    BY DEF AllNested
  <2>1. frames'[l] = <<>> /\ stack'[ThreadOf[l]] = <<>>
    BY <1>1 DEF Thread
  <2>2. NestedIn(<<>>, <<>>)
    <3>1. 1 .. Len(<<>>) = {} /\ 1 .. Len(<<>>) - 1 = {}
      OBVIOUS
    <3> QED
      BY <3>1 DEF NestedIn
  <2> QED
    BY <2>1, <2>2
<1>7. EntriesFit'
  BY <1>1, <1>2, EntriesKept
<1>8. LinesTrue'
  BY <1>1 DEF LinesTrue
<1> QED
  BY <1>3, <1>4, <1>5, <1>6, <1>7, <1>8

(* The nesting of spans is an invariant. *)
LEMMA SpansKept == HookTypes /\ SpanInv /\ [HookNext]_vars => SpanInv'
<1> SUFFICES ASSUME HookTypes, SpanInv, [HookNext]_vars PROVE SpanInv'
  OBVIOUS
<1> USE DEF SpanInv
<1>1. ASSUME UNCHANGED <<spanVars, imports, timing, modules>> PROVE SpanInv'
  <2>1. /\ clock' = clock /\ seq' = seq /\ stack' = stack /\ written' = written /\ frames' = frames
        /\ imports' = imports /\ timing' = timing /\ modules' = modules
    BY <1>1 DEF spanVars
  <2>2. NoNewCalls /\ CallsStay /\ NoNewImports
    BY <2>1 DEF NoNewCalls, CallsStay, NoNewImports
  <2>3. ParentsFirst' /\ IdsUnique' /\ StackOpen' /\ LinesTrue'
    BY <2>1, <2>2, QuietSpans
  <2>4. EntriesFit'
    BY <2>1, <2>2, EntriesKept
  <2>5. AllNested'
    BY <2>1 DEF AllNested
  <2> QED
    BY <2>3, <2>4, <2>5
<1>2. CASE UNCHANGED vars
  BY <1>1, <1>2 DEF vars, hookVars
<1>3. CASE StepEnds \/ EmitDeclared
  BY <1>1, <1>3 DEF StepEnds, EmitDeclared, times
<1>4. ASSUME NEW t \in Target, Patch(t) PROVE SpanInv'
  BY <1>1, <1>4 DEF Patch, times
<1>5. ASSUME NEW k \in Task, Begin(k) \/ Return(k) \/ Raise(k), UNCHANGED hookVars PROVE SpanInv'
  <2>1. CASE Begin(k)
    BY <1>5, <2>1, BeginSpans
  <2>2. MinDur \in Nat /\ 0 \in Nat
    BY SpanAssumption
  <2>3. CASE End(k, MinDur)
    BY <1>5, <2>2, <2>3, EndSpans
  <2>4. CASE End(k, 0)
    BY <1>5, <2>2, <2>4, EndSpans
  <2> QED
    BY <1>5, <2>1, <2>3, <2>4 DEF Return, Raise
<1>6. live \subseteq Task
  BY DEF HookTypes, LiveTypes
<1>7. ASSUME NEW t \in Target, Register(t) PROVE SpanInv'
  BY <1>1, <1>7 DEF Register, times
<1>8. ASSUME NEW k \in Task, NEW t \in Target, RunCallback(k, t) PROVE SpanInv'
  BY <1>1, <1>8 DEF RunCallback, times
<1> QED
  BY <1>2, <1>3, <1>4, <1>5, <1>6, <1>7, <1>8, ImportStartSpans, ExecutedSpans, ImportEndsSpans,
     TickSpans, ForkSpans DEF HookNext

(***************************************************************************)
(* For any tasks and threads, calls and imports: a line's parent is the    *)
(* call around it and its depth their number where one task runs on a      *)
(* thread, every span has a line of its own, no parent starts after its    *)
(* child, and a stack holds open calls only (cs_trace.py's begin, end and  *)
(* emit_span, cs_imports.py's _on_start and _on_end).                      *)
(***************************************************************************)
THEOREM SpansAreNested == HookSpec => []SpansNest
<1>1. HookStart => HookTypes /\ SpanInv
  BY HookStartsTyped, SpansStart
<1>2. HookTypes /\ SpanInv /\ [HookNext]_vars => (HookTypes /\ SpanInv)'
  BY HookTypesKept, SpansKept
<1>3. HookTypes /\ SpanInv => SpansNest
  <2> SUFFICES ASSUME HookTypes, SpanInv PROVE SpansNest
    OBVIOUS
  <2> USE DEF SpanInv
  <2>1. ASSUME NEW x \in written
        PROVE  /\ Sync(x.truth.task) =>
                    /\ x.parent = x.truth.around.caller
                    /\ x.truth.kind = "call" => x.depth = x.truth.around.calls
               /\ x.parent < x.id
    BY DEF LinesTrue, IdsUnique
  <2>2. ASSUME NEW x \in written, NEW y \in written
        PROVE  /\ x.id = y.id => x = y
               /\ y.id = x.parent => y.start <= x.start
    <3>1. x.id = y.id => x = y
      BY DEF IdsUnique
    <3>2. /\ y.id \in Nat /\ y.start \in Nat /\ x.start \in Nat
          /\ Born(y.id, y.start) /\ Claimed(x.parent, x.start)
      BY DEF HookTypes, LineTypes, Line, Born, Claimed
    <3>3. y.id = x.parent => y.start <= x.start
      BY <3>2 DEF ParentsFirst
    <3> QED
      BY <3>1, <3>3
  <2>3. ASSUME NEW th \in Thread PROVE ToSet(stack[th]) \subseteq OpenTokens(th)
    <3> SUFFICES ASSUME NEW tok \in ToSet(stack[th]) PROVE tok \in OpenTokens(th)
      OBVIOUS
    <3>1. stack[th] \in Seq(Token)
      BY DEF HookTypes, StackTypes
    <3>2. PICK i \in 1 .. Len(stack[th]) : stack[th][i] = tok
      BY <3>1 DEF ToSet
    <3>3. PICK k \in Task : \E j \in 1 .. Len(frames[k]) :
            ThreadOf[k] = th /\ frames[k][j].kind = "call" /\ frames[k][j].tok = stack[th][i]
      BY DEF StackOpen
    <3>4. PICK j \in 1 .. Len(frames[k]) :
            ThreadOf[k] = th /\ frames[k][j].kind = "call" /\ frames[k][j].tok = stack[th][i]
      BY <3>3
    <3>5. frames[k] \in Seq(Frame)
      BY DEF HookTypes, FrameTypes
    <3>6. frames[k][j] \in ToSet(frames[k])
      BY <3>5 DEF ToSet
    <3>7. tok \in {f.tok : f \in {g \in ToSet(frames[k]) : g.kind = "call"}}
      BY <3>2, <3>4, <3>6
    <3>8. k \in {l \in Task : ThreadOf[l] = th}
      BY <3>4
    <3> QED
      BY <3>7, <3>8 DEF OpenTokens
  <2> QED
    BY <2>1, <2>2, <2>3 DEF SpansNest
<1> QED
  BY <1>1, <1>2, <1>3, PTL DEF HookSpec

----------------------------------------------------------------------------
(* The times of imports. *)

(* Entry j times frame i of task k, until the next one's start. *)
Times(k, i, j) == frames[k][i].kind = "import" /\ frames[k][i].name = imports[j].name
Until(j) == IF j = Len(imports) THEN clock ELSE imports[j + 1].at

(* What an entry and its nested imports took lies before the next entry. *)
TimesInOrder ==
  /\ \A j \in 1 .. Len(imports) :
       imports[j].child >= 0 /\ imports[j].at + imports[j].child <= clock
  /\ \A i, j \in 1 .. Len(imports) : i < j => imports[i].at + imports[i].child <= imports[j].at
  /\ \A m \in DOMAIN modules : 0 <= self[m] /\ self[m] <= cum[m]

OneAtATime ==
  \A k, l \in Task : \A i \in 1 .. Len(frames[k]), j \in 1 .. Len(frames[l]) :
    frames[k][i].kind = "import" /\ frames[l][j].kind = "import" => k = l

(* Every import has its entry, in the same order and with nothing in between,
   which knows how long its frame was the innermost one. *)
FramesTimed ==
  /\ \A k \in Task : \A i \in 1 .. Len(frames[k]) : frames[k][i].kind = "import" =>
       \E j \in 1 .. Len(imports) : Times(k, i, j)
  /\ \A k \in Task : \A h, i \in 1 .. Len(frames[k]), j, l \in 1 .. Len(imports) :
       Times(k, h, j) /\ Times(k, i, l) /\ h < i => j < l
  /\ \A k \in Task : \A i \in 1 .. Len(frames[k]), j, l \in 1 .. Len(imports) :
       Times(k, i, j) /\ j < l => \E h \in 1 .. Len(frames[k]) : Times(k, h, l)
  /\ \A k \in Task : \A i \in 1 .. Len(frames[k]), j \in 1 .. Len(imports) :
       Times(k, i, j) => frames[k][i].mine = Until(j) - imports[j].at - imports[j].child

TimeInv ==
  /\ TimesInOrder
  /\ ~ overlapped => OneAtATime
  /\ timing /\ ~ overlapped => FramesTimed /\ self = own

(* The types that the arithmetic rests on. *)
LEMMA TimeFacts ==
  ASSUME HookTypes
  PROVE  /\ clock \in Nat /\ imports \in Seq(Entry) /\ Len(imports) \in Nat
         /\ DOMAIN imports = 1 .. Len(imports)
         /\ \A j \in 1 .. Len(imports) :
              imports[j] \in Entry /\ imports[j].at \in Nat /\ imports[j].child \in Int
         /\ \A k \in Task : /\ frames[k] \in Seq(Frame) /\ Len(frames[k]) \in Nat
                            /\ DOMAIN frames[k] = 1 .. Len(frames[k])
                            /\ \A i \in 1 .. Len(frames[k]) : frames[k][i] \in Frame
         /\ cum \in [DOMAIN modules -> Int] /\ self \in [DOMAIN modules -> Int]
         /\ own \in [DOMAIN modules -> Int]
<1>1. clock \in Nat /\ imports \in Seq(Entry) /\ Len(imports) \in Nat /\ DOMAIN imports = 1 .. Len(imports)
  BY DEF HookTypes, ClockTypes, TimeTypes
<1>2. \A j \in 1 .. Len(imports) : imports[j] \in Entry
  BY <1>1
<1>3. \A e \in Entry : e.at \in Nat /\ e.child \in Int
  BY DEF Entry
<1>4. \A k \in Task : /\ frames[k] \in Seq(Frame) /\ Len(frames[k]) \in Nat
                      /\ DOMAIN frames[k] = 1 .. Len(frames[k])
                      /\ \A i \in 1 .. Len(frames[k]) : frames[k][i] \in Frame
  BY DEF HookTypes, FrameTypes
<1> QED
  BY <1>1, <1>2, <1>3, <1>4 DEF HookTypes, TimeTypes

(* Nothing has been imported at the start. *)
LEMMA TimesStart == HookStart => TimeInv
<1> SUFFICES ASSUME HookStart PROVE TimeInv
  OBVIOUS
<1>1. /\ imports = <<>> /\ Len(imports) = 0
      /\ \A k \in Task : frames[k] = <<>> /\ Len(frames[k]) = 0
      /\ self = cum /\ own = cum
      /\ \A m \in DOMAIN modules : cum[m] = 0
  BY DEF HookStart, HookInit, SpanInit
<1>2. TimesInOrder
  BY <1>1 DEF TimesInOrder
<1>3. OneAtATime /\ FramesTimed
  BY <1>1 DEF OneAtATime, FramesTimed
<1> QED
  BY <1>1, <1>2, <1>3 DEF TimeInv

(* The imports that tasks are in are the same, and as far. *)
ImportsSame ==
  \A k \in Task :
    /\ \A i \in 1 .. Len(frames'[k]) : frames'[k][i].kind = "import" =>
         i \in 1 .. Len(frames[k]) /\ frames'[k][i] = frames[k][i]
    /\ \A i \in 1 .. Len(frames[k]) : frames[k][i].kind = "import" =>
         i \in 1 .. Len(frames'[k]) /\ frames'[k][i] = frames[k][i]

(* Calls, callbacks and the steps of the installation take no part in times. *)
LEMMA QuietTimes ==
  ASSUME HookTypes, TimeInv, ImportsSame,
         UNCHANGED <<clock, imports, timing, cum, self, overlapped, own>>,
         DOMAIN modules' = DOMAIN modules
  PROVE  TimeInv'
<1> USE DEF TimeInv
<1>1. /\ clock' = clock /\ imports' = imports /\ timing' = timing /\ cum' = cum /\ self' = self
      /\ overlapped' = overlapped /\ own' = own
  OBVIOUS
<1>2. TimesInOrder'
  BY <1>1 DEF TimesInOrder
<1>3. ASSUME OneAtATime PROVE OneAtATime'
  <2>1. \A k \in Task : \A i \in 1 .. Len(frames'[k]) : frames'[k][i].kind = "import" =>
          i \in 1 .. Len(frames[k]) /\ frames[k][i].kind = "import"
    BY DEF ImportsSame
  <2> QED
    BY <1>3, <2>1 DEF OneAtATime
<1>4. ASSUME FramesTimed PROVE FramesTimed'
  <2>1. ASSUME NEW k \in Task, NEW i \in 1 .. Len(frames'[k]), NEW j \in 1 .. Len(imports), Times(k, i, j)'
        PROVE  i \in 1 .. Len(frames[k]) /\ Times(k, i, j) /\ frames'[k][i] = frames[k][i]
    BY <1>1, <2>1 DEF Times, ImportsSame
  <2>2. ASSUME NEW k \in Task, NEW i \in 1 .. Len(frames[k]), NEW j \in 1 .. Len(imports), Times(k, i, j)
        PROVE  i \in 1 .. Len(frames'[k]) /\ Times(k, i, j)'
    BY <1>1, <2>2 DEF Times, ImportsSame
  <2>3. ASSUME NEW k \in Task, NEW i \in 1 .. Len(frames'[k]), frames'[k][i].kind = "import"
        PROVE  \E j \in 1 .. Len(imports) : Times(k, i, j)'
    <3>1. i \in 1 .. Len(frames[k]) /\ frames[k][i].kind = "import"
      BY <2>3 DEF ImportsSame
    <3>2. PICK j \in 1 .. Len(imports) : Times(k, i, j)
      BY <1>4, <3>1 DEF FramesTimed
    <3> QED
      BY <2>2, <3>1, <3>2
  <2>4. ASSUME NEW k \in Task, NEW h \in 1 .. Len(frames'[k]), NEW i \in 1 .. Len(frames'[k]),
               NEW j \in 1 .. Len(imports), NEW l \in 1 .. Len(imports),
               Times(k, h, j)', Times(k, i, l)', h < i
        PROVE  j < l
    BY <1>4, <2>1, <2>4 DEF FramesTimed
  <2>5. ASSUME NEW k \in Task, NEW i \in 1 .. Len(frames'[k]),
               NEW j \in 1 .. Len(imports), NEW l \in 1 .. Len(imports), Times(k, i, j)', j < l
        PROVE  \E h \in 1 .. Len(frames'[k]) : Times(k, h, l)'
    <3>1. i \in 1 .. Len(frames[k]) /\ Times(k, i, j)
      BY <2>1, <2>5
    <3>2. PICK h \in 1 .. Len(frames[k]) : Times(k, h, l)
      BY <1>4, <2>5, <3>1 DEF FramesTimed
    <3> QED
      BY <2>2, <3>2
  <2>6. ASSUME NEW k \in Task, NEW i \in 1 .. Len(frames'[k]), NEW j \in 1 .. Len(imports), Times(k, i, j)'
        PROVE  frames'[k][i].mine = Until(j)' - imports[j].at - imports[j].child
    <3>1. i \in 1 .. Len(frames[k]) /\ Times(k, i, j) /\ frames'[k][i] = frames[k][i]
      BY <2>1, <2>6
    <3>2. Until(j)' = Until(j)
      BY <1>1 DEF Until
    <3>3. frames[k][i].mine = Until(j) - imports[j].at - imports[j].child
      BY <1>4, <3>1 DEF FramesTimed
    <3> QED
      BY <3>1, <3>2, <3>3
  <2> QED
    BY <1>1, <2>3, <2>4, <2>5, <2>6 DEF FramesTimed
<1> QED
  BY <1>1, <1>2, <1>3, <1>4

(* A forked child is in no import. *)
LEMMA ForkTimes == ASSUME HookTypes, TimeInv, Fork PROVE TimeInv'
<1> USE DEF TimeInv
<1>1. /\ clock' = clock /\ imports' = imports /\ timing' = timing /\ cum' = cum /\ self' = self
      /\ overlapped' = overlapped /\ own' = own /\ modules' = modules
      /\ \A k \in Task : frames'[k] = <<>> /\ Len(frames'[k]) = 0
  BY DEF Fork, times
<1>2. TimesInOrder'
  BY <1>1 DEF TimesInOrder
<1>3. OneAtATime' /\ FramesTimed'
  BY <1>1 DEF OneAtATime, FramesTimed
<1> QED
  BY <1>1, <1>2, <1>3

(* The entry of the import that a task is innermost in is the last one. *)
LEMMA InnermostIsOnTop ==
  ASSUME HookTypes, EntriesFit, FramesTimed, NEW k \in Task,
         NEW i \in 1 .. Len(frames[k]), NEW j \in 1 .. Len(imports), Times(k, i, j),
         \A h \in i + 1 .. Len(frames[k]) : frames[k][h].kind # "import"
  PROVE  j = Len(imports)
<1> SUFFICES ASSUME j # Len(imports) PROVE FALSE
  OBVIOUS
<1>0. Len(imports) \in Nat /\ Len(frames[k]) \in Nat
  BY TimeFacts, Zenon
<1>1. Len(imports) \in 1 .. Len(imports) /\ j < Len(imports)
  BY <1>0
<1>2. PICK h \in 1 .. Len(frames[k]) : Times(k, h, Len(imports))
  BY <1>1 DEF FramesTimed
<1>3. h \notin i + 1 .. Len(frames[k])
  BY <1>2 DEF Times
<1>4. h < i \/ h = i
  BY <1>0, <1>2, <1>3
<1>5. h # i
  BY <1>1, <1>2 DEF Times, EntriesFit
<1>6. Len(imports) < j
  BY <1>1, <1>2, <1>4, <1>5 DEF FramesTimed
<1> QED
  BY <1>0, <1>1, <1>6

(* A tick is charged to the innermost import, whose entry is the last. *)
LEMMA TickTimes == ASSUME HookTypes, SpanInv, TimeInv, Tick PROVE TimeInv'
<1> USE DEF TimeInv
<1>1. /\ clock' = clock + 1 /\ imports' = imports /\ timing' = timing /\ cum' = cum /\ self' = self
      /\ overlapped' = overlapped /\ own' = own /\ modules' = modules
      /\ frames' = [k \in Task |-> Spend(frames[k])]
  BY DEF Tick, times
<1>2. ASSUME NEW k \in Task
      PROVE  /\ Len(frames'[k]) = Len(frames[k])
             /\ \A i \in 1 .. Len(frames[k]) :
                  /\ frames'[k][i].kind = frames[k][i].kind
                  /\ frames[k][i].kind = "import" =>
                       /\ frames'[k][i].name = frames[k][i].name
                       /\ frames'[k][i].mine = IF \A j \in i + 1 .. Len(frames[k]) : frames[k][j].kind # "import"
                                                 THEN frames[k][i].mine + 1 ELSE frames[k][i].mine
  <2>1. frames[k] \in Seq(Frame) /\ frames'[k] = Spend(frames[k])
    BY <1>1, TimeFacts
  <2> QED
    BY <2>1, SpendKeeps
<1>3. TimesInOrder'
  BY <1>1, TimeFacts DEF TimesInOrder
<1>4. ASSUME OneAtATime PROVE OneAtATime'
  BY <1>2, <1>4 DEF OneAtATime
<1>5. ASSUME FramesTimed PROVE FramesTimed'
  <2>1. ASSUME NEW k \in Task, NEW i \in 1 .. Len(frames[k]), NEW j \in 1 .. Len(imports)
        PROVE  Times(k, i, j)' <=> Times(k, i, j)
    BY <1>1, <1>2 DEF Times
  <2>2. ASSUME NEW k \in Task, NEW i \in 1 .. Len(frames[k]), NEW j \in 1 .. Len(imports), Times(k, i, j)
        PROVE  frames'[k][i].mine = Until(j)' - imports[j].at - imports[j].child
    <3>1. /\ frames[k][i].mine = Until(j) - imports[j].at - imports[j].child
          /\ frames[k][i].kind = "import"
      BY <1>5, <2>2 DEF FramesTimed, Times
    <3>2. CASE \A h \in i + 1 .. Len(frames[k]) : frames[k][h].kind # "import"
      <4>1. j = Len(imports)
        BY <1>5, <2>2, <3>2, InnermostIsOnTop DEF SpanInv
      <4>2. Until(j) = clock /\ Until(j)' = clock + 1
        BY <1>1, <4>1 DEF Until
      <4>3. frames'[k][i].mine = frames[k][i].mine + 1
        BY <1>2, <3>1, <3>2
      <4>4. \A a, b, c \in Int : a + 1 - b - c = (a - b - c) + 1
        OBVIOUS
      <4>5. clock \in Int /\ imports[j].at \in Int /\ imports[j].child \in Int
        BY TimeFacts, SMTT(20)
      <4>6. clock + 1 - imports[j].at - imports[j].child = (clock - imports[j].at - imports[j].child) + 1
        BY <4>4, <4>5
      <4>7. frames[k][i].mine = clock - imports[j].at - imports[j].child
        BY <3>1, <4>2
      <4>8. frames'[k][i].mine = clock + 1 - imports[j].at - imports[j].child
        BY <4>3, <4>6, <4>7
      <4> QED
        BY <4>2, <4>5, <4>8
    <3>3. CASE ~ \A h \in i + 1 .. Len(frames[k]) : frames[k][h].kind # "import"
      <4>1. PICK h \in i + 1 .. Len(frames[k]) : frames[k][h].kind = "import"
        BY <3>3
      <4>2. h \in 1 .. Len(frames[k]) /\ i < h
        BY <4>1, TimeFacts
      <4>3. PICK l \in 1 .. Len(imports) : Times(k, h, l)
        BY <1>5, <4>1, <4>2 DEF FramesTimed
      <4>4. j < l
        BY <1>5, <2>2, <4>2, <4>3 DEF FramesTimed
      <4>5. j # Len(imports)
        <5>1. Len(imports) \in Nat
          BY TimeFacts
        <5> QED
          BY <4>3, <4>4, <5>1
      <4>6. Until(j)' = Until(j)
        BY <1>1, <4>5 DEF Until
      <4>7. frames'[k][i].mine = frames[k][i].mine
        BY <1>2, <3>1, <3>3
      <4> QED
        BY <3>1, <4>6, <4>7
    <3> QED
      BY <3>2, <3>3
  <2>3. \A k \in Task : \A i \in 1 .. Len(frames'[k]) : i \in 1 .. Len(frames[k])
    BY <1>2
  <2>4. ASSUME NEW k \in Task, NEW i \in 1 .. Len(frames[k]), frames'[k][i].kind = "import"
        PROVE  \E j \in 1 .. Len(imports) : Times(k, i, j)'
    <3>1. frames[k][i].kind = "import"
      BY <1>2, <2>4
    <3> QED
      BY <1>5, <2>1, <3>1 DEF FramesTimed
  <2>5. ASSUME NEW k \in Task, NEW i \in 1 .. Len(frames[k]),
               NEW j \in 1 .. Len(imports), NEW l \in 1 .. Len(imports), Times(k, i, j)', j < l
        PROVE  \E h \in 1 .. Len(frames[k]) : Times(k, h, l)'
    BY <1>5, <2>1, <2>5 DEF FramesTimed
  <2>6. ASSUME NEW k \in Task, NEW h \in 1 .. Len(frames[k]), NEW i \in 1 .. Len(frames[k]),
               NEW j \in 1 .. Len(imports), NEW l \in 1 .. Len(imports),
               Times(k, h, j)', Times(k, i, l)', h < i
        PROVE  j < l
    BY <1>5, <2>1, <2>6 DEF FramesTimed
  <2> QED
    BY <1>1, <1>2, <2>1, <2>2, <2>4, <2>5, <2>6 DEF FramesTimed
<1> QED
  BY <1>1, <1>3, <1>4, <1>5

(* An import begins in the frame that is innermost, or on two tasks at once. *)
LEMMA ImportStartTimes ==
  ASSUME HookTypes, SpanInv, TimeInv, NEW k \in Task, NEW m \in Module, ImportStart(k, m)
  PROVE  TimeInv'
<1> USE DEF TimeInv
<1> DEFINE f == [kind |-> "import", name |-> m, mine |-> 0, around |-> Around(k)]
           e == [name |-> m, at |-> clock, child |-> 0, parent |-> CurrentSpan(k)]
<1>0. PICK n, N : n = Len(frames[k]) + 1 /\ N = Len(imports) + 1
  OBVIOUS
<1>1. /\ modules[m] = "absent" /\ DOMAIN modules' = DOMAIN modules
      /\ frames' = [frames EXCEPT ![k] = Append(@, f)]
      /\ IF timing THEN imports' = Append(imports, e) ELSE imports' = imports
      /\ clock' = clock /\ timing' = timing /\ cum' = cum /\ self' = self /\ own' = own
      /\ overlapped' = (overlapped \/ \E j \in Task \ {k} : Importing(j))
  BY DEF ImportStart, OnStart
<1>2. f \in Frame /\ f.kind = "import" /\ f.name = m /\ f.mine = 0
  BY AroundType DEF Frame, ImportFrame, HookTypes
<1>3. e \in Entry /\ e.name = m /\ e.at = clock /\ e.child = 0
  BY CurrentSpanType DEF Entry, HookTypes, ClockTypes
<1> HIDE DEF f, e
<1>4. Entered(k, f)
  BY <1>1, <1>2, Entering DEF HookTypes
<1>5. Len(imports) \in Nat /\ Len(frames[k]) \in Nat /\ n = Len(frames[k]) + 1 /\ N = Len(imports) + 1
      /\ clock \in Nat /\ imports \in Seq(Entry)
  BY <1>0, TimeFacts
<1>6. ASSUME timing
      PROVE  /\ Len(imports') = N /\ imports'[N] = e
             /\ \A j \in 1 .. Len(imports) : imports'[j] = imports[j]
  BY <1>1, <1>3, <1>5, <1>6, AppendProperties
<1>7. TimesInOrder'
  <2>1. CASE ~ timing
    BY <1>1, <2>1 DEF TimesInOrder
  <2>2. CASE timing
    <3>1. ASSUME NEW j \in 1 .. Len(imports')
          PROVE  imports'[j].child >= 0 /\ imports'[j].at + imports'[j].child <= clock
      <4>1. CASE j = N
        BY <1>3, <1>5, <1>6, <2>2, <4>1
      <4>2. CASE j # N
        <5>1. j \in 1 .. Len(imports)
          BY <1>5, <1>6, <2>2, <4>2
        <5> QED
          BY <1>6, <2>2, <5>1 DEF TimesInOrder
      <4> QED
        BY <4>1, <4>2
    <3>2. ASSUME NEW i \in 1 .. Len(imports'), NEW j \in 1 .. Len(imports'), i < j
          PROVE  imports'[i].at + imports'[i].child <= imports'[j].at
      <4>1. i \in 1 .. Len(imports) /\ imports'[i] = imports[i]
        BY <1>5, <1>6, <2>2, <3>2
      <4>2. CASE j = N
        <5>1. imports'[j].at = clock
          BY <1>3, <1>6, <2>2, <4>2
        <5> QED
          BY <4>1, <5>1 DEF TimesInOrder
      <4>3. CASE j # N
        <5>1. j \in 1 .. Len(imports) /\ imports'[j] = imports[j]
          BY <1>5, <1>6, <2>2, <4>3
        <5> QED
          BY <3>2, <4>1, <5>1 DEF TimesInOrder
      <4> QED
        BY <4>2, <4>3
    <3> QED
      BY <1>1, <3>1, <3>2 DEF TimesInOrder
  <2> QED
    BY <2>1, <2>2
<1>8. ASSUME ~ overlapped'
      PROVE  /\ ~ overlapped /\ OneAtATime
             /\ \A l \in Task \ {k} : \A i \in 1 .. Len(frames[l]) : frames[l][i].kind # "import"
  <2>1. ~ overlapped /\ \A l \in Task \ {k} : ~ Importing(l)
    BY <1>1, <1>8, Zenon
  <2>2. ASSUME NEW l \in Task \ {k}, NEW i \in 1 .. Len(frames[l]) PROVE frames[l][i].kind # "import"
    <3>1. frames[l][i] \in ToSet(frames[l])
      BY TimeFacts DEF ToSet
    <3> QED
      BY <2>1, <3>1 DEF Importing, Inside
  <2> QED
    BY <2>1, <2>2
<1>9. ASSUME ~ overlapped', NEW l \in Task, NEW i \in 1 .. Len(frames'[l]), frames'[l][i].kind = "import"
      PROVE  /\ l = k
             /\ \/ i = n /\ frames'[l][i] = f
                \/ i \in 1 .. Len(frames[k]) /\ frames'[l][i] = frames[k][i]
  <2>1. \/ l = k /\ i = n /\ frames'[l][i] = f
        \/ i \in 1 .. Len(frames[l]) /\ frames'[l][i] = frames[l][i]
    BY <1>4, <1>5 DEF Entered
  <2> QED
    BY <1>8, <1>9, <2>1
<1>10. ~ overlapped' => OneAtATime'
  <2> SUFFICES ASSUME ~ overlapped' PROVE OneAtATime'
    OBVIOUS
  <2> QED
    BY <1>9 DEF OneAtATime
<1>11. ASSUME timing, ~ overlapped' PROVE FramesTimed'
  <2>1. FramesTimed /\ EntriesFit
    BY <1>8, <1>11 DEF SpanInv
  <2>2. /\ Len(imports') = N /\ imports'[N] = e
        /\ \A j \in 1 .. Len(imports) : imports'[j] = imports[j]
    BY <1>6, <1>11
  <2>3. /\ n \in 1 .. Len(frames'[k]) /\ frames'[k][n] = f /\ N \in 1 .. Len(imports')
        /\ \A i \in 1 .. Len(frames[k]) : i \in 1 .. Len(frames'[k]) /\ frames'[k][i] = frames[k][i]
        /\ \A j \in 1 .. Len(imports) : j \in 1 .. Len(imports')
    BY <1>4, <1>5, <2>2 DEF Entered
  <2>4. /\ \A i \in 1 .. Len(frames[k]) : frames[k][i].kind = "import" => frames[k][i].name # m
        /\ \A j \in 1 .. Len(imports) : imports[j].name # m
    BY <1>1, <2>1 DEF EntriesFit, Executing
  <2>5. ASSUME NEW l \in Task, NEW i \in 1 .. Len(frames'[l]), NEW j \in 1 .. Len(imports'), Times(l, i, j)'
        PROVE  /\ l = k
               /\ \/ i = n /\ j = N
                  \/ i \in 1 .. Len(frames[k]) /\ j \in 1 .. Len(imports) /\ Times(k, i, j)
    <3>1. frames'[l][i].kind = "import" /\ frames'[l][i].name = imports'[j].name
      BY <2>5 DEF Times
    <3>2. /\ l = k
          /\ \/ i = n /\ frames'[l][i] = f
             \/ i \in 1 .. Len(frames[k]) /\ frames'[l][i] = frames[k][i]
      BY <1>9, <1>11, <3>1
    <3>3. \/ j = N /\ imports'[j] = e
          \/ j \in 1 .. Len(imports) /\ imports'[j] = imports[j]
      <4>1. j = N \/ j \in 1 .. Len(imports)
        BY <1>5, <2>2
      <4> QED
        BY <2>2, <4>1
    <3> QED
      BY <1>2, <1>3, <2>4, <3>1, <3>2, <3>3 DEF Times
  <2>6. Times(k, n, N)'
    BY <1>2, <1>3, <2>2, <2>3 DEF Times
  <2>7. ASSUME NEW i \in 1 .. Len(frames[k]), NEW j \in 1 .. Len(imports), Times(k, i, j)
        PROVE  Times(k, i, j)'
    BY <2>2, <2>3, <2>7 DEF Times
  <2>8. ASSUME NEW l \in Task, NEW i \in 1 .. Len(frames'[l]), frames'[l][i].kind = "import"
        PROVE  \E j \in 1 .. Len(imports') : Times(l, i, j)'
    <3>1. /\ l = k
          /\ \/ i = n /\ frames'[l][i] = f
             \/ i \in 1 .. Len(frames[k]) /\ frames'[l][i] = frames[k][i]
      BY <1>9, <1>11, <2>8
    <3>2. CASE i = n
      BY <2>3, <2>6, <3>1, <3>2
    <3>3. CASE i \in 1 .. Len(frames[k]) /\ frames'[l][i] = frames[k][i]
      <4>1. PICK j \in 1 .. Len(imports) : Times(k, i, j)
        BY <2>1, <2>8, <3>3 DEF FramesTimed
      <4> QED
        BY <2>3, <2>7, <3>1, <3>3, <4>1
    <3> QED
      BY <3>1, <3>2, <3>3
  <2>9. ASSUME NEW l \in Task, NEW h \in 1 .. Len(frames'[l]), NEW i \in 1 .. Len(frames'[l]),
               NEW j \in 1 .. Len(imports'), NEW o \in 1 .. Len(imports'),
               Times(l, h, j)', Times(l, i, o)', h < i
        PROVE  j < o
    <3>1. /\ l = k
          /\ \/ h = n /\ j = N
             \/ h \in 1 .. Len(frames[k]) /\ j \in 1 .. Len(imports) /\ Times(k, h, j)
          /\ \/ i = n /\ o = N
             \/ i \in 1 .. Len(frames[k]) /\ o \in 1 .. Len(imports) /\ Times(k, i, o)
      BY <2>5, <2>9
    <3>2. h # n
      BY <1>5, <2>9, <3>1
    <3>3. CASE i = n /\ o = N
      BY <1>5, <3>1, <3>2, <3>3
    <3>4. CASE i \in 1 .. Len(frames[k]) /\ o \in 1 .. Len(imports) /\ Times(k, i, o)
      BY <2>1, <2>9, <3>1, <3>2, <3>4 DEF FramesTimed
    <3> QED
      BY <3>1, <3>3, <3>4
  <2>10. ASSUME NEW l \in Task, NEW i \in 1 .. Len(frames'[l]),
                NEW j \in 1 .. Len(imports'), NEW o \in 1 .. Len(imports'), Times(l, i, j)', j < o
         PROVE  \E h \in 1 .. Len(frames'[l]) : Times(l, h, o)'
    <3>1. CASE o = N
      BY <2>3, <2>5, <2>6, <2>10, <3>1
    <3>2. CASE o # N
      <4>1. o \in 1 .. Len(imports) /\ j # N
        BY <1>5, <2>2, <2>10, <3>2
      <4>2. l = k /\ i \in 1 .. Len(frames[k]) /\ j \in 1 .. Len(imports) /\ Times(k, i, j)
        BY <2>5, <2>10, <4>1
      <4>3. PICK h \in 1 .. Len(frames[k]) : Times(k, h, o)
        BY <2>1, <2>10, <4>1, <4>2 DEF FramesTimed
      <4> QED
        BY <2>3, <2>7, <4>1, <4>2, <4>3
    <3> QED
      BY <3>1, <3>2
  <2>11. ASSUME NEW l \in Task, NEW i \in 1 .. Len(frames'[l]), NEW j \in 1 .. Len(imports'), Times(l, i, j)'
         PROVE  frames'[l][i].mine = Until(j)' - imports'[j].at - imports'[j].child
    <3>1. /\ l = k
          /\ \/ i = n /\ j = N
             \/ i \in 1 .. Len(frames[k]) /\ j \in 1 .. Len(imports) /\ Times(k, i, j)
      BY <2>5, <2>11
    <3>2. CASE i = n /\ j = N
      <4>1. Until(j)' = clock
        BY <1>1, <2>2, <3>2 DEF Until
      <4>2. imports'[j].at = clock /\ imports'[j].child = 0 /\ frames'[l][i].mine = 0
        BY <1>2, <1>3, <2>2, <2>3, <3>1, <3>2
      <4>3. clock - clock - 0 = 0
        BY <1>5
      <4> QED
        BY <4>1, <4>2, <4>3
    <3>3. CASE i \in 1 .. Len(frames[k]) /\ j \in 1 .. Len(imports) /\ Times(k, i, j)
      <4>1. frames[k][i].mine = Until(j) - imports[j].at - imports[j].child
        BY <2>1, <3>3 DEF FramesTimed
      <4>2. frames'[l][i] = frames[k][i] /\ imports'[j] = imports[j]
        BY <2>2, <2>3, <3>1, <3>3
      <4>3. Until(j)' = Until(j)
        <5>1. j # N
          BY <1>5, <3>3
        <5>2. CASE j = Len(imports)
          <6>1. j + 1 = N
            BY <1>5, <5>2
          <6>2. imports'[j + 1].at = clock
            BY <1>3, <2>2, <6>1
          <6>3. Until(j)' = imports'[j + 1].at
            BY <2>2, <5>1 DEF Until
          <6> QED
            BY <5>2, <6>2, <6>3 DEF Until
        <5>3. CASE j # Len(imports)
          <6>1. j + 1 \in 1 .. Len(imports)
            BY <1>5, <3>3, <5>3
          <6> QED
            BY <2>2, <5>1, <5>3, <6>1 DEF Until
        <5> QED
          BY <5>2, <5>3
      <4> QED
        BY <4>1, <4>2, <4>3
    <3> QED
      BY <3>1, <3>2, <3>3
  <2> QED
    BY <2>8, <2>9, <2>10, <2>11 DEF FramesTimed
<1>12. timing' /\ ~ overlapped' => self' = own'
  BY <1>1, <1>8
<1> QED
  BY <1>1, <1>7, <1>10, <1>11, <1>12

(* What the end of an import does to the tables of cs_imports: its entry and
   those above it go, and it is charged to the one below; or, if it has none,
   all go. *)
LEMMA OnEndTimes ==
  ASSUME HookTypes, NEW k \in Task, NEW m \in DOMAIN modules, OnEnd(k, m)
  PROVE  \/ /\ \A j \in 1 .. Len(imports) : imports[j].name # m
            /\ imports' = <<>> /\ cum' = cum /\ self' = self
         \/ \E e \in 1 .. Len(imports) :
              LET total == clock - imports[e].at IN
              /\ imports[e].name = m
              /\ Len(imports') = e - 1
              /\ \A i \in 1 .. e - 1 :
                   /\ imports'[i].name = imports[i].name /\ imports'[i].at = imports[i].at
                   /\ imports'[i].child = IF i = e - 1 THEN imports[i].child + total ELSE imports[i].child
              /\ cum' = [cum EXCEPT ![m] = @ + total]
              /\ self' = [self EXCEPT ![m] = @ + total - imports[e].child]
<1>1. imports \in Seq(Entry) /\ DOMAIN imports = 1 .. Len(imports) /\ Len(imports) \in Nat /\ clock \in Nat
  BY TimeFacts
<1>2. CASE \A i \in DOMAIN imports : imports[i].name # m
  BY <1>1, <1>2 DEF OnEnd
<1>3. CASE ~ \A i \in DOMAIN imports : imports[i].name # m
  <2>1. PICK e : e = EntryOf(m)
    OBVIOUS
  <2>2. e \in 1 .. Len(imports) /\ imports[e].name = m
    BY <1>1, <1>3, <2>1, EntryOfModule
  <2> DEFINE total == clock - imports[e].at
             rest == ChargeParent(SubSeq(imports, 1, e - 1), total)
  <2>3. e - 1 \in Nat /\ e - 1 <= Len(imports)
    BY <1>1, <2>2
  <2>4. total \in Int
    BY <1>1, <2>2, TimeFacts
  <2>5. /\ imports' = rest
        /\ cum' = [cum EXCEPT ![m] = @ + total]
        /\ self' = [self EXCEPT ![m] = @ + total - imports[e].child]
    BY <1>3, <2>1 DEF OnEnd
  <2> HIDE DEF total
  <2>6. /\ Len(rest) = e - 1
        /\ \A i \in 1 .. e - 1 : /\ rest[i].name = imports[i].name
                                 /\ rest[i].at = imports[i].at
                                 /\ rest[i].child = IF i = e - 1 THEN imports[i].child + total
                                                                 ELSE imports[i].child
    <3>1. PICK p \in Nat : p = e - 1
      BY <2>3
    <3>2. p <= Len(imports)
      BY <2>3, <3>1
    <3>3. LET low == ChargeParent(SubSeq(imports, 1, p), total)
          IN /\ low \in Seq(Entry)
             /\ Len(low) = p
             /\ \A i \in 1 .. p : /\ low[i].name = imports[i].name
                                  /\ low[i].at = imports[i].at
                                  /\ low[i].parent = imports[i].parent
                                  /\ low[i].child = IF i = p THEN imports[i].child + total
                                                              ELSE imports[i].child
      BY <1>1, <2>4, <3>2, EntriesBelow, Zenon
    <3> QED
      BY <3>1, <3>3
  <2> HIDE DEF rest
  <2>7. /\ Len(imports') = e - 1
        /\ \A i \in 1 .. e - 1 :
             /\ imports'[i].name = imports[i].name /\ imports'[i].at = imports[i].at
             /\ imports'[i].child = IF i = e - 1 THEN imports[i].child + total ELSE imports[i].child
    BY <2>5, <2>6
  <2> USE DEF total
  <2> QED
    BY <2>2, <2>5, <2>7
<1> QED
  BY <1>2, <1>3

(* The order of times and the sums' bounds survive it. *)
LEMMA OnEndInOrder ==
  ASSUME HookTypes, TimesInOrder, NEW k \in Task, NEW m \in DOMAIN modules, OnEnd(k, m),
         clock' = clock, DOMAIN modules' = DOMAIN modules
  PROVE  TimesInOrder'
<1>1. /\ Len(imports) \in Nat /\ clock \in Nat
      /\ \A j \in 1 .. Len(imports) : imports[j].at \in Nat /\ imports[j].child \in Int
      /\ cum \in [DOMAIN modules -> Int] /\ self \in [DOMAIN modules -> Int]
  BY TimeFacts
<1>2. CASE imports' = <<>> /\ cum' = cum /\ self' = self
  <2>1. Len(imports') = 0
    BY <1>2
  <2> QED
    BY <1>2, <2>1 DEF TimesInOrder
<1>3. ASSUME NEW e \in 1 .. Len(imports), NEW total, total = clock - imports[e].at,
             Len(imports') = e - 1,
             \A i \in 1 .. e - 1 :
               /\ imports'[i].name = imports[i].name /\ imports'[i].at = imports[i].at
               /\ imports'[i].child = IF i = e - 1 THEN imports[i].child + total ELSE imports[i].child,
             cum' = [cum EXCEPT ![m] = @ + total],
             self' = [self EXCEPT ![m] = @ + total - imports[e].child]
      PROVE  TimesInOrder'
  <2>1. total \in Int /\ total >= 0 /\ imports[e].child >= 0 /\ imports[e].child <= total
        /\ imports[e].at \in Int /\ imports[e].child \in Int
    BY <1>1, <1>3 DEF TimesInOrder
  <2>2. ASSUME NEW i \in 1 .. e - 1
        PROVE  /\ imports'[i].at = imports[i].at /\ imports[i].at \in Int /\ imports[i].child \in Int
               /\ i \in 1 .. Len(imports) /\ i < e
               /\ imports[i].child >= 0 /\ imports[i].at + imports[i].child <= imports[e].at
               /\ imports[i].at + imports[i].child <= clock
               /\ imports'[i].child = IF i = e - 1 THEN imports[i].child + total ELSE imports[i].child
    <3>1. i \in 1 .. Len(imports) /\ i < e
      BY <1>1
    <3>2. imports[i].at \in Int /\ imports[i].child \in Int
      BY <1>1, <3>1
    <3>3. imports[i].child >= 0 /\ imports[i].at + imports[i].child <= clock
      BY <3>1 DEF TimesInOrder
    <3>4. imports[i].at + imports[i].child <= imports[e].at
      BY <3>1 DEF TimesInOrder
    <3> QED
      BY <1>3, <3>1, <3>2, <3>3, <3>4
  <2>3. ASSUME NEW i \in 1 .. e - 1
        PROVE  imports'[i].child >= 0 /\ imports'[i].at + imports'[i].child <= clock
    <3>1. CASE i = e - 1
      <4>1. \A a, c, b, t \in Int : c >= 0 /\ a + c <= b /\ t = clock - b /\ t >= 0 =>
              c + t >= 0 /\ a + (c + t) <= clock
        BY <1>1
      <4>2. imports[i].child + total >= 0 /\ imports[i].at + (imports[i].child + total) <= clock
        BY <1>3, <2>1, <2>2, <4>1
      <4> QED
        BY <2>2, <3>1, <4>2
    <3>2. CASE i # e - 1
      BY <1>1, <2>2, <3>2
    <3> QED
      BY <3>1, <3>2
  <2>4. ASSUME NEW i \in 1 .. e - 1, NEW j \in 1 .. e - 1, i < j
        PROVE  imports'[i].at + imports'[i].child <= imports'[j].at
    <3>1. i # e - 1 /\ i \in 1 .. Len(imports) /\ j \in 1 .. Len(imports)
      BY <1>1, <2>4
    <3>2. imports'[i].child = imports[i].child /\ imports'[i].at = imports[i].at /\ imports'[j].at = imports[j].at
      BY <2>2, <3>1
    <3>3. imports[i].at + imports[i].child <= imports[j].at
      BY <2>4, <3>1 DEF TimesInOrder
    <3> QED
      BY <3>2, <3>3
  <2>5. ASSUME NEW x \in DOMAIN modules PROVE 0 <= self'[x] /\ self'[x] <= cum'[x]
    <3>1. 0 <= self[x] /\ self[x] <= cum[x] /\ self[x] \in Int /\ cum[x] \in Int
      BY <1>1 DEF TimesInOrder
    <3>2. CASE x = m
      <4>1. cum'[x] = cum[x] + total /\ self'[x] = self[x] + total - imports[e].child
        BY <1>1, <1>3, <3>2
      <4> QED
        BY <2>1, <3>1, <4>1
    <3>3. CASE x # m
      BY <1>1, <1>3, <3>1, <3>3
    <3> QED
      BY <3>2, <3>3
  <2> QED
    BY <1>3, <2>3, <2>4, <2>5 DEF TimesInOrder
<1>4. ASSUME NEW e \in 1 .. Len(imports),
             LET total == clock - imports[e].at IN
             /\ imports[e].name = m
             /\ Len(imports') = e - 1
             /\ \A i \in 1 .. e - 1 :
                  /\ imports'[i].name = imports[i].name /\ imports'[i].at = imports[i].at
                  /\ imports'[i].child = IF i = e - 1 THEN imports[i].child + total ELSE imports[i].child
             /\ cum' = [cum EXCEPT ![m] = @ + total]
             /\ self' = [self EXCEPT ![m] = @ + total - imports[e].child]
      PROVE  TimesInOrder'
  <2>1. PICK total : total = clock - imports[e].at
    OBVIOUS
  <2>2. /\ Len(imports') = e - 1
        /\ \A i \in 1 .. e - 1 :
             /\ imports'[i].name = imports[i].name /\ imports'[i].at = imports[i].at
             /\ imports'[i].child = IF i = e - 1 THEN imports[i].child + total ELSE imports[i].child
        /\ cum' = [cum EXCEPT ![m] = @ + total]
        /\ self' = [self EXCEPT ![m] = @ + total - imports[e].child]
    BY <1>4, <2>1, Zenon
  <2> QED
    BY <1>3, <2>1, <2>2
<1> QED
  BY <1>2, <1>4, OnEndTimes, Zenon

(* What leaving an import does to the frames. *)
LEMMA ImportsBelow ==
  ASSUME HookTypes, SpanInv, NEW k \in Task, NEW raised \in BOOLEAN, Executed(k, raised)
  PROVE  \A l \in Task : \A i \in 1 .. Len(frames[l]) :
           frames[l][i].kind = "import" /\ (l = k => i # Len(frames[k])) =>
             i \in 1 .. Len(frames'[l]) /\ frames'[l][i] = frames[l][i]
<1> DEFINE g == [kind |-> "patch", name |-> Last(frames[k]).name, around |-> Last(frames[k]).around]
           n == Len(frames[k])
<1>1. /\ frames[k] # <<>>
      /\ \/ frames' = [frames EXCEPT ![k] = Front(@)]
         \/ frames' = [frames EXCEPT ![k] = Append(Front(@), g)]
  BY DEF Executed
<1>2. frames \in [Task -> Seq(Frame)] /\ frames[k] \in Seq(Frame)
  BY DEF HookTypes, FrameTypes
<1>3. /\ Front(frames[k]) \in Seq(Frame) /\ Len(Front(frames[k])) = n - 1 /\ n \in Nat \ {0}
      /\ \A i \in 1 .. n - 1 : Front(frames[k])[i] = frames[k][i]
  BY <1>1, <1>2, FrontIsShorter
<1> HIDE DEF g, n
<1>4. /\ Len(Append(Front(frames[k]), g)) = n
      /\ \A i \in 1 .. n - 1 : Append(Front(frames[k]), g)[i] = frames[k][i]
  <2>1. Append(Front(frames[k]), g) = Append(Front(frames[k]), g) /\ n - 1 + 1 = n
    BY <1>3
  <2>2. /\ Len(Append(Front(frames[k]), g)) = n - 1 + 1
        /\ \A i \in 1 .. n - 1 : Append(Front(frames[k]), g)[i] = Front(frames[k])[i]
    BY <1>3
  <2> QED
    BY <1>3, <2>1, <2>2
<1>5. /\ frames'[k] = Front(frames[k]) \/ frames'[k] = Append(Front(frames[k]), g)
      /\ \A l \in Task \ {k} : frames'[l] = frames[l]
  BY <1>1, <1>2
<1>6. \A i \in 1 .. n - 1 : i \in 1 .. Len(frames'[k]) /\ frames'[k][i] = frames[k][i]
  <2>1. CASE frames'[k] = Front(frames[k])
    BY <1>3, <2>1
  <2>2. CASE frames'[k] = Append(Front(frames[k]), g)
    BY <1>3, <1>4, <2>2
  <2> QED
    BY <1>5, <2>1, <2>2
<1>7. \A i \in 1 .. Len(frames[k]) : i # Len(frames[k]) => i \in 1 .. n - 1
  BY <1>3 DEF n
<1> QED
  BY <1>5, <1>6, <1>7

(* The end of an import is charged what its frame took, and its importer's
   frame is as far as before. *)
LEMMA ExecutedTimes ==
  ASSUME HookTypes, SpanInv, TimeInv, NEW k \in Task, NEW raised \in BOOLEAN, Executed(k, raised)
  PROVE  TimeInv'
<1> USE DEF TimeInv
<1>1. PICK m, n :
        /\ m = Last(frames[k]).name /\ n = Len(frames[k]) /\ n \in 1 .. Len(frames[k])
        /\ frames[k][n].kind = "import" /\ frames[k][n].name = m /\ frames[k][n] = Last(frames[k])
        /\ m \in DOMAIN modules
        /\ \A l \in Task : \A i \in 1 .. Len(frames'[l]) : frames'[l][i].kind = "import" =>
             i \in 1 .. Len(frames[l]) /\ frames'[l][i] = frames[l][i] /\ frames[l][i].name # m
  BY ImportFrameGoes
<1>2. /\ clock' = clock /\ timing' = timing /\ overlapped' = overlapped
      /\ IF timing THEN OnEnd(k, m) ELSE imports' = imports /\ cum' = cum /\ self' = self
      /\ own' = [own EXCEPT ![m] = @ + frames[k][n].mine]
      /\ DOMAIN modules' = DOMAIN modules
  BY <1>1 DEF Executed
<1>3. TimesInOrder'
  <2>1. CASE timing
    BY <1>1, <1>2, <2>1, OnEndInOrder
  <2>2. CASE ~ timing
    BY <1>2, <2>2 DEF TimesInOrder
  <2> QED
    BY <2>1, <2>2
<1>4. ASSUME OneAtATime PROVE OneAtATime'
  <2>1. \A l \in Task : \A i \in 1 .. Len(frames'[l]) : frames'[l][i].kind = "import" =>
          i \in 1 .. Len(frames[l]) /\ frames[l][i].kind = "import"
    BY <1>1
  <2> QED
    BY <1>4, <2>1 DEF OneAtATime
<1>5. ASSUME timing, FramesTimed, self = own PROVE FramesTimed' /\ self' = own'
  <2>1. PICK e \in 1 .. Len(imports) : Times(k, n, e)
    BY <1>1, <1>5 DEF FramesTimed
  <2>2. e = Len(imports) /\ imports[e].name = m
    <3>1. n + 1 .. Len(frames[k]) = {}
      BY <1>1, TimeFacts
    <3> QED
      BY <1>1, <1>5, <2>1, <3>1, InnermostIsOnTop DEF SpanInv, Times
  <2> DEFINE total == clock - imports[e].at
  <2>3. /\ Len(imports') = e - 1
        /\ \A i \in 1 .. e - 1 :
             /\ imports'[i].name = imports[i].name /\ imports'[i].at = imports[i].at
             /\ imports'[i].child = IF i = e - 1 THEN imports[i].child + total ELSE imports[i].child
        /\ self' = [self EXCEPT ![m] = @ + total - imports[e].child]
    <3>0. OnEnd(k, m) /\ ~ \A j \in 1 .. Len(imports) : imports[j].name # m
      BY <1>2, <1>5, <2>2
    <3>1. PICK x \in 1 .. Len(imports) :
            LET t == clock - imports[x].at IN
            /\ imports[x].name = m
            /\ Len(imports') = x - 1
            /\ \A i \in 1 .. x - 1 :
                 /\ imports'[i].name = imports[i].name /\ imports'[i].at = imports[i].at
                 /\ imports'[i].child = IF i = x - 1 THEN imports[i].child + t ELSE imports[i].child
            /\ cum' = [cum EXCEPT ![m] = @ + t]
            /\ self' = [self EXCEPT ![m] = @ + t - imports[x].child]
      BY <1>1, <3>0, OnEndTimes, Zenon
    <3>2. x = e
      BY <2>2, <3>1 DEF SpanInv, EntriesFit
    <3> QED
      BY <3>1, <3>2
  <2>4. /\ Len(imports) \in Nat /\ clock \in Int /\ total \in Int
        /\ \A j \in 1 .. Len(imports) : imports[j].at \in Int /\ imports[j].child \in Int
    <3>1. /\ Len(imports) \in Nat /\ clock \in Nat
          /\ \A j \in 1 .. Len(imports) : imports[j].at \in Nat /\ imports[j].child \in Int
      BY TimeFacts, Zenon
    <3> QED
      BY <2>1, <3>1
  <2>5. self' = own'
    <3>1. frames[k][n].mine = clock - imports[e].at - imports[e].child
      BY <1>1, <1>5, <2>1, <2>2 DEF FramesTimed, Until
    <3>2. \A a, b, c, d \in Int : a + (b - c) - d = a + (b - c - d)
      OBVIOUS
    <3>3. self \in [DOMAIN modules -> Int] /\ own \in [DOMAIN modules -> Int]
      BY TimeFacts
    <3>4. imports[e].at \in Int /\ imports[e].child \in Int /\ self[m] \in Int
      BY <1>1, <2>1, <2>4, <3>3
    <3>5. self[m] + total - imports[e].child = self[m] + frames[k][n].mine
      BY <2>4, <3>1, <3>2, <3>4
    <3> HIDE DEF total
    <3>6. self' = [self EXCEPT ![m] = self[m] + total - imports[e].child]
      BY <2>3
    <3>7. own' = [self EXCEPT ![m] = self[m] + frames[k][n].mine]
      BY <1>2, <1>5
    <3> QED
      BY <3>5, <3>6, <3>7
  <2> HIDE DEF total
  <2>6. ASSUME NEW l \in Task, NEW i \in 1 .. Len(frames'[l]), frames'[l][i].kind = "import"
        PROVE  /\ i \in 1 .. Len(frames[l]) /\ frames'[l][i] = frames[l][i]
               /\ \A j \in 1 .. Len(imports) : Times(l, i, j) => j \in 1 .. e - 1
    <3>1. /\ i \in 1 .. Len(frames[l]) /\ frames'[l][i] = frames[l][i] /\ frames[l][i].name # m
      BY <1>1, <2>6
    <3>2. ASSUME NEW j \in 1 .. Len(imports), Times(l, i, j) PROVE j \in 1 .. e - 1
      <4>1. j # e
        BY <2>2, <3>1, <3>2 DEF Times
      <4> QED
        BY <2>2, <2>4, <4>1
    <3> QED
      BY <3>1, <3>2
  <2>7. \A j \in 1 .. Len(imports') : j \in 1 .. e - 1 /\ j \in 1 .. Len(imports) /\ j # e
    BY <2>2, <2>3, <2>4
  <2>8. \A l \in Task : \A i \in 1 .. Len(frames'[l]), j \in 1 .. Len(imports') :
          Times(l, i, j)' => i \in 1 .. Len(frames[l]) /\ Times(l, i, j) /\ frames'[l][i] = frames[l][i]
    BY <2>3, <2>6, <2>7 DEF Times
  <2>9. ASSUME NEW l \in Task, NEW i \in 1 .. Len(frames'[l]), frames'[l][i].kind = "import"
        PROVE  \E j \in 1 .. Len(imports') : Times(l, i, j)'
    <3>1. i \in 1 .. Len(frames[l]) /\ frames'[l][i] = frames[l][i] /\ frames[l][i].kind = "import"
      BY <2>6, <2>9
    <3>2. PICK j \in 1 .. Len(imports) : Times(l, i, j)
      BY <1>5, <3>1 DEF FramesTimed
    <3>3. j \in 1 .. e - 1
      BY <2>6, <2>9, <3>2
    <3>4. imports'[j].name = imports[j].name /\ j \in 1 .. Len(imports')
      BY <2>3, <3>3
    <3>5. Times(l, i, j)'
      BY <3>1, <3>2, <3>4 DEF Times
    <3> QED
      BY <3>4, <3>5
  <2>10. ASSUME NEW l \in Task, NEW h \in 1 .. Len(frames'[l]), NEW i \in 1 .. Len(frames'[l]),
                NEW j \in 1 .. Len(imports'), NEW o \in 1 .. Len(imports'),
                Times(l, h, j)', Times(l, i, o)', h < i
         PROVE  j < o
    BY <1>5, <2>7, <2>8, <2>10 DEF FramesTimed
  <2>11. ASSUME NEW l \in Task, NEW i \in 1 .. Len(frames'[l]),
                NEW j \in 1 .. Len(imports'), NEW o \in 1 .. Len(imports'), Times(l, i, j)', j < o
         PROVE  \E h \in 1 .. Len(frames'[l]) : Times(l, h, o)'
    <3>1. i \in 1 .. Len(frames[l]) /\ Times(l, i, j)
      BY <2>8, <2>11
    <3>2. j \in 1 .. Len(imports) /\ o \in 1 .. Len(imports) /\ o # e /\ o \in 1 .. e - 1
      BY <2>7
    <3>3. PICK h \in 1 .. Len(frames[l]) : Times(l, h, o)
      BY <1>5, <2>11, <3>1, <3>2 DEF FramesTimed
    <3>4. l = k => h # Len(frames[k])
      <4> SUFFICES ASSUME l = k, h = Len(frames[k]) PROVE FALSE
        OBVIOUS
      <4>1. imports[o].name = imports[e].name
        BY <1>1, <2>2, <3>3 DEF Times
      <4> QED
        BY <3>2, <4>1 DEF SpanInv, EntriesFit
    <3>5. h \in 1 .. Len(frames'[l]) /\ frames'[l][h] = frames[l][h]
      BY <3>3, <3>4, ImportsBelow DEF Times
    <3>6. Times(l, h, o)'
      BY <2>3, <3>2, <3>3, <3>5 DEF Times
    <3> QED
      BY <3>5, <3>6
  <2>12. ASSUME NEW l \in Task, NEW i \in 1 .. Len(frames'[l]), NEW j \in 1 .. Len(imports'), Times(l, i, j)'
         PROVE  frames'[l][i].mine = Until(j)' - imports'[j].at - imports'[j].child
    <3>1. i \in 1 .. Len(frames[l]) /\ Times(l, i, j) /\ frames'[l][i] = frames[l][i]
      BY <2>8, <2>12
    <3>2. j \in 1 .. Len(imports) /\ j \in 1 .. e - 1 /\ j # e
      BY <2>7
    <3>3. frames'[l][i].mine = Until(j) - imports[j].at - imports[j].child
      BY <1>5, <3>1, <3>2 DEF FramesTimed
    <3>4. Until(j) = imports[j + 1].at
      BY <2>2, <3>2 DEF Until
    <3>5. imports'[j].at = imports[j].at
      BY <2>3, <3>2
    <3>6. CASE j = e - 1
      <4>1. Until(j)' = clock
        BY <1>2, <2>3, <3>6 DEF Until
      <4>2. j + 1 = e
        BY <2>1, <3>6
      <4>3. imports'[j].child = imports[j].child + (clock - imports[e].at)
        BY <2>3, <3>2, <3>6 DEF total
      <4>4. \A a, b, c, t \in Int : b - a - c = t - a - (c + (t - b))
        OBVIOUS
      <4>5. clock \in Int /\ imports[e].at \in Int /\ imports[j].at \in Int /\ imports[j].child \in Int
        BY <2>1, <2>4, <3>2
      <4>6. imports[e].at - imports[j].at - imports[j].child
              = clock - imports[j].at - (imports[j].child + (clock - imports[e].at))
        BY <4>4, <4>5, SMTT(20)
      <4>7. frames'[l][i].mine = imports[e].at - imports[j].at - imports[j].child
        BY <3>3, <3>4, <4>2
      <4>8. frames'[l][i].mine = clock - imports[j].at - (imports[j].child + (clock - imports[e].at))
        BY <4>6, <4>7
      <4> QED
        BY <3>5, <4>1, <4>3, <4>8
    <3>7. CASE j # e - 1
      <4>1. j + 1 \in 1 .. e - 1 /\ j # Len(imports')
        BY <2>3, <3>2, <3>7
      <4>2. Until(j)' = imports[j + 1].at
        BY <2>3, <4>1 DEF Until
      <4>3. imports'[j].child = imports[j].child
        BY <2>3, <3>2, <3>7
      <4> QED
        BY <3>3, <3>4, <3>5, <4>2, <4>3
    <3> QED
      BY <3>6, <3>7
  <2>13. FramesTimed'
    BY <2>9, <2>10, <2>11, <2>12 DEF FramesTimed
  <2> QED
    BY <2>5, <2>13
<1> QED
  BY <1>2, <1>3, <1>4, <1>5

(* A frame that is no import comes or goes: the imports stay. *)
LEMMA EnteringKeepsImports ==
  ASSUME HookTypes, NEW k \in Task, NEW f \in Frame, f.kind # "import",
         frames' = [frames EXCEPT ![k] = Append(@, f)]
  PROVE  ImportsSame
<1>1. /\ frames'[k] = Append(frames[k], f) /\ \A l \in Task \ {k} : frames'[l] = frames[l]
  BY Entering DEF HookTypes
<1>2. frames[k] \in Seq(Frame) /\ Len(frames[k]) \in Nat
  BY TimeFacts
<1>3. /\ Len(frames'[k]) = Len(frames[k]) + 1 /\ frames'[k][Len(frames[k]) + 1] = f
      /\ \A i \in 1 .. Len(frames[k]) : frames'[k][i] = frames[k][i]
  BY <1>1, <1>2, AppendProperties
<1>4. \A i \in 1 .. Len(frames'[k]) : i \in 1 .. Len(frames[k]) \/ i = Len(frames[k]) + 1
  BY <1>2, <1>3
<1>5. \A i \in 1 .. Len(frames[k]) : i \in 1 .. Len(frames'[k])
  BY <1>2, <1>3
<1> QED
  BY <1>1, <1>3, <1>4, <1>5 DEF ImportsSame

(* As above. *)
LEMMA LeavingKeepsImports ==
  ASSUME HookTypes, NEW k \in Task, frames[k] # <<>>, Last(frames[k]).kind # "import",
         frames' = [frames EXCEPT ![k] = Front(@)]
  PROVE  ImportsSame
<1>1. /\ frames'[k] = Front(frames[k]) /\ \A l \in Task \ {k} : frames'[l] = frames[l]
  BY Leaving DEF HookTypes
<1>2. frames[k] \in Seq(Frame)
  BY TimeFacts
<1>3. /\ Len(frames'[k]) = Len(frames[k]) - 1 /\ Len(frames[k]) \in Nat \ {0}
      /\ frames[k][Len(frames[k])].kind # "import"
      /\ \A i \in 1 .. Len(frames[k]) - 1 : frames'[k][i] = frames[k][i]
  BY <1>1, <1>2, FrontIsShorter
<1>4. \A i \in 1 .. Len(frames'[k]) : i \in 1 .. Len(frames[k]) /\ i \in 1 .. Len(frames[k]) - 1
  BY <1>3
<1>5. \A i \in 1 .. Len(frames[k]) : i = Len(frames[k]) \/ (i \in 1 .. Len(frames'[k]) /\ i \in 1 .. Len(frames[k]) - 1)
  BY <1>3
<1> QED
  BY <1>1, <1>3, <1>4, <1>5 DEF ImportsSame

(* The bookkeeping of times is an invariant. *)
LEMMA TimesKept == HookTypes /\ SpanInv /\ TimeInv /\ [HookNext]_vars => TimeInv'
<1> SUFFICES ASSUME HookTypes, SpanInv, TimeInv, [HookNext]_vars PROVE TimeInv'
  OBVIOUS
<1>1. ASSUME UNCHANGED <<frames, clock, timing, modules, times>> PROVE TimeInv'
  <2>1. ImportsSame
    BY <1>1 DEF ImportsSame
  <2> QED
    BY <1>1, <2>1, QuietTimes DEF times
<1>2. CASE UNCHANGED vars
  BY <1>1, <1>2 DEF vars, hookVars, spanVars, times
<1>3. CASE StepEnds \/ EmitDeclared
  BY <1>1, <1>3 DEF StepEnds, EmitDeclared, spanVars
<1>4. ASSUME NEW t \in Target, Patch(t) PROVE TimeInv'
  BY <1>1, <1>4 DEF Patch, spanVars
<1>5. ASSUME NEW k \in Task, Begin(k) \/ Return(k) \/ Raise(k), UNCHANGED hookVars PROVE TimeInv'
  <2>1. UNCHANGED <<clock, imports, timing, cum, self, overlapped, own, modules>>
    BY <1>5 DEF Begin, Return, Raise, End, hookVars
  <2>2. ImportsSame
    <3>1. CASE Begin(k)
      <4> DEFINE tok == [id |-> seq + 1, start |-> clock, parent |-> CurrentSpan(k)]
                 f == [kind |-> "call", tok |-> tok, around |-> Around(k)]
      <4>1. tok \in Token
        BY CurrentSpanType DEF HookTypes, ClockTypes, Token
      <4>2. f \in Frame /\ f.kind # "import"
        BY <4>1, AroundType DEF HookTypes, Frame, CallFrame
      <4>3. frames' = [frames EXCEPT ![k] = Append(@, f)]
        BY <3>1 DEF Begin
      <4> HIDE DEF f
      <4> QED
        BY <4>2, <4>3, EnteringKeepsImports
    <3>2. CASE ~ Begin(k)
      BY <1>5, <3>2, LeavingKeepsImports DEF Return, Raise, End
    <3> QED
      BY <3>1, <3>2
  <2> QED
    BY <2>1, <2>2, QuietTimes
<1>6. ASSUME NEW k \in Task, NEW t \in Target, RunCallback(k, t) PROVE TimeInv'
  BY <1>1, <1>6 DEF RunCallback, spanVars
<1>8. ASSUME NEW t \in Target, Register(t) PROVE TimeInv'
  BY <1>1, <1>8 DEF Register, spanVars
<1>9. ASSUME NEW k \in Task, ImportEnds(k) PROVE TimeInv'
  <2>1. /\ UNCHANGED <<clock, imports, timing, cum, self, overlapped, own>>
        /\ DOMAIN modules' = DOMAIN modules
    BY <1>9 DEF ImportEnds, times
  <2>2. ImportsSame
    BY <1>9, LeavingKeepsImports DEF ImportEnds
  <2> QED
    BY <2>1, <2>2, QuietTimes
<1>7. live \subseteq Task
  BY DEF HookTypes, LiveTypes
<1> QED
  BY <1>2, <1>3, <1>4, <1>5, <1>6, <1>7, <1>8, <1>9, ImportStartTimes, ExecutedTimes, TickTimes, ForkTimes
     DEF HookNext

(***************************************************************************)
(* Self time is the real cost of a module: for any modules and tasks and   *)
(* any nesting of imports, calls, failures and forks, what cs_imports.py's *)
(* _on_end() charges each module is what the module itself took, as long   *)
(* as no two threads have imported at once, and lies between nothing and   *)
(* the cumulative time even then.                                          *)
(***************************************************************************)
THEOREM ImportTimesCorrect == HookSpec => []ImportTimesAddUp
<1>1. HookStart => HookTypes /\ SpanInv /\ TimeInv
  BY HookStartsTyped, SpansStart, TimesStart
<1>2. HookTypes /\ SpanInv /\ TimeInv /\ [HookNext]_vars => (HookTypes /\ SpanInv /\ TimeInv)'
  BY HookTypesKept, SpansKept, TimesKept
<1>3. HookTypes /\ TimeInv => ImportTimesAddUp
  <2> SUFFICES ASSUME HookTypes, TimeInv PROVE ImportTimesAddUp
    OBVIOUS
  <2>1. DOMAIN self = DOMAIN modules
    BY TimeFacts
  <2>2. timing /\ ~ overlapped => self = own
    BY DEF TimeInv
  <2> QED
    BY <2>1, <2>2 DEF TimeInv, TimesInOrder, ImportTimesAddUp
<1> QED
  BY <1>1, <1>2, <1>3, PTL DEF HookSpec
=============================================================================
