---------------------------- MODULE GraphCapture -----------------------------
(***************************************************************************)
(* CUDA graph capture under the probes: coldstart/cs_cgcapture.py redirects *)
(* captures to its own pools and takes the device sync and empty_cache out *)
(* of their prologue; coldstart/cs_vllm.py labels the forwards of vLLM's   *)
(* CudaGraphManager. vLLM's loop and torch's graph class are modelled as   *)
(* far as the probes' own comments describe them. Captures are made by one *)
(* thread, as the code says; any step of them may raise, and so may what   *)
(* the probe does when the loop is over.                                   *)
(***************************************************************************)
EXTENDS Integers, Sequences

CONSTANTS MaxDescs,     \* bound on the batch descriptors of one capture_model
          MaxPieces,    \* bound on the graphs of one descriptor
          Upstream      \* vLLM's own graph pool
ASSUME CaptureAssumption == {MaxDescs, MaxPieces} \subseteq Nat \ {0}
ASSUME UpstreamAssumption == Upstream \notin Nat  \* our pools are 1, 2, ...; 0 is none

VARIABLES
  arm,         \* CS_CGPOOLS, CS_CGSYNC and CS_CGEMPTY of the run
  at,          \* where capture_model() is
  descs,       \* how many descriptors were begun
  pieces,      \* how many graphs of this one
  closure,     \* the forward function in use: what its factory was asked, and `seen`
  binding,     \* what torch.cuda.synchronize and empty_cache are
  pools,       \* captures per pool of _pools
  cursor,      \* _next
  graph,       \* the pool of the capture that is being made
  graphPoolId, \* pynccl's process-global
  untold,      \* telling it of the pool of this capture has failed
  unemptied,   \* the allocator holds cached blocks
  drained,     \* the synchronize() and empty_cache() after the loop: "none", "done" or "raised"
  labels       \* forwards: <<mode, what the probe called it, what it was>>

captureVars == <<arm, at, descs, pieces, closure, binding, pools, cursor, graph, graphPoolId, untold,
                 unemptied, drained, labels>>

Original == [synchronize |-> "torch", empty_cache |-> "torch"]
Modes == {"FULL", "BREAKABLE", "PIECEWISE"}
NoClosure == [mode |-> "NONE", warmup |-> FALSE, seen |-> FALSE]
\* install(): a bad CS_CGSYNC is the default, a bad CS_CGPOOLS is none.
Arms == [pools : 0 .. 2, sync : {"device", "stream", "none"}, empty : {"each", "once", "never"}]

CaptureStart(where) ==
  /\ at = where /\ descs = 0 /\ pieces = 0 /\ closure = NoClosure
  /\ binding = Original
  /\ pools = <<>> /\ cursor = 0
  /\ graph = Upstream /\ graphPoolId = Upstream /\ untold = FALSE
  /\ unemptied = FALSE /\ drained = "none" /\ labels = {}
CaptureInit == arm \in Arms /\ CaptureStart("before")
\* A process that captures nothing.
CaptureIdle == arm = [pools |-> 0, sync |-> "device", empty |-> "each"] /\ CaptureStart("never")

CaptureModel ==
  /\ at = "before" /\ at' = "loop"
  /\ UNCHANGED <<arm, descs, pieces, closure, binding, pools, cursor, graph, graphPoolId, untold,
                 unemptied, drained, labels>>

\* wrapped(): the forward function of a descriptor, from create_forward_fn.
Factory(mode, warmup) == closure' = [mode |-> mode, warmup |-> warmup, seen |-> FALSE]

NextDesc(mode) ==
  /\ at = "loop" /\ descs < MaxDescs
  /\ descs' = descs + 1 /\ pieces' = 0
  /\ Factory(mode, TRUE) /\ at' = "warmup"
  /\ UNCHANGED <<arm, binding, pools, cursor, graph, graphPoolId, untold, unemptied, drained, labels>>

\* Mutant: the label follows the mode the forward is run in.
LabelByMode(runMode) == IF runMode = "NONE" THEN "warmup" ELSE "capture"

\* forward(): eager if it is run in no graph mode, first, for a warmup factory.
Label(runMode) ==
  IF runMode = "NONE" /\ closure.warmup /\ ~ closure.seen THEN "warmup" ELSE "capture"

Forward(runMode, truth) ==
  /\ labels' = labels \cup {<<closure.mode, Label(runMode), truth>>}
  /\ closure' = [closure EXCEPT !.seen = TRUE]
  /\ unemptied' = TRUE

WarmupForward ==
  /\ at = "warmup" /\ Forward("NONE", "warmup")
  /\ at' \in {"second", "raised"}
  /\ UNCHANGED <<arm, descs, pieces, binding, pools, cursor, graph, graphPoolId, untold, drained>>

\* The capture pass: piecewise ones run the same function in their graph mode,
\* around one capture per piece; the others ask for another function and run it
\* in mode NONE inside the only capture.
CapturePass ==
  /\ at = "second" /\ at' \in {"construct", "raised"}
  /\ IF closure.mode = "PIECEWISE"
       THEN Forward("PIECEWISE", "capture")
       ELSE Factory(closure.mode, FALSE) /\ UNCHANGED <<labels, unemptied>>
  /\ UNCHANGED <<arm, descs, pieces, binding, pools, cursor, graph, graphPoolId, untold, drained>>

-----------------------------------------------------------------------------
(***************************************************************************)
(* graph.__init__: vLLM has set the process-global to its own pool; with   *)
(* pools the next of ours takes its place, in turn, also there unless that *)
(* fails, which is not said. A capture that brings no pool is left alone.  *)
(***************************************************************************)
\* _pool_for_next_capture(): the pools are created on the first call.
NextPool == (cursor % arm.pools) + 1
PoolForNextCapture(told) ==
  LET made == IF pools = <<>> THEN [i \in 1 .. arm.pools |-> 0] ELSE pools
  IN /\ pools' = [made EXCEPT ![NextPool] = @ + 1]
     /\ cursor' = cursor + 1
     /\ graph' = NextPool
     /\ graphPoolId' = IF told THEN NextPool ELSE Upstream
     /\ untold' = ~ told

Construct(shared, told) ==
  /\ at = "construct" /\ at' = "enter"
  /\ IF shared /\ arm.pools > 0 THEN PoolForNextCapture(told)
     ELSE /\ graph' = (IF shared THEN Upstream ELSE 0) /\ graphPoolId' = Upstream
          /\ untold' = FALSE /\ UNCHANGED <<pools, cursor>>
  /\ UNCHANGED <<arm, descs, pieces, closure, binding, unemptied, drained, labels>>

\* torch's own __init__ raises, or making a pool does.
ConstructRaises ==
  /\ at = "construct" /\ at' = "raised"
  /\ graphPoolId' = Upstream
  /\ UNCHANGED <<arm, descs, pieces, closure, binding, pools, cursor, graph, untold, unemptied, drained, labels>>

\* _enter_inner(): the module attributes are swapped for the prologue.
Swap ==
  /\ at = "enter" /\ at' = "prologue"
  /\ binding' = [synchronize |-> IF arm.sync = "device" THEN "torch" ELSE "presync",
                 empty_cache |-> IF arm.empty = "each" THEN "torch" ELSE "noempty"]
  /\ UNCHANGED <<arm, descs, pieces, closure, pools, cursor, graph, graphPoolId, untold, unemptied, drained, labels>>

\* Mutant: put back only if orig_enter() returns.
RestoredIfEntered(ok) == IF ok THEN Original ELSE binding

\* The finally clause.
Restored(ok) == Original

\* torch's graph.__enter__ looks both functions up and calls them; it may raise.
Prologue(ok) ==
  /\ at = "prologue"
  /\ \/ unemptied' = (unemptied /\ binding.empty_cache # "torch")
     \/ ~ ok /\ UNCHANGED unemptied
  /\ binding' = Restored(ok)
  /\ at' = IF ok THEN "capturing" ELSE "raised"
  /\ UNCHANGED <<arm, descs, pieces, closure, pools, cursor, graph, graphPoolId, untold, drained, labels>>

\* The body of the capture, and __exit__: either may raise.
Capture ==
  /\ at = "capturing"
  /\ pieces' = pieces + 1
  /\ IF closure.mode = "PIECEWISE" THEN UNCHANGED <<labels, closure>> /\ unemptied' = TRUE
     ELSE Forward("NONE", "capture")
  /\ \/ at' = "loop"
     \/ closure.mode = "PIECEWISE" /\ pieces' < MaxPieces /\ at' = "construct"
     \/ at' = "raised"
  /\ UNCHANGED <<arm, descs, binding, pools, cursor, graph, graphPoolId, untold, drained>>

\* capture_model() of _wrap_capture_model: one real sync and empty_cache after
\* the loop, whether it returns or raises. After an error of the device they may
\* raise themselves, and then capture_model() does.
Drain(ok) ==
  IF arm.empty # "once" THEN ok /\ UNCHANGED <<drained, unemptied>>
  ELSE /\ drained' = IF ok THEN "done" ELSE "raised"
       /\ unemptied' = (unemptied /\ (~ ok \/ binding.empty_cache # "torch"))

LoopEnds(ok) ==
  /\ at \in {"loop", "raised"}
  /\ at' = IF at = "loop" /\ ok THEN "after" ELSE "failed"
  /\ Drain(ok)
  /\ UNCHANGED <<arm, descs, pieces, closure, binding, pools, cursor, graph, graphPoolId, untold, labels>>

CaptureNext ==
  \/ CaptureModel \/ WarmupForward \/ CapturePass \/ ConstructRaises \/ Swap \/ Capture
  \/ \E mode \in Modes : NextDesc(mode)
  \/ \E shared, told \in BOOLEAN : Construct(shared, told)
  \/ \E ok \in BOOLEAN : Prologue(ok) \/ LoopEnds(ok)

CaptureSpec == CaptureInit /\ [][CaptureNext]_captureVars

-----------------------------------------------------------------------------
(***************************************************************************)
(* The arm of the experiment that is priced is the one that ran, and torch *)
(* is as it was: outside the prologue synchronize() and empty_cache() are  *)
(* torch's own, however a capture ended; a shared capture under CS_CGPOOLS *)
(* is in one of our pools, which is also the one pynccl is told of unless  *)
(* telling it failed, and the pools share the captures evenly. Under       *)
(* CGEMPTY=once a capture_model() that returns has drained the device and  *)
(* leaves nothing cached; one that raises has tried to, with torch's own   *)
(* functions, and leaves nothing either unless these raised. No other arm  *)
(* drains.                                                                 *)
(***************************************************************************)
CaptureLeavesTorch ==
  /\ at # "prologue" => binding = Original
  /\ at \in {"enter", "prologue", "capturing"} =>
       /\ graph # 0 /\ ~ untold => graph = graphPoolId
       /\ graph = Upstream => arm.pools = 0
  /\ \A i, j \in DOMAIN pools : pools[i] - pools[j] \in -1 .. 1
  /\ at = "after" => drained # "raised"
  /\ at \in {"after", "failed"} =>
       /\ drained = "none" <=> arm.empty # "once"
       /\ drained = "done" => ~ unemptied

(***************************************************************************)
(* A forward is labelled as what it was, which its run mode does not tell: *)
(* the eager run that warms a size up, or one inside a capture.            *)
(***************************************************************************)
ForwardsAreLabelled == \A x \in labels : x[2] = x[3]

=============================================================================
