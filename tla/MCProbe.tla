------------------------------- MODULE MCProbe -------------------------------
(* One of the probe's parts at a time:                                       *)
(* - a main thread and an event loop with two coroutines in one process, in  *)
(*   five settings: calls only; two targets whose modules are imported by    *)
(*   the main thread or the sampler, which starts between the two steps, or  *)
(*   are there already; imports of two modules on two threads;               *)
(*   imports of three on one; and a module that is imported inside calls;    *)
(* - every arm of the graph-capture experiment over two descriptors;         *)
(* - a tree of processes under the fork-server experiment.                   *)
EXTENDS ImportHook, GraphCapture, ForkServer

MCThreadOf == [main |-> "t1", c1 |-> "t2", c2 |-> "t2", sampler |-> "t3"]
MCModuleOf == [optimize |-> "torch", load_model |-> "vllm"]

Plan == <<{"optimize"}, {"load_model"}>>

ProbeSettings ==
  \/ HookInit(<<>>, {}, TRUE, {}, {"main", "c1", "c2"}, 0)
  \/ \E early \in SUBSET {"torch"} :
       HookInit(Plan, early, FALSE, {"torch", "vllm"}, {"main", "sampler"}, MaxSpans)
  \/ HookInit(<<>>, {}, TRUE, {"torch", "vllm"}, {"main", "c1"}, MaxSpans)
  \/ HookInit(<<>>, {}, TRUE, Module, {"main"}, MaxSpans)
  \/ HookInit(<<{"load_model"}>>, {}, TRUE, {"vllm"}, {"main", "c1"}, MaxSpans - 2)

Init ==
  \/ ProbeSettings /\ CaptureIdle /\ ForkServerIdle
  \/ HookIdle /\ CaptureInit /\ ForkServerIdle
  \/ HookIdle /\ CaptureIdle /\ ForkServerInit

Next ==
  \/ HookNext /\ UNCHANGED <<captureVars, forkServerVars>>
  \/ CaptureNext /\ UNCHANGED <<vars, forkServerVars>>
  \/ ForkServerNext /\ UNCHANGED <<vars, captureVars>>

Spec == Init /\ [][Next]_<<vars, captureVars, forkServerVars>>
=============================================================================
