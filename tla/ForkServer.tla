----------------------------- MODULE ForkServer ------------------------------
(***************************************************************************)
(* coldstart/cs_forkserver.py in a tree of processes: a process arms one   *)
(* fork server for vLLM's get_mp_context(), its children are told so by an *)
(* environment variable and arm none. Every exec'd process of the tree     *)
(* runs install(), the server itself included; a forked one does not.      *)
(* A step that may fail takes ok from its caller.                          *)
(***************************************************************************)
EXTENDS Integers

CONSTANT MaxProcs    \* bound on the processes of the tree
ASSUME ForkServerAssumption == MaxProcs \in Nat \ {0}

VARIABLES
  mode,      \* CS_FORKSERVER_MODE: "early", "late" or one that is refused
  step,      \* per process, where install() is; "absent" before it is started
  parent,    \* per process, who started it (0 for the first)
  how,       \* "exec", "fork" or "server": how it came to be
  active,    \* CS_FORKSERVER_ACTIVE in its environment
  ctx,       \* its _ctx: it gives vLLM the fork-server context
  server,    \* its fork server, 0 for none
  isServer,  \* its role
  vetoed,    \* CUDA, XPU, WSL, Ray or NUMA forbid it a fork server
  said       \* what its trace says: "armed", "context", "declined", "error"

forkServerVars == <<mode, step, parent, how, active, ctx, server, isServer, vetoed, said>>

Proc == 1 .. MaxProcs
Exists(p) == step[p] # "absent"
Unborn == {p \in Proc : ~ Exists(p)}
\* The process that is started next, if there is room for one.
NextProc == {p \in Unborn : \A q \in Unborn : p <= q}

Tree(first) ==
  /\ step = [p \in Proc |-> IF p = 1 THEN first ELSE "absent"]
  /\ parent = [p \in Proc |-> 0] /\ server = parent
  /\ how = [p \in Proc |-> "exec"]
  /\ active = [p \in Proc |-> FALSE]
  /\ ctx = active /\ isServer = active /\ vetoed = active
  /\ said = [p \in Proc |-> {}]
ForkServerInit == mode \in {"early", "late", "typo"} /\ Tree("start")
\* The first process does not run the probe.
ForkServerIdle == mode = "early" /\ Tree("unprobed")

Say(p, what) == said' = [said EXCEPT ![p] = @ \cup {what}]
Goto(p, s) == step' = [step EXCEPT ![p] = s]

\* install(): the server's side, a refused mode, or this process arms.
Install(p) ==
  /\ step[p] = "start"
  /\ IF active[p] THEN Goto(p, "running") /\ UNCHANGED said
     ELSE IF mode = "typo" THEN Goto(p, "running") /\ Say(p, "error")
     ELSE Goto(p, "preload") /\ UNCHANGED said
  /\ UNCHANGED <<mode, parent, how, active, ctx, server, isServer, vetoed>>

\* set_forkserver_preload(), then the variable, before the server is there.
Preload(p, ok) ==
  /\ step[p] = "preload"
  /\ IF ok
       THEN /\ active' = [active EXCEPT ![p] = TRUE]
            /\ Goto(p, IF mode = "early" THEN "arm" ELSE "context") /\ UNCHANGED said
       ELSE UNCHANGED active /\ Goto(p, "running") /\ Say(p, "error")
  /\ UNCHANGED <<mode, parent, how, ctx, server, isServer, vetoed>>

\* Mutant: the server was started before the variable was set.
EnvironmentBefore(p) == FALSE

\* What a process that p starts finds in its environment.
Environment(p) == active[p]

\* ensure_running(): p's server is a new process, which installs the probe.
StartServer(p, q) ==
  /\ step' = [step EXCEPT ![q] = "start", ![p] = IF @ = "arm" THEN "context" ELSE @]
  /\ parent' = [parent EXCEPT ![q] = p]
  /\ how' = [how EXCEPT ![q] = "exec"]
  /\ active' = [active EXCEPT ![q] = Environment(p)]
  /\ server' = [server EXCEPT ![p] = q]
  /\ isServer' = [isServer EXCEPT ![q] = TRUE]

\* _arm(): if the server will not start, vLLM's own method is left alone.
Arm(p, ok) ==
  /\ step[p] = "arm"
  /\ IF ok
       THEN (\E q \in NextProc : StartServer(p, q)) /\ UNCHANGED said
       ELSE /\ active' = [active EXCEPT ![p] = FALSE]
            /\ Goto(p, "running") /\ Say(p, "error")
            /\ UNCHANGED <<parent, how, server, isServer>>
  /\ UNCHANGED <<mode, ctx, vetoed>>

\* get_context(): a failure leaves the variable as it is.
GetContext(p, ok) ==
  /\ step[p] = "context"
  /\ Goto(p, "running")
  /\ ctx' = [ctx EXCEPT ![p] = ok]
  /\ Say(p, IF ok THEN "armed" ELSE "error")
  /\ UNCHANGED <<mode, parent, how, active, server, isServer, vetoed>>

\* One of _veto_reason()'s predicates comes true.
ComesToVeto(p) ==
  /\ step[p] = "running" /\ ~ isServer[p] /\ ~ vetoed[p]
  /\ vetoed' = [vetoed EXCEPT ![p] = TRUE]
  /\ UNCHANGED <<mode, step, parent, how, active, ctx, server, isServer, said>>

\* _wrapper(): whether vLLM is given the fork-server context.
Served(p) == ctx[p] /\ ~ vetoed[p]

\* In the late arm the first Process.start() starts the server.
StartServerLate(p) ==
  /\ step[p] = "running" /\ Served(p) /\ server[p] = 0
  /\ \E q \in NextProc : StartServer(p, q)
  /\ UNCHANGED <<mode, ctx, vetoed, said>>

\* A child by the fork server: a copy of it, which runs no install().
LaunchByServer(p) == \E q \in NextProc :
  /\ step[p] = "running" /\ Served(p)
  /\ server[p] # 0 /\ step[server[p]] = "running"
  /\ step' = [step EXCEPT ![q] = "running"]
  /\ parent' = [parent EXCEPT ![q] = server[p]]
  /\ how' = [how EXCEPT ![q] = "server"]
  /\ active' = [active EXCEPT ![q] = active[server[p]]]
  /\ ctx' = [ctx EXCEPT ![q] = ctx[server[p]]]
  /\ Say(p, "context")
  /\ UNCHANGED <<mode, server, isServer, vetoed>>

\* A child by vLLM's own method, if this process arms none or must decline.
LaunchByVllm(p) == \E q \in NextProc :
  /\ step[p] = "running" /\ ~ Served(p) /\ ~ isServer[p]
  /\ parent' = [parent EXCEPT ![q] = p]
  /\ active' = [active EXCEPT ![q] = Environment(p)]
  /\ \/ how' = [how EXCEPT ![q] = "exec"] /\ Goto(q, "start") /\ UNCHANGED <<ctx, vetoed>>
     \/ /\ how' = [how EXCEPT ![q] = "fork"] /\ Goto(q, "running")
        /\ ctx' = [ctx EXCEPT ![q] = ctx[p]] /\ vetoed' = [vetoed EXCEPT ![q] = vetoed[p]]
  /\ IF ctx[p] THEN Say(p, "declined") ELSE UNCHANGED said
  /\ UNCHANGED <<mode, server, isServer>>

ForkServerNext ==
  \E p \in Proc :
    \/ Install(p) \/ ComesToVeto(p)
    \/ StartServerLate(p) \/ LaunchByServer(p) \/ LaunchByVllm(p)
    \/ \E ok \in BOOLEAN : Preload(p, ok) \/ Arm(p, ok) \/ GetContext(p, ok)

ForkServerSpec == ForkServerInit /\ [][ForkServerNext]_forkServerVars

-----------------------------------------------------------------------------
\* Those in every set that holds the parents of p and of its own members.
Ancestors(p) ==
  {q \in Proc : \A above \in SUBSET Proc :
                  (\A r \in above \cup {p} : parent[r] \in above \cup {0}) => q \in above}

(***************************************************************************)
(* No nested cold servers: a process that starts a fork server has none    *)
(* above it, neither its parent's nor the server it was made by; whatever  *)
(* failed on the way, and whichever way its ancestors were started. And a  *)
(* trace that says armed is of a process that the server was armed for, in *)
(* that every start was served or declined with a reason.                  *)
(***************************************************************************)
NoNestedServer ==
  \A p \in Proc :
    /\ server[p] # 0 =>
         \A q \in Ancestors(p) : server[q] = 0 /\ ~ isServer[q]
    /\ "armed" \in said[p] => /\ ~ isServer[p]
                              /\ \A q \in Proc : parent[q] = p /\ ~ isServer[q] => "declined" \in said[p]

=============================================================================
