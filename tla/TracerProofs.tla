---------------------------- MODULE TracerProofs ----------------------------
(***************************************************************************)
(* Proofs about Tracer: for every cap and every number of events, signals  *)
(* and faults, a process writes to its own file only, every line is        *)
(* written, counted as dropped, in flight, refused or late, the cap is     *)
(* overshot by less than a line per thread, and the summary is written     *)
(* once, with the one exception that the code has.                         *)
(***************************************************************************)
EXTENDS Tracer, SequenceTheorems, FiniteSetTheorems, TLAPS

(* The groups of variables that a step names together are opened everywhere. *)
USE DEF files, lost, ends, fixed

(* The file a handle of a process leads to is the process's own. *)
HandlesOwn ==
  /\ fh \in [Procs -> Threads \cup {"none"}]
  /\ \A p \in Procs : fh[p] # "none" => ProcOf(fh[p]) = p

(* The pid is recorded after the handle, so where it is right the handle is. *)
AnchoredIsOpen ==
  /\ fhPid \in [Procs -> Procs \cup {"none"}]
  /\ \A p \in Procs : fhPid[p] = p => fh[p] # "none"
  /\ \A t \in Threads : pc[t] = "opened" => fh[ProcOf(t)] # "none"

(* A thread that is about to write has a handle of its own process. *)
UsingOwn ==
  /\ using \in [Threads -> Threads \cup {"none"}]
  /\ \A t \in Threads : pc[t] \in {"acquire", "holding"} =>
       using[t] # "none" /\ ProcOf(using[t]) = ProcOf(t)

(* No thread of the child writes before the child exists. *)
ForkedLater == life["child"] = "none" => pc["forked"] = "idle"

(* The table of lines has an entry for every file, writer and kind. *)
LineTable ==
  /\ DOMAIN lines = Procs
  /\ \A r \in Procs : DOMAIN lines[r] = Procs
  /\ \A r, q \in Procs : DOMAIN lines[r][q] = Kinds

FileInv ==
  /\ life \in [Procs -> {"none", "running", "ending", "ended"}]
  /\ pc \in [Threads -> {"idle", "lookup", "opening", "opened", "acquire", "holding"}]
  /\ LineTable
  /\ HandlesOwn
  /\ AnchoredIsOpen
  /\ UsingOwn
  /\ ForkedLater
  /\ OwnFileOnly

(* The initial states satisfy the invariant. *)
LEMMA InitEstablishesFileInv == Init => FileInv
<1> SUFFICES ASSUME Init PROVE FileInv
  OBVIOUS
<1>1. LineTable /\ OwnFileOnly
  BY DEF Init, LineTable, OwnFileOnly, Procs, Kinds
<1>2. HandlesOwn /\ AnchoredIsOpen /\ UsingOwn /\ ForkedLater
  BY DEF Init, HandlesOwn, AnchoredIsOpen, UsingOwn, ForkedLater, Procs, Threads, ProcOf
<1>3. /\ life \in [Procs -> {"none", "running", "ending", "ended"}]
      /\ pc \in [Threads -> {"idle", "lookup", "opening", "opened", "acquire", "holding"}]
  BY DEF Init
<1> QED
  BY <1>1, <1>2, <1>3 DEF FileInv

(* A process and its threads. *)
LEMMA Ownership ==
  /\ \A t \in Threads : ProcOf(t) \in Procs
  /\ \A p \in Procs : MainOf(p) \in Threads /\ ProcOf(MainOf(p)) = p
BY DEF Threads, Procs, ProcOf, MainOf

(* A line that is not written under another process's name keeps OwnFileOnly. *)
LEMMA OwnLineKeepsFiles ==
  ASSUME FileInv, NEW p \in Procs, NEW kind,
         lines' \in {lines, [lines EXCEPT ![p][p][kind] = @ + 1]}
  PROVE  LineTable' /\ OwnFileOnly'
<1>1. CASE lines' = lines
  BY <1>1 DEF FileInv, LineTable, OwnFileOnly
<1>2. CASE lines' = [lines EXCEPT ![p][p][kind] = @ + 1]
  <2>1. DOMAIN lines' = Procs
    BY <1>2 DEF FileInv, LineTable
  <2>2. ASSUME NEW r \in Procs
        PROVE  /\ DOMAIN lines'[r] = Procs
               /\ \A q \in Procs : DOMAIN lines'[r][q] = Kinds
               /\ \A q \in Procs, k \in Kinds : r # q => lines'[r][q][k] = lines[r][q][k]
    <3>1. CASE r # p
      <4>1. lines'[r] = lines[r]
        BY <1>2, <3>1 DEF FileInv, LineTable
      <4> QED
        BY <4>1 DEF FileInv, LineTable
    <3>2. CASE r = p
      <4>1. lines'[r] = [lines[r] EXCEPT ![p][kind] = @ + 1]
        BY <1>2, <3>2 DEF FileInv, LineTable
      <4>2. DOMAIN lines'[r] = Procs
        BY <4>1 DEF FileInv, LineTable
      <4>3. \A q \in Procs : r # q => lines'[r][q] = lines[r][q]
        BY <3>2, <4>1 DEF FileInv, LineTable
      <4>4. lines'[r][p] = [lines[r][p] EXCEPT ![kind] = @ + 1]
        BY <4>1 DEF FileInv, LineTable
      <4>5. \A q \in Procs : DOMAIN lines'[r][q] = Kinds
        BY <3>2, <4>3, <4>4 DEF FileInv, LineTable
      <4> QED
        BY <4>2, <4>3, <4>5
    <3> QED
      BY <3>1, <3>2
  <2> QED
    BY <2>1, <2>2 DEF FileInv, LineTable, OwnFileOnly
<1> QED
  BY <1>1, <1>2

(* What is common to the steps that only move a thread from idle, or leave all
   threads where they are: the handles are untouched. *)
LEMMA QuietStep ==
  ASSUME FileInv,
         UNCHANGED <<fh, fhPid, using, lines>>,
         life' \in [Procs -> {"none", "running", "ending", "ended"}],
         life'["child"] = "none" => life["child"] = "none",
         life'["child"] = "none" => pc'["forked"] = pc["forked"],
         pc' \in [Threads -> {"idle", "lookup", "opening", "opened", "acquire", "holding"}],
         \A t \in Threads : pc'[t] \in {"opened", "acquire", "holding"} => pc'[t] = pc[t]
  PROVE  FileInv'
<1>1. HandlesOwn' /\ UsingOwn'
  BY DEF FileInv, HandlesOwn, UsingOwn
<1>2. AnchoredIsOpen'
  BY DEF FileInv, AnchoredIsOpen
<1>3. ForkedLater'
  BY DEF FileInv, ForkedLater
<1>4. LineTable' /\ OwnFileOnly'
  BY DEF FileInv, LineTable, OwnFileOnly
<1> QED
  BY <1>1, <1>2, <1>3, <1>4 DEF FileInv

(* _write moves its thread from idle to the look-up, or nowhere. *)
LEMMA WriteMovesFromIdle ==
  ASSUME FileInv, NEW t \in Threads, NEW CONSTANT kind, Write(t, kind)
  PROVE  /\ pc' \in [Threads -> {"idle", "lookup", "opening", "opened", "acquire", "holding"}]
         /\ \A u \in Threads : pc'[u] = pc[u] \/ (u = t /\ pc'[u] = "lookup")
BY DEF FileInv, Write

(* An emitted event only begins a _write. *)
LEMMA EmitKeeps == ASSUME FileInv, NEW t \in Threads, Emit(t) PROVE FileInv'
<1>1. Write(t, "event") /\ UNCHANGED <<life, fh, fhPid, using, lines, plan>>
  BY DEF Emit
<1>2. /\ pc' \in [Threads -> {"idle", "lookup", "opening", "opened", "acquire", "holding"}]
      /\ \A u \in Threads : pc'[u] = pc[u] \/ (u = t /\ pc'[u] = "lookup")
  BY <1>1, WriteMovesFromIdle
<1>3. life'["child"] = "none" => pc'["forked"] = pc["forked"]
  BY <1>1, <1>2 DEF Emit, Runs, Threads, ProcOf
<1>4. life' \in [Procs -> {"none", "running", "ending", "ended"}]
  BY <1>1 DEF FileInv
<1>5. \A u \in Threads : pc'[u] \in {"opened", "acquire", "holding"} => pc'[u] = pc[u]
  BY <1>2
<1> QED
  BY <1>1, <1>2, <1>3, <1>4, <1>5, QuietStep

(* _write: the handle is looked up, opened and recorded, the lock taken. *)
LEMMA LookupKeeps == ASSUME FileInv, NEW t \in Threads, Lookup(t) PROVE FileInv'
<1>1. ProcOf(t) \in Procs
  BY Ownership
<1>2. UsingOwn'
  BY <1>1 DEF Lookup, FileInv, UsingOwn, HandlesOwn, AnchoredIsOpen
<1>3. HandlesOwn' /\ AnchoredIsOpen'
  BY DEF Lookup, FileInv, HandlesOwn, AnchoredIsOpen
<1>4. ForkedLater'
  BY DEF Lookup, FileInv, ForkedLater, Threads
<1>5. LineTable' /\ OwnFileOnly'
  BY DEF Lookup, FileInv, LineTable, OwnFileOnly
<1> QED
  BY <1>2, <1>3, <1>4, <1>5 DEF Lookup, FileInv

(* The handle is assigned before the pid. *)
LEMMA OpenFileKeeps == ASSUME FileInv, NEW t \in Threads, OpenFile(t) PROVE FileInv'
<1>1. ProcOf(t) \in Procs /\ t # "none"
  BY Ownership DEF Threads
<1>2. HandlesOwn'
  BY <1>1 DEF OpenFile, FileInv, HandlesOwn
<1>3. AnchoredIsOpen'
  BY <1>1 DEF OpenFile, FileInv, HandlesOwn, AnchoredIsOpen
<1>4. UsingOwn' /\ ForkedLater'
  BY DEF OpenFile, FileInv, UsingOwn, ForkedLater, Threads
<1>5. LineTable' /\ OwnFileOnly'
  BY DEF OpenFile, FileInv, LineTable, OwnFileOnly
<1> QED
  BY <1>2, <1>3, <1>4, <1>5 DEF OpenFile, FileInv

(* The pid is recorded when the handle is there. *)
LEMMA AnchorFileKeeps == ASSUME FileInv, NEW t \in Threads, AnchorFile(t) PROVE FileInv'
<1>1. ProcOf(t) \in Procs
  BY Ownership
<1>2. HandlesOwn' /\ UsingOwn' /\ ForkedLater'
  BY DEF AnchorFile, FileInv, HandlesOwn, UsingOwn, ForkedLater, Threads
<1>3. AnchoredIsOpen'
  BY <1>1 DEF AnchorFile, FileInv, AnchoredIsOpen
<1>4. LineTable' /\ OwnFileOnly'
  BY DEF AnchorFile, FileInv, LineTable, OwnFileOnly
<1> QED
  BY <1>2, <1>3, <1>4 DEF AnchorFile, FileInv

(* Taking the lock touches no handle. *)
LEMMA AcquireKeeps == ASSUME FileInv, NEW t \in Threads, Acquire(t) PROVE FileInv'
<1>1. HandlesOwn' /\ UsingOwn' /\ ForkedLater' /\ AnchoredIsOpen'
  BY DEF Acquire, FileInv, HandlesOwn, UsingOwn, ForkedLater, AnchoredIsOpen, Threads
<1>2. LineTable' /\ OwnFileOnly'
  BY DEF Acquire, FileInv, LineTable, OwnFileOnly
<1> QED
  BY <1>1, <1>2 DEF Acquire, FileInv

(* The line itself: it goes through a handle of the writing process. *)
LEMMA PutKeeps == ASSUME FileInv, NEW t \in Threads, Put(t) PROVE FileInv'
<1>1. ProcOf(t) \in Procs /\ ProcOf(using[t]) = ProcOf(t)
  BY Ownership DEF Put, FileInv, UsingOwn
<1>2. lines' \in {lines, [lines EXCEPT ![ProcOf(t)][ProcOf(t)][Head(todo[t])] = @ + 1]}
  BY <1>1 DEF Put
<1>3. LineTable' /\ OwnFileOnly'
  BY <1>1, <1>2, OwnLineKeepsFiles
<1>4. HandlesOwn' /\ UsingOwn' /\ ForkedLater' /\ AnchoredIsOpen'
  BY DEF Put, FileInv, HandlesOwn, UsingOwn, ForkedLater, AnchoredIsOpen, Threads
<1>5. pc' \in [Threads -> {"idle", "lookup", "opening", "opened", "acquire", "holding"}]
  BY DEF Put, FileInv
<1> QED
  BY <1>3, <1>4, <1>5 DEF Put, FileInv

(* A fork: the child starts without a handle, and without a thread in _write. *)
LEMMA ForkKeeps == ASSUME FileInv, Fork PROVE FileInv'
<1>1. HandlesOwn' /\ UsingOwn' /\ ForkedLater'
  BY DEF Fork, FileInv, HandlesOwn, UsingOwn, ForkedLater, Procs
<1>2. AnchoredIsOpen'
  BY DEF Fork, FileInv, AnchoredIsOpen, ForkedLater, Procs, Threads, ProcOf
<1>3. LineTable' /\ OwnFileOnly'
  BY DEF Fork, FileInv, LineTable, OwnFileOnly
<1> QED
  BY <1>1, <1>2, <1>3 DEF Fork, FileInv

(* The steps of a process's end, and of its handlers. *)
LEMMA EndKeeps ==
  ASSUME FileInv, NEW p \in Procs,
         \/ Exit(p) \/ Signal(p) \/ SignalInWrite(p) \/ OnExit(p) \/ Finish(p) \/ HandOn(p)
         \/ Vanish(p)
  PROVE  FileInv'
<1>1. UNCHANGED <<fh, fhPid, using, lines, pc>>
  BY DEF Exit, Signal, SignalInWrite, OnExit, Finish, HandOn, Vanish, files
<1>2. /\ life' \in [Procs -> {"none", "running", "ending", "ended"}]
      /\ life'["child"] = "none" => life["child"] = "none"
  <2>1. \/ life' = life
        \/ \E l \in {"ending", "ended"} : life' = [life EXCEPT ![p] = l]
    <3>1. life = [life EXCEPT ![p] = life[p]]
      BY DEF FileInv
    <3>2. CASE Signal(p) \/ OnExit(p) \/ Finish(p)
      BY <3>2 DEF Signal, OnExit, Finish
    <3>3. CASE Exit(p) \/ Vanish(p)
      BY <3>3 DEF Exit, Vanish
    <3>4. CASE SignalInWrite(p)
      BY <3>1, <3>4 DEF SignalInWrite
    <3>5. CASE HandOn(p)
      BY <3>1, <3>5 DEF HandOn
    <3> QED
      BY <3>2, <3>3, <3>4, <3>5
  <2> QED
    BY <2>1 DEF FileInv, Procs
<1> QED
  BY <1>1, <1>2, QuietStep DEF FileInv

(* A thread that gives its lines up has no handle in hand. *)
LEMMA GiveUpKeeps ==
  ASSUME FileInv, NEW t \in Threads, OpenFails(t) \/ Refuse(t) PROVE FileInv'
<1>1. /\ UNCHANGED <<life, fh, fhPid, lines>>
      /\ pc' = [pc EXCEPT ![t] = "idle"] /\ using' = [using EXCEPT ![t] = "none"]
  BY DEF OpenFails, Refuse, GiveUp, files, ends
<1>2. HandlesOwn' /\ AnchoredIsOpen' /\ ForkedLater'
  BY <1>1 DEF FileInv, HandlesOwn, AnchoredIsOpen, ForkedLater, Threads
<1>3. UsingOwn'
  BY <1>1 DEF FileInv, UsingOwn
<1>4. LineTable' /\ OwnFileOnly'
  BY <1>1 DEF FileInv, LineTable, OwnFileOnly
<1> QED
  BY <1>1, <1>2, <1>3, <1>4 DEF FileInv

(* So do the lines of a process's end. *)
LEMMA PlanNextKeeps == ASSUME FileInv, NEW p \in Procs, PlanNext(p) PROVE FileInv'
<1>1. MainOf(p) \in Threads /\ Write(MainOf(p), Head(plan[p]))
  BY Ownership DEF PlanNext
<1>2. /\ pc' \in [Threads -> {"idle", "lookup", "opening", "opened", "acquire", "holding"}]
      /\ \A u \in Threads : pc'[u] = pc[u] \/ (u = MainOf(p) /\ pc'[u] = "lookup")
  BY <1>1, WriteMovesFromIdle
<1>3. life'["child"] = "none" => pc'["forked"] = pc["forked"]
  BY <1>2 DEF PlanNext, Does, Threads, Procs, MainOf
<1>4. /\ UNCHANGED <<life, fh, fhPid, using, lines>>
      /\ life' \in [Procs -> {"none", "running", "ending", "ended"}]
  BY DEF PlanNext, FileInv
<1>5. \A u \in Threads : pc'[u] \in {"opened", "acquire", "holding"} => pc'[u] = pc[u]
  BY <1>2
<1> QED
  BY <1>2, <1>3, <1>4, <1>5, QuietStep

(* The invariant is kept by every step, and holds of every behaviour. *)
THEOREM FileInvariant == Safety => []FileInv
<1>1. ASSUME FileInv, [Next]_vars PROVE FileInv'
  <2>1. CASE UNCHANGED vars
    BY <1>1, <2>1 DEF vars, FileInv, HandlesOwn, AnchoredIsOpen, UsingOwn, ForkedLater,
                      LineTable, OwnFileOnly
  <2>2. ASSUME NEW t \in Threads, Emit(t) \/ Writing(t) PROVE FileInv'
    BY <1>1, <2>2, EmitKeeps, LookupKeeps, OpenFileKeeps, AnchorFileKeeps, AcquireKeeps,
       PutKeeps, GiveUpKeeps DEF Writing
  <2>3. CASE Fork
    BY <1>1, <2>3, ForkKeeps
  <2>4. ASSUME NEW p \in Procs, Exit(p) \/ Signal(p) \/ SignalInWrite(p) \/ Handling(p)
        PROVE  FileInv'
    BY <1>1, <2>4, EndKeeps, PlanNextKeeps DEF Handling
  <2> QED
    BY <1>1, <2>1, <2>2, <2>3, <2>4 DEF Next
<1> QED
  BY <1>1, InitEstablishesFileInv, PTL DEF Safety

(* No process writes into the file of another: neither a fork, nor two threads
   that open the file at once, nor an exit or a signal, makes it so. *)
THEOREM FilesSeparate == Safety => []OwnFileOnly
<1>1. FileInv => OwnFileOnly
  BY DEF FileInv
<1> QED
  BY <1>1, FileInvariant, PTL

----------------------------------------------------------------------------
(* What is counted. *)

Counters ==
  /\ max_events \in Nat
  /\ n \in [Procs -> Nat]
  /\ dropped \in [Procs -> Nat]
  /\ emitted \in [Procs -> Nat]
  /\ refused \in [Procs -> Nat]
  /\ late \in [Procs -> Nat]
  /\ disabled \in [Procs -> BOOLEAN]
  /\ closed \in [Procs -> BOOLEAN]
  /\ DOMAIN plan = Procs
  /\ inherited \in [Procs -> [n : Nat, dropped : Nat]]
  /\ lines \in [Procs -> [Procs -> [Kinds -> Nat]]]

(* A thread in _write has the line it was asked for, behind headers only, and
   only a main thread is asked for the lines of an end. *)
QueueShape ==
  /\ todo \in [Threads -> Seq(Kinds)]
  /\ \A t \in Threads :
       /\ pc[t] = "idle" <=> Len(todo[t]) = 0
       /\ \A i \in 1..Len(todo[t]) : todo[t][i] = "header" <=> i < Len(todo[t])
       /\ t = "worker" => \A i \in 1..Len(todo[t]) : todo[t][i] # "summary"

(* A child that was not forked has done nothing. *)
Unborn ==
  life["child"] = "none" =>
    /\ n["child"] = 0 /\ dropped["child"] = 0 /\ emitted["child"] = 0
    /\ refused["child"] = 0 /\ late["child"] = 0
    /\ inherited["child"] = [n |-> 0, dropped |-> 0]
    /\ plan["child"] = <<>> /\ closed["child"] = FALSE

Pending(t) == IF Len(todo[t]) = 0 THEN 0 ELSE 1
PendingOf(p) == IF p = "parent" THEN Pending("main") + Pending("worker")
                                ELSE Pending("forked")

(* The lines in flight belong to the overshoot already: a thread passed the
   cap when fewer lines were written than the cap allows. *)
Overshoot ==
  \A p \in Procs :
    Written(p) + PendingOf(p) <= max_events + (IF p = "parent" THEN 1 ELSE 0)

CountInv ==
  /\ Counters
  /\ QueueShape
  /\ Unborn
  /\ EveryLineAccounted
  /\ Overshoot

(* The initial states satisfy it. *)
LEMMA InitEstablishesCountInv == Init => CountInv
<1> SUFFICES ASSUME Init PROVE CountInv
  OBVIOUS
<1>1. Counters
  BY CapsAssumption DEF Init, Counters
<1>2. QueueShape
  BY DEF Init, QueueShape
<1>3. \A p \in Procs, k \in Kinds : Count(p, k) = 0
  BY DEF Init, Count, Procs
<1>4. \A p \in Procs : Written(p) = 0 /\ Headers(p) = 0
  BY <1>3 DEF Written, Headers, Kinds
<1>5. \A t \in Threads : Len(todo[t]) = 0
  BY DEF Init
<1>6. EveryLineAccounted
  BY <1>4, <1>5 DEF Init, EveryLineAccounted, InFlight, Threads, Procs
<1>7. Overshoot
  BY <1>1, <1>4, <1>5 DEF Counters, Overshoot, PendingOf, Pending, Threads
<1>8. Unborn
  BY DEF Init, Unborn, Procs
<1> QED
  BY <1>1, <1>2, <1>6, <1>7, <1>8 DEF CountInv

(* What is counted is a number. *)
LEMMA CountsAreNumbers ==
  ASSUME Counters, NEW p \in Procs
  PROVE  /\ \A k \in Kinds : Count(p, k) \in Nat
         /\ Written(p) \in Nat /\ Headers(p) \in Nat
<1>1. \A k \in Kinds : Count(p, k) \in Nat
  BY DEF Counters, Count, Procs
<1> QED
  BY <1>1 DEF Written, Headers, Kinds

(* A step that writes no line changes no count. *)
LEMMA SameLines ==
  ASSUME UNCHANGED lines, NEW CONSTANT p
  PROVE  /\ \A k \in Kinds : Count(p, k)' = Count(p, k)
         /\ Written(p)' = Written(p) /\ Headers(p)' = Headers(p)
BY DEF Count, Written, Headers

(* A line that is written raises one count, by one. *)
LEMMA LineCounted ==
  ASSUME Counters, NEW p \in Procs, NEW kind \in Kinds,
         lines' = [lines EXCEPT ![p][p][kind] = @ + 1]
  PROVE  /\ lines' \in [Procs -> [Procs -> [Kinds -> Nat]]]
         /\ \A q \in Procs, k \in Kinds :
              Count(q, k)' = Count(q, k) + (IF q = p /\ k = kind THEN 1 ELSE 0)
<1>1. \A f, q \in Procs, k \in Kinds :
        lines'[f][q][k] = IF f = p /\ q = p /\ k = kind THEN lines[f][q][k] + 1
                                                      ELSE lines[f][q][k]
  BY DEF Counters
<1>2. lines' \in [Procs -> [Procs -> [Kinds -> Nat]]]
  BY DEF Counters
<1>3. \A q \in Procs, k \in Kinds :
        Count(q, k)' = Count(q, k) + (IF q = p /\ k = kind THEN 1 ELSE 0)
  <2> SUFFICES ASSUME NEW q \in Procs, NEW k \in Kinds
               PROVE  Count(q, k)' = Count(q, k) + (IF q = p /\ k = kind THEN 1 ELSE 0)
    OBVIOUS
  <2>1. lines["parent"][q][k] \in Nat /\ lines["child"][q][k] \in Nat
    BY DEF Counters, Procs
  <2> QED
    BY <1>1, <2>1 DEF Count, Procs
<1> QED
  BY <1>2, <1>3

(* What is common to the steps that write, drop and refuse nothing. *)
LEMMA UncountedStep ==
  ASSUME CountInv,
         UNCHANGED <<max_events, n, dropped, emitted, refused, late, inherited, lines, todo>>,
         disabled' \in [Procs -> BOOLEAN], closed' \in [Procs -> BOOLEAN], DOMAIN plan' = Procs,
         \A p \in Procs : Silent(p) => Silent(p)',
         \A t \in Threads : pc'[t] = "idle" <=> pc[t] = "idle",
         life'["child"] = "none" =>
           /\ life["child"] = "none"
           /\ plan'["child"] = plan["child"] /\ closed'["child"] = closed["child"]
  PROVE  CountInv'
<1>1. Counters'
  BY DEF CountInv, Counters
<1>2. QueueShape'
  BY DEF CountInv, QueueShape
<1>3. Unborn'
  BY DEF CountInv, Unborn
<1>4. EveryLineAccounted'
  BY DEF CountInv, EveryLineAccounted, InFlight, Written, Headers, Count
<1>5. Overshoot'
  BY DEF CountInv, Overshoot, PendingOf, Pending, Written, Count
<1> QED
  BY <1>1, <1>2, <1>3, <1>4, <1>5 DEF CountInv

(* The way to the lock, and what the handlers do between their lines. *)
LEMMA UncountedKeep ==
  ASSUME FileInv, CountInv,
         \/ \E t \in Threads : Lookup(t) \/ OpenFile(t) \/ Acquire(t)
         \/ \E p \in Procs : \/ Exit(p) \/ Signal(p) \/ OnExit(p) \/ Finish(p) \/ HandOn(p)
                             \/ Vanish(p)
  PROVE  CountInv'
<1>1. /\ UNCHANGED <<max_events, n, dropped, emitted, refused, late, inherited, lines, todo,
                     disabled>>
      /\ closed' = closed \/ \E p \in Procs : Finish(p)
  BY DEF Lookup, OpenFile, Acquire, Exit, Signal, OnExit, Finish, HandOn, Vanish
<1>2. \A t \in Threads : pc'[t] = "idle" <=> pc[t] = "idle"
  BY DEF Lookup, OpenFile, Acquire, Exit, Signal, OnExit, Finish, HandOn, Vanish, FileInv
<1>3. /\ closed' \in [Procs -> BOOLEAN]
      /\ \A p \in Procs : closed[p] => closed'[p]
  BY <1>1 DEF Finish, CountInv, Counters
<1>4. \A p \in Procs : Silent(p) => Silent(p)'
  BY <1>1, <1>3 DEF Silent
<1>5. life'["child"] = "none" =>
        /\ life["child"] = "none"
        /\ plan'["child"] = plan["child"] /\ closed'["child"] = closed["child"]
  <2>1. CASE \E t \in Threads : Lookup(t) \/ OpenFile(t) \/ Acquire(t)
    BY <2>1 DEF Lookup, OpenFile, Acquire
  <2>2. ASSUME NEW p \in Procs,
               Exit(p) \/ Signal(p) \/ OnExit(p) \/ Finish(p) \/ HandOn(p) \/ Vanish(p)
        PROVE  /\ life[p] # "none" /\ life'[p] # "none"
               /\ p # "child" => /\ life'["child"] = life["child"]
                                 /\ plan'["child"] = plan["child"]
                                 /\ closed'["child"] = closed["child"]
    <3>1. life[p] # "none"
      BY <2>2 DEF Exit, Signal, OnExit, Finish, HandOn, Vanish, Does
    <3>2. /\ life' = life \/ \E l \in {"ending", "ended"} : life' = [life EXCEPT ![p] = l]
          /\ plan' = plan \/ \E s : plan' = [plan EXCEPT ![p] = s]
          /\ closed' = closed \/ closed' = [closed EXCEPT ![p] = TRUE]
      <4>1. CASE Exit(p) \/ Vanish(p)
        BY <4>1 DEF Exit, Vanish
      <4>2. CASE Signal(p)
        BY <4>2 DEF Signal
      <4>3. CASE OnExit(p)
        BY <4>3 DEF OnExit
      <4>4. CASE Finish(p)
        BY <4>4 DEF Finish
      <4>5. CASE HandOn(p)
        <5>1. life = [life EXCEPT ![p] = life[p]]
          BY DEF FileInv
        <5> QED
          BY <4>5, <5>1 DEF HandOn
      <4> QED
        BY <2>2, <4>1, <4>2, <4>3, <4>4, <4>5
    <3> QED
      BY <3>1, <3>2 DEF FileInv, CountInv, Counters, Procs
  <2> QED
    BY <2>1, <2>2 DEF Procs
<1>6. DOMAIN plan' = Procs
  BY DEF Lookup, OpenFile, Acquire, Exit, Signal, OnExit, Finish, HandOn, Vanish, CountInv,
         Counters
<1> QED
  BY <1>1, <1>2, <1>3, <1>4, <1>5, <1>6, UncountedStep DEF CountInv, Counters

(* Lines in flight and threads in _write are counted thread by thread. *)
LEMMA QueueMoves ==
  ASSUME NEW t \in Threads, NEW d \in Int,
         todo \in [Threads -> Seq(Kinds)],
         \A u \in Threads \ {t} : Len(todo'[u]) = Len(todo[u]),
         Len(todo'[t]) = Len(todo[t]) + d
  PROVE  /\ \A q \in Procs \ {ProcOf(t)} :
              InFlight(q)' = InFlight(q) /\ PendingOf(q)' = PendingOf(q)
         /\ InFlight(ProcOf(t))' = InFlight(ProcOf(t)) + d
         /\ PendingOf(ProcOf(t))' = PendingOf(ProcOf(t)) - Pending(t) + Pending(t)'
<1> DEFINE Queued(u) == Len(todo[u])
<1>1. /\ InFlight("parent") = Queued("main") + Queued("worker")
      /\ InFlight("child") = Queued("forked")
  BY DEF InFlight
<1>2. /\ InFlight("parent")' = Queued("main")' + Queued("worker")'
      /\ InFlight("child")' = Queued("forked")'
  BY DEF InFlight
<1>3. /\ PendingOf("parent") = Pending("main") + Pending("worker")
      /\ PendingOf("child") = Pending("forked")
  BY DEF PendingOf
<1>4. /\ PendingOf("parent")' = Pending("main")' + Pending("worker")'
      /\ PendingOf("child")' = Pending("forked")'
  BY DEF PendingOf
<1>5. \A u \in Threads : Queued(u) \in Nat /\ Pending(u) \in Nat /\ Pending(u)' \in Nat
  BY DEF Pending
<1>6. /\ \A u \in Threads \ {t} : Queued(u)' = Queued(u) /\ Pending(u)' = Pending(u)
      /\ Queued(t)' = Queued(t) + d
  BY DEF Pending
<1> HIDE DEF Queued
<1>7. CASE t = "main"
  BY <1>1, <1>2, <1>3, <1>4, <1>5, <1>6, <1>7, SMTT(20) DEF Threads, Procs, ProcOf
<1>8. CASE t = "worker"
  BY <1>1, <1>2, <1>3, <1>4, <1>5, <1>6, <1>8, SMTT(20) DEF Threads, Procs, ProcOf
<1>9. CASE t = "forked"
  BY <1>1, <1>2, <1>3, <1>4, <1>5, <1>6, <1>9, SMTT(20) DEF Threads, Procs, ProcOf
<1> QED
  BY <1>7, <1>8, <1>9 DEF Threads

(* A line that comes to a _write: it is late, dropped, or passes. *)
LEMMA WriteBegins ==
  ASSUME FileInv, CountInv, NEW t \in Threads, NEW CONSTANT kind,
         kind \in {"event", "signal", "summary"}, t = "worker" => kind # "summary",
         ~ Busy(t), life[ProcOf(t)] # "none", UNCHANGED life,
         plan'["child"] = plan["child"] \/ life["child"] # "none", DOMAIN plan' = DOMAIN plan,
         Write(t, kind),
         UNCHANGED <<max_events, n, lines, inherited, refused, disabled, closed>>
  PROVE  CountInv'
<1> DEFINE p == ProcOf(t)
           gone == IF Silent(p) THEN 1 ELSE 0
           capped == IF ~ Silent(p) /\ n[p] >= max_events THEN 1 ELSE 0
           passes == IF ~ Silent(p) /\ n[p] < max_events THEN 1 ELSE 0
<1>1. p \in Procs
  BY Ownership
<1>2. Len(todo[t]) = 0 /\ todo[t] = <<>>
  BY DEF CountInv, QueueShape, Busy
<1>3. kind \in Kinds /\ kind # "header"
  BY DEF Kinds
<1>4. /\ emitted' = [emitted EXCEPT ![p] = @ + 1]
      /\ late' = [late EXCEPT ![p] = @ + gone]
      /\ dropped' = [dropped EXCEPT ![p] = @ + capped]
      /\ todo' = [todo EXCEPT ![t] = IF passes = 1 THEN <<kind>> ELSE <<>>]
      /\ pc' = [pc EXCEPT ![t] = IF passes = 1 THEN "lookup" ELSE "idle"]
  <2>1. /\ late = [late EXCEPT ![p] = @ + 0] /\ dropped = [dropped EXCEPT ![p] = @ + 0]
        /\ todo = [todo EXCEPT ![t] = <<>>] /\ pc = [pc EXCEPT ![t] = "idle"]
    BY <1>1, <1>2 DEF CountInv, Counters, QueueShape, FileInv, Busy
  <2>2. CASE Silent(p)
    BY <2>1, <2>2 DEF Write
  <2>3. CASE ~ Silent(p) /\ n[p] >= max_events
    <3>1. ~ (n[p] < max_events)
      BY <1>1, <2>3 DEF CountInv, Counters
    <3> QED
      BY <2>1, <2>3, <3>1 DEF Write
  <2>4. CASE ~ Silent(p) /\ n[p] < max_events
    <3>1. ~ (n[p] >= max_events)
      BY <1>1, <2>4 DEF CountInv, Counters
    <3> QED
      BY <2>1, <2>4, <3>1 DEF Write
  <2>5. n[p] \in Int /\ max_events \in Int
    BY <1>1 DEF CountInv, Counters
  <2> HIDE DEF p, gone, capped, passes
  <2> QED
    BY <2>2, <2>3, <2>4, <2>5
<1>5. /\ gone \in {0, 1} /\ capped \in {0, 1} /\ passes \in {0, 1}
      /\ gone + capped + passes = 1
      /\ gone = 1 => Silent(p)
      /\ passes = 1 => n[p] < max_events
  BY <1>1 DEF CountInv, Counters
<1> HIDE DEF gone, capped, passes
<1>6. Counters'
  <2>0. /\ emitted \in [Procs -> Nat] /\ late \in [Procs -> Nat] /\ dropped \in [Procs -> Nat]
        /\ gone \in Nat /\ capped \in Nat
    BY <1>5 DEF CountInv, Counters
  <2>1. emitted' \in [Procs -> Nat]
    <3>1. emitted' = [emitted EXCEPT ![p] = @ + 1]
      BY <1>4
    <3> QED
      BY <1>1, <2>0, <3>1
  <2>2. late' \in [Procs -> Nat]
    <3>1. late' = [late EXCEPT ![p] = @ + gone]
      BY <1>4
    <3> QED
      BY <1>1, <2>0, <3>1
  <2>3. dropped' \in [Procs -> Nat]
    <3>1. dropped' = [dropped EXCEPT ![p] = @ + capped]
      BY <1>4
    <3> QED
      BY <1>1, <2>0, <3>1
  <2> QED
    BY <2>1, <2>2, <2>3 DEF CountInv, Counters
<1>7. QueueShape'
  <2>1. todo' \in [Threads -> Seq(Kinds)]
    BY <1>3, <1>4 DEF CountInv, QueueShape
  <2>2. ASSUME NEW u \in Threads
        PROVE  /\ pc'[u] = "idle" <=> Len(todo'[u]) = 0
               /\ \A i \in 1..Len(todo'[u]) : todo'[u][i] = "header" <=> i < Len(todo'[u])
               /\ u = "worker" => \A i \in 1..Len(todo'[u]) : todo'[u][i] # "summary"
    <3>1. CASE u # t
      BY <1>4, <3>1 DEF CountInv, QueueShape, FileInv
    <3>2. CASE u = t
      BY <1>3, <1>4, <3>2 DEF CountInv, QueueShape, FileInv
    <3> QED
      BY <3>1, <3>2
  <2> QED
    BY <2>1, <2>2 DEF QueueShape
<1>8. Unborn'
  BY <1>1, <1>4 DEF CountInv, Counters, Unborn, Procs
<1>9. /\ \A q \in Procs \ {p} : InFlight(q)' = InFlight(q) /\ PendingOf(q)' = PendingOf(q)
      /\ InFlight(p)' = InFlight(p) + passes
      /\ PendingOf(p)' = PendingOf(p) + passes
  <2>1. /\ \A u \in Threads \ {t} : Len(todo'[u]) = Len(todo[u])
        /\ Len(todo'[t]) = Len(todo[t]) + passes
    BY <1>2, <1>4, <1>5 DEF CountInv, QueueShape
  <2>2. Pending(t) = 0 /\ Pending(t)' = passes
    BY <1>2, <1>4, <1>5 DEF Pending, CountInv, QueueShape
  <2>3. PendingOf(p) \in Nat
    BY DEF PendingOf, Pending
  <2>4. todo \in [Threads -> Seq(Kinds)] /\ passes \in Int
    BY <1>5 DEF CountInv, QueueShape
  <2>5. /\ \A q \in Procs \ {p} : InFlight(q)' = InFlight(q) /\ PendingOf(q)' = PendingOf(q)
        /\ InFlight(p)' = InFlight(p) + passes
        /\ PendingOf(p)' = PendingOf(p) - Pending(t) + Pending(t)'
    BY <2>1, <2>4, QueueMoves
  <2> QED
    BY <1>5, <2>2, <2>3, <2>5
<1>10. \A q \in Procs : /\ Written(q) \in Nat /\ Headers(q) \in Nat
                        /\ Written(q)' = Written(q) /\ Headers(q)' = Headers(q)
  BY CountsAreNumbers, SameLines DEF CountInv
<1>11. \A q \in Procs : InFlight(q) \in Nat
  BY DEF CountInv, QueueShape, InFlight, Threads
<1>12. EveryLineAccounted'
  <2> SUFFICES ASSUME NEW q \in Procs
               PROVE  /\ n[q] - inherited[q].n = Written(q) + Headers(q)
                      /\ emitted'[q] = Written(q) + Headers(q)
                                         + (dropped'[q] - inherited[q].dropped)
                                         + InFlight(q)' + refused[q] + late'[q]
                      /\ late'[q] > 0 => Silent(q)
    BY <1>10 DEF EveryLineAccounted, Silent, CountInv, Counters
  <2>1. /\ n[q] \in Nat /\ emitted[q] \in Nat /\ dropped[q] \in Nat
        /\ refused[q] \in Nat /\ late[q] \in Nat
        /\ inherited[q].n \in Nat /\ inherited[q].dropped \in Nat
    BY DEF CountInv, Counters
  <2>2. /\ n[q] - inherited[q].n = Written(q) + Headers(q)
        /\ emitted[q] = Written(q) + Headers(q) + (dropped[q] - inherited[q].dropped)
                         + InFlight(q) + refused[q] + late[q]
        /\ late[q] > 0 => Silent(q)
    BY DEF CountInv, EveryLineAccounted
  <2>3. IF q = p THEN /\ emitted'[q] = emitted[q] + 1 /\ late'[q] = late[q] + gone
                      /\ dropped'[q] = dropped[q] + capped /\ InFlight(q)' = InFlight(q) + passes
                 ELSE /\ emitted'[q] = emitted[q] /\ late'[q] = late[q]
                      /\ dropped'[q] = dropped[q] /\ InFlight(q)' = InFlight(q)
    BY <1>1, <1>4, <1>9 DEF CountInv, Counters
  <2> HIDE DEF p
  <2>4. CASE q # p
    BY <1>10, <1>11, <2>1, <2>2, <2>3, <2>4
  <2>5. CASE q = p
    <3>1. late'[q] > 0 => Silent(q)
      BY <1>5, <2>1, <2>2, <2>3, <2>5
    <3> QED
      BY <1>5, <1>10, <1>11, <2>1, <2>2, <2>3, <2>5, <3>1
  <2> QED
    BY <2>4, <2>5
<1>13. Overshoot'
  <2>1. ASSUME passes = 1 PROVE Written(p) <= max_events - 1
    BY <1>1, <1>5, <1>10, <2>1 DEF CountInv, Counters, EveryLineAccounted
  <2>2. \A q \in Procs : /\ PendingOf(q) \in Nat
                         /\ PendingOf(q)' <= IF q = "parent" THEN 2 ELSE 1
                         /\ Written(q) + PendingOf(q) <= max_events + (IF q = "parent" THEN 1 ELSE 0)
    BY DEF CountInv, Overshoot, PendingOf, Pending
  <2>3. max_events \in Nat /\ max_events' = max_events
    BY DEF CountInv, Counters
  <2>4. ASSUME NEW q \in Procs
        PROVE  Written(q) + PendingOf(q)' <= max_events + (IF q = "parent" THEN 1 ELSE 0)
    BY <1>1, <1>5, <1>9, <1>10, <2>1, <2>2, <2>3
  <2> QED
    BY <1>10, <2>3, <2>4 DEF Overshoot
<1> QED
  BY <1>6, <1>7, <1>8, <1>12, <1>13 DEF CountInv

(* An event begins a _write. *)
LEMMA EmitKeepsCount == ASSUME FileInv, CountInv, NEW t \in Threads, Emit(t) PROVE CountInv'
<1>1. life[ProcOf(t)] # "none" /\ ~ Busy(t) /\ Write(t, "event")
  BY DEF Emit, Runs
<1> QED
  BY <1>1, WriteBegins DEF Emit

(* So does a line of a handler. *)
LEMMA PlanNextKeepsCount ==
  ASSUME FileInv, CountInv, NEW p \in Procs, PlanNext(p) PROVE CountInv'
<1> DEFINE t == MainOf(p)
           kind == Head(plan[p])
<1>1. t \in Threads /\ ProcOf(t) = p /\ t # "worker"
  BY Ownership DEF MainOf
<1>2. kind \in {"signal", "summary"}
  BY DEF PlanNext, Does
<1>3. life[p] # "none" /\ ~ Busy(t) /\ Write(t, kind)
  BY DEF PlanNext, Does
<1>4. plan'["child"] = plan["child"] \/ life["child"] # "none"
  BY <1>3 DEF PlanNext, Procs
<1> HIDE DEF kind
<1> QED
  BY <1>1, <1>2, <1>3, <1>4, WriteBegins DEF PlanNext

(* What the guard makes the handler drop is counted, and so is what comes late. *)
LEMMA SignalInWriteKeepsCount ==
  ASSUME FileInv, CountInv, NEW p \in Procs, SignalInWrite(p) PROVE CountInv'
<1> DEFINE gone == IF Silent(p) THEN 1 ELSE 0
           drops == IF Silent(p) THEN 0 ELSE IF summarised[p] THEN 1 ELSE 2
<1>1. /\ UNCHANGED <<max_events, n, pc, todo, plan, lines, inherited, refused, disabled, closed>>
      /\ emitted' = [emitted EXCEPT ![p] = @ + gone + drops]
      /\ dropped' = [dropped EXCEPT ![p] = @ + drops]
      /\ late' = [late EXCEPT ![p] = @ + gone]
      /\ life[p] # "none" /\ (life'["child"] = "none" => life["child"] = "none")
  <2>1. life'["child"] = "none" => life["child"] = "none"
    BY DEF SignalInWrite, FileInv
  <2>2. CASE Silent(p)
    <3>1. \A k \in Nat : k + 1 + 0 = k + 1 /\ k + 0 = k
      OBVIOUS
    <3>2. dropped = [dropped EXCEPT ![p] = @ + 0] /\ emitted[p] + 1 + 0 = emitted[p] + 1
      BY <3>1 DEF CountInv, Counters
    <3> QED
      BY <2>1, <2>2, <3>2 DEF SignalInWrite
  <2>3. CASE ~ Silent(p)
    <3>1. drops \in Nat
      OBVIOUS
    <3>2. late = [late EXCEPT ![p] = @ + 0] /\ emitted[p] + 0 + drops = emitted[p] + drops
      BY <3>1 DEF CountInv, Counters
    <3> QED
      BY <2>1, <2>3, <3>2 DEF SignalInWrite
  <2> QED
    BY <2>2, <2>3
<1>2. gone \in Nat /\ drops \in Nat /\ (gone > 0 => Silent(p))
  OBVIOUS
<1> HIDE DEF gone, drops
<1>3. Counters' /\ QueueShape'
  <2>1. emitted' \in [Procs -> Nat] /\ dropped' \in [Procs -> Nat] /\ late' \in [Procs -> Nat]
    BY <1>1, <1>2 DEF CountInv, Counters
  <2> QED
    BY <1>1, <2>1 DEF CountInv, Counters, QueueShape
<1>4. Unborn'
  BY <1>1 DEF CountInv, Counters, Unborn, Procs
<1>5. EveryLineAccounted'
  <2>1. \A q \in Procs : /\ Written(q) \in Nat /\ Headers(q) \in Nat
                         /\ Written(q)' = Written(q) /\ Headers(q)' = Headers(q)
    BY <1>1, CountsAreNumbers, SameLines DEF CountInv
  <2>2. \A q \in Procs : InFlight(q) \in Nat /\ InFlight(q)' = InFlight(q)
    BY <1>1 DEF CountInv, QueueShape, InFlight, Threads
  <2> SUFFICES ASSUME NEW q \in Procs
               PROVE  /\ n[q] - inherited[q].n = Written(q) + Headers(q)
                      /\ emitted'[q] = Written(q) + Headers(q)
                                         + (dropped'[q] - inherited[q].dropped)
                                         + InFlight(q) + refused[q] + late'[q]
                      /\ late'[q] > 0 => Silent(q)
    BY <1>1, <2>1, <2>2 DEF EveryLineAccounted, Silent
  <2>3. /\ n[q] \in Nat /\ emitted[q] \in Nat /\ dropped[q] \in Nat
        /\ refused[q] \in Nat /\ late[q] \in Nat
        /\ inherited[q].n \in Nat /\ inherited[q].dropped \in Nat
    BY DEF CountInv, Counters
  <2>4. /\ n[q] - inherited[q].n = Written(q) + Headers(q)
        /\ emitted[q] = Written(q) + Headers(q) + (dropped[q] - inherited[q].dropped)
                         + InFlight(q) + refused[q] + late[q]
        /\ late[q] > 0 => Silent(q)
    BY DEF CountInv, EveryLineAccounted
  <2>5. CASE q # p
    <3>1. emitted'[q] = emitted[q] /\ dropped'[q] = dropped[q] /\ late'[q] = late[q]
      BY <1>1, <2>5 DEF CountInv, Counters
    <3> QED
      BY <2>4, <3>1
  <2>6. CASE q = p
    <3>1. /\ emitted'[q] = emitted[q] + gone + drops /\ dropped'[q] = dropped[q] + drops
          /\ late'[q] = late[q] + gone
      BY <1>1, <2>6 DEF CountInv, Counters
    <3>2. late'[q] > 0 => Silent(q)
      BY <1>2, <2>3, <2>4, <2>6, <3>1
    <3> QED
      BY <1>2, <2>1, <2>2, <2>3, <2>4, <3>1, <3>2
  <2> QED
    BY <2>5, <2>6
<1>6. Overshoot'
  BY <1>1 DEF CountInv, Overshoot, PendingOf, Pending, Written, Count
<1> QED
  BY <1>3, <1>4, <1>5, <1>6 DEF CountInv

(* The lines that are given up are refused, or late. *)
LEMMA GiveUpKeepsCount ==
  ASSUME FileInv, CountInv, NEW t \in Threads, OpenFails(t) \/ Refuse(t) PROVE CountInv'
<1> DEFINE p == ProcOf(t)
           d == Len(todo[t])
<1>1. p \in Procs /\ todo \in [Threads -> Seq(Kinds)] /\ d \in Nat \ {0}
  BY Ownership DEF CountInv, QueueShape, OpenFails, Refuse
<1>2. /\ UNCHANGED <<max_events, life, n, dropped, plan, closed, lines, emitted, inherited>>
      /\ todo' = [todo EXCEPT ![t] = <<>>] /\ pc' = [pc EXCEPT ![t] = "idle"]
      /\ life[p] # "none"
  BY DEF OpenFails, Refuse, GiveUp, Runs
<1>3. \/ /\ late' = [late EXCEPT ![p] = @ + d] /\ refused' = refused
         /\ disabled' = [disabled EXCEPT ![p] = TRUE]
      \/ /\ refused' = [refused EXCEPT ![p] = @ + d] /\ late' = late
         /\ disabled' = disabled
  <2>1. CASE OpenFails(t)
    BY <2>1 DEF OpenFails
  <2>2. CASE Refuse(t)
    <3>1. todo[t][1] = "event" /\ 1 \in 1..Len(todo[t])
      BY <1>1, <2>2 DEF Refuse
    <3>2. todo[t][1] = "header" <=> 1 < Len(todo[t])
      BY <3>1 DEF CountInv, QueueShape
    <3>3. ~ (1 < Len(todo[t]))
      BY <3>1, <3>2, Zenon
    <3>4. \A k \in Nat \ {0} : ~ (1 < k) => k = 1
      OBVIOUS
    <3>5. d = 1
      BY <1>1, <3>3, <3>4
    <3> QED
      BY <2>2, <3>5 DEF Refuse
  <2> QED
    BY <2>1, <2>2
<1> HIDE DEF d
<1>4. Counters'
  <2>1. late \in [Procs -> Nat] /\ refused \in [Procs -> Nat] /\ disabled \in [Procs -> BOOLEAN]
    BY DEF CountInv, Counters
  <2>2. late' \in [Procs -> Nat]
    BY <1>1, <1>3, <2>1
  <2>3. refused' \in [Procs -> Nat]
    BY <1>1, <1>3, <2>1
  <2>4. disabled' \in [Procs -> BOOLEAN]
    BY <1>3, <2>1
  <2> QED
    BY <1>2, <2>2, <2>3, <2>4 DEF CountInv, Counters
<1>5. QueueShape'
  BY <1>1, <1>2 DEF CountInv, QueueShape, FileInv
<1>6. Unborn'
  BY <1>1, <1>2, <1>3 DEF CountInv, Counters, Unborn, Procs
<1>7. /\ \A q \in Procs \ {p} : InFlight(q)' = InFlight(q) /\ PendingOf(q)' = PendingOf(q)
      /\ InFlight(p)' = InFlight(p) + (-d)
      /\ PendingOf(p)' = PendingOf(p) - Pending(t) + Pending(t)'
  <2>1. /\ \A u \in Threads \ {t} : Len(todo'[u]) = Len(todo[u])
        /\ Len(todo'[t]) = 0 /\ -d \in Int
    BY <1>1, <1>2
  <2>2. Len(todo'[t]) = Len(todo[t]) + (-d)
    BY <1>1, <2>1 DEF d
  <2> QED
    BY <1>1, <2>1, <2>2, QueueMoves
<1>8. \A q \in Procs : /\ Written(q) \in Nat /\ Headers(q) \in Nat
                       /\ Written(q)' = Written(q) /\ Headers(q)' = Headers(q)
  BY <1>2, CountsAreNumbers, SameLines DEF CountInv
<1>9. EveryLineAccounted'
  <2> SUFFICES ASSUME NEW q \in Procs
               PROVE  /\ n[q] - inherited[q].n = Written(q) + Headers(q)
                      /\ emitted[q] = Written(q) + Headers(q)
                                         + (dropped[q] - inherited[q].dropped)
                                         + InFlight(q)' + refused'[q] + late'[q]
                      /\ late'[q] > 0 => Silent(q)'
    BY <1>2, <1>8 DEF EveryLineAccounted
  <2>1. /\ n[q] \in Nat /\ emitted[q] \in Nat /\ dropped[q] \in Nat
        /\ refused[q] \in Nat /\ late[q] \in Nat
        /\ inherited[q].n \in Nat /\ inherited[q].dropped \in Nat
    BY DEF CountInv, Counters
  <2>2. /\ n[q] - inherited[q].n = Written(q) + Headers(q)
        /\ emitted[q] = Written(q) + Headers(q) + (dropped[q] - inherited[q].dropped)
                         + InFlight(q) + refused[q] + late[q]
        /\ late[q] > 0 => Silent(q)
    BY DEF CountInv, EveryLineAccounted
  <2>3. InFlight(q) \in Nat
    BY DEF CountInv, QueueShape, InFlight, Threads
  <2>4. late'[q] > 0 => Silent(q)'
    <3>1. Silent(q) => Silent(q)'
      BY <1>1, <1>2, <1>3 DEF Silent, CountInv, Counters
    <3>2. CASE late'[q] = late[q]
      BY <2>2, <3>1, <3>2
    <3>3. CASE late'[q] # late[q]
      <4>1. q = p /\ disabled' = [disabled EXCEPT ![p] = TRUE]
        BY <1>1, <1>3, <3>3 DEF CountInv, Counters
      <4> QED
        BY <1>1, <4>1 DEF Silent, CountInv, Counters
    <3> QED
      BY <3>2, <3>3
  <2>5. CASE q # p
    <3>1. late'[q] = late[q] /\ refused'[q] = refused[q] /\ InFlight(q)' = InFlight(q)
      BY <1>3, <1>7, <2>5 DEF CountInv, Counters
    <3> QED
      BY <2>2, <2>4, <3>1
  <2>6. CASE q = p
    <3>1. /\ InFlight(q)' = InFlight(q) - d
          /\ \/ late'[q] = late[q] + d /\ refused'[q] = refused[q]
             \/ refused'[q] = refused[q] + d /\ late'[q] = late[q]
      BY <1>1, <1>3, <1>7, <2>3, <2>6 DEF CountInv, Counters
    <3>2. Written(q) \in Nat /\ Headers(q) \in Nat /\ InFlight(q)' \in Int
      BY <1>1, <1>8, <2>3, <3>1
    <3>3. refused'[q] + late'[q] = refused[q] + late[q] + d
      BY <1>1, <2>1, <3>1
    <3>4. refused'[q] \in Nat /\ late'[q] \in Nat
      BY <1>1, <2>1, <3>1
    <3>5. emitted[q] = Written(q) + Headers(q) + (dropped[q] - inherited[q].dropped)
                        + InFlight(q)' + refused'[q] + late'[q]
      <4>1. \A b, x, f, g, k, l, r, s \in Int :
              g = f - k /\ l + s = r + k => b + x + f + r = b + x + g + l + s
        OBVIOUS
      <4>2. emitted[q] = (Written(q) + Headers(q)) + (dropped[q] - inherited[q].dropped)
                          + InFlight(q) + (refused[q] + late[q])
        BY <1>8, <2>1, <2>2, <2>3
      <4> DEFINE w == Written(q) + Headers(q)
                 x == dropped[q] - inherited[q].dropped
                 r == refused[q] + late[q]
      <4>3. w \in Int /\ x \in Int /\ r \in Int
        BY <2>1, <3>2
      <4>4. emitted[q] = w + x + InFlight(q) + r /\ refused'[q] + late'[q] = r + d
        BY <3>3, <4>2
      <4>5. d \in Int
        BY <1>1
      <4>6. InFlight(q)' = InFlight(q) - d
        BY <3>1
      <4> HIDE DEF w, x, r, d
      <4>7. /\ InFlight(q) \in Int /\ InFlight(q)' \in Int
            /\ refused'[q] \in Int /\ late'[q] \in Int
        BY <2>3, <3>2, <3>4
      <4>8. w + x + InFlight(q) + r = w + x + InFlight(q)' + refused'[q] + late'[q]
        BY <4>1, <4>3, <4>4, <4>5, <4>6, <4>7
      <4> QED
        BY <4>4, <4>8 DEF w, x
    <3> QED
      BY <2>2, <2>4, <3>5
  <2> QED
    BY <2>5, <2>6
<1>10. Overshoot'
  <2>1. \A q \in Procs : PendingOf(q) \in Nat /\ PendingOf(q)' \in Nat
    BY DEF PendingOf, Pending
  <2>2. Pending(t) \in Nat /\ Pending(t)' = 0
    BY <1>1, <1>2 DEF Pending
  <2>3. \A q \in Procs : PendingOf(q)' <= PendingOf(q)
    BY <1>1, <1>7, <2>1, <2>2
  <2>4. max_events \in Nat /\ max_events' = max_events
    BY <1>2 DEF CountInv, Counters
  <2> SUFFICES ASSUME NEW q \in Procs
               PROVE  Written(q) + PendingOf(q)' <= max_events + (IF q = "parent" THEN 1 ELSE 0)
    BY <1>8, <2>4 DEF Overshoot
  <2>5. Written(q) + PendingOf(q) <= max_events + (IF q = "parent" THEN 1 ELSE 0)
    BY DEF CountInv, Overshoot
  <2> QED
    BY <1>8, <2>1, <2>3, <2>4, <2>5
<1> QED
  BY <1>4, <1>5, <1>6, <1>9, <1>10 DEF CountInv

(* The headers go ahead of the line that opened the file. *)
LEMMA AnchorFileKeepsCount ==
  ASSUME FileInv, CountInv, NEW t \in Threads, AnchorFile(t) PROVE CountInv'
<1> DEFINE p == ProcOf(t)
           h == IF p = "child" THEN <<"header">> ELSE <<"header", "header">>
           d == Len(h)
<1>1. p \in Procs
  BY Ownership
<1>2. /\ h \in Seq(Kinds) /\ Len(h) \in Nat
      /\ \A i \in 1..Len(h) : h[i] = "header"
  BY DEF Kinds
<1>3. /\ UNCHANGED <<max_events, life, n, dropped, plan, lines, inherited, refused, late, disabled,
                     closed>>
      /\ todo' = [todo EXCEPT ![t] = h \o @]
      /\ emitted' = [emitted EXCEPT ![p] = @ + d]
      /\ pc[t] = "opened" /\ pc' = [pc EXCEPT ![t] = "lookup"]
      /\ life[p] # "none"
  BY DEF AnchorFile, Runs
<1> HIDE DEF h
<1>4. todo \in [Threads -> Seq(Kinds)] /\ Len(todo[t]) \in Nat \ {0}
  BY <1>3 DEF CountInv, QueueShape
<1>5. /\ todo'[t] \in Seq(Kinds) /\ Len(todo'[t]) = d + Len(todo[t])
      /\ \A i \in 1..d + Len(todo[t]) :
           todo'[t][i] = IF i <= d THEN h[i] ELSE todo[t][i - d]
  BY <1>2, <1>3, <1>4, ConcatProperties
<1>6. \A u \in Threads \ {t} : todo'[u] = todo[u] /\ pc'[u] = pc[u]
  BY <1>3, <1>4 DEF FileInv
<1>7. d \in Nat
  BY <1>2
<1> HIDE DEF d
<1>8. Counters'
  BY <1>1, <1>3, <1>7 DEF CountInv, Counters
<1>9. QueueShape'
  <2>1. todo' \in [Threads -> Seq(Kinds)]
    BY <1>3, <1>4, <1>5
  <2>2. pc'[t] # "idle"
    BY <1>3 DEF FileInv
  <2>3. \A i \in 1..Len(todo'[t]) : todo'[t][i] = "header" <=> i < Len(todo'[t])
    <3> SUFFICES ASSUME NEW i \in 1..d + Len(todo[t])
                 PROVE  todo'[t][i] = "header" <=> i < d + Len(todo[t])
      BY <1>5
    <3>1. CASE i <= d
      BY <1>2, <1>4, <1>5, <1>7, <3>1 DEF d
    <3>2. CASE i > d
      <4>1. i - d \in 1..Len(todo[t])
        BY <1>4, <1>7, <3>2
      <4>2. todo[t][i - d] = "header" <=> i - d < Len(todo[t])
        BY <4>1 DEF CountInv, QueueShape
      <4> QED
        BY <1>4, <1>5, <1>7, <3>2, <4>2
    <3> QED
      BY <1>7, <3>1, <3>2
  <2>4. t = "worker" => \A i \in 1..Len(todo'[t]) : todo'[t][i] # "summary"
    <3> SUFFICES ASSUME t = "worker", NEW i \in 1..d + Len(todo[t])
                 PROVE  todo'[t][i] # "summary"
      BY <1>5
    <3>1. CASE i <= d
      BY <1>2, <1>4, <1>5, <1>7, <3>1 DEF d
    <3>2. CASE i > d
      <4>1. i - d \in 1..Len(todo[t])
        BY <1>4, <1>7, <3>2
      <4>2. todo[t][i - d] # "summary"
        BY <4>1 DEF CountInv, QueueShape
      <4> QED
        BY <1>4, <1>5, <1>7, <3>2, <4>2
    <3> QED
      BY <1>7, <3>1, <3>2
  <2>5. Len(todo'[t]) # 0
    BY <1>4, <1>5, <1>7
  <2> QED
    <3>1. ASSUME NEW u \in Threads
          PROVE  /\ pc'[u] = "idle" <=> Len(todo'[u]) = 0
                 /\ \A i \in 1..Len(todo'[u]) : todo'[u][i] = "header" <=> i < Len(todo'[u])
                 /\ u = "worker" => \A i \in 1..Len(todo'[u]) : todo'[u][i] # "summary"
      <4>1. CASE u = t
        BY <2>2, <2>3, <2>4, <2>5, <4>1
      <4>2. CASE u # t
        <5>1. todo'[u] = todo[u] /\ pc'[u] = pc[u]
          BY <1>6, <4>2
        <5>2. /\ pc[u] = "idle" <=> Len(todo[u]) = 0
              /\ \A i \in 1..Len(todo[u]) : todo[u][i] = "header" <=> i < Len(todo[u])
              /\ u = "worker" => \A i \in 1..Len(todo[u]) : todo[u][i] # "summary"
          BY DEF CountInv, QueueShape
        <5> QED
          BY <5>1, <5>2
      <4> QED
        BY <4>1, <4>2
    <3> QED
      BY <2>1, <3>1 DEF QueueShape
<1>10. Unborn'
  BY <1>1, <1>3 DEF CountInv, Counters, Unborn, Procs
<1>11. /\ \A q \in Procs \ {p} : InFlight(q)' = InFlight(q) /\ PendingOf(q)' = PendingOf(q)
       /\ InFlight(p)' = InFlight(p) + d
       /\ PendingOf(p)' = PendingOf(p)
  <2>1. \A u \in Threads \ {t} : Len(todo'[u]) = Len(todo[u])
    BY <1>6
  <2>2. Len(todo'[t]) = Len(todo[t]) + d
    BY <1>4, <1>5, <1>7
  <2>3. Pending(t)' = 1 /\ Pending(t) = 1
    BY <1>4, <1>5, <1>7 DEF Pending
  <2>4. PendingOf(p) \in Int
    BY DEF PendingOf, Pending
  <2> QED
    <3>1. /\ \A q \in Procs \ {p} : InFlight(q)' = InFlight(q) /\ PendingOf(q)' = PendingOf(q)
          /\ InFlight(p)' = InFlight(p) + d
          /\ PendingOf(p)' = PendingOf(p) - Pending(t) + Pending(t)'
      <4>1. d \in Int
        BY <1>7
      <4> QED
        BY <1>4, <2>1, <2>2, <4>1, QueueMoves
    <3>2. PendingOf(p) - 1 + 1 = PendingOf(p)
      BY <2>4
    <3>3. PendingOf(p)' = PendingOf(p) - 1 + 1
      BY <2>3, <3>1
    <3> QED
      BY <3>1, <3>2, <3>3
<1>12. EveryLineAccounted'
  <2>1. \A q \in Procs : /\ Written(q) \in Nat /\ Headers(q) \in Nat
                         /\ Written(q)' = Written(q) /\ Headers(q)' = Headers(q)
    BY <1>3, CountsAreNumbers, SameLines DEF CountInv
  <2>2. \A q \in Procs : InFlight(q) \in Nat
    BY DEF CountInv, QueueShape, InFlight, Threads
  <2> SUFFICES ASSUME NEW q \in Procs
               PROVE  /\ n[q] - inherited[q].n = Written(q) + Headers(q)
                      /\ emitted'[q] = Written(q) + Headers(q)
                                         + (dropped[q] - inherited[q].dropped)
                                         + InFlight(q)' + refused[q] + late[q]
                      /\ late[q] > 0 => Silent(q)
    BY <1>3, <2>1 DEF EveryLineAccounted, Silent
  <2>3. /\ n[q] \in Nat /\ emitted[q] \in Nat /\ dropped[q] \in Nat /\ refused[q] \in Nat /\ late[q] \in Nat
        /\ inherited[q].n \in Nat /\ inherited[q].dropped \in Nat
    BY DEF CountInv, Counters
  <2>4. /\ n[q] - inherited[q].n = Written(q) + Headers(q)
        /\ emitted[q] = Written(q) + Headers(q) + (dropped[q] - inherited[q].dropped)
                         + InFlight(q) + refused[q] + late[q]
        /\ late[q] > 0 => Silent(q)
    BY DEF CountInv, EveryLineAccounted
  <2>5. IF q = p THEN emitted'[q] = emitted[q] + d /\ InFlight(q)' = InFlight(q) + d
                 ELSE emitted'[q] = emitted[q] /\ InFlight(q)' = InFlight(q)
    BY <1>3, <1>11 DEF CountInv, Counters, d
  <2> QED
    BY <1>7, <2>1, <2>2, <2>3, <2>4, <2>5
<1>13. Overshoot'
  <2>1. \A q \in Procs : Written(q)' = Written(q) /\ PendingOf(q)' = PendingOf(q)
    BY <1>3, <1>11, SameLines
  <2> QED
    BY <1>3, <2>1 DEF CountInv, Overshoot
<1> QED
  BY <1>8, <1>9, <1>10, <1>12, <1>13 DEF CountInv

(* The child begins with what it inherits, and has done nothing. *)
LEMMA ForkKeepsCount == ASSUME FileInv, CountInv, Fork PROVE CountInv'
<1>1. Counters'
  BY DEF Fork, CountInv, Counters, Procs
<1>2. QueueShape' /\ Unborn'
  BY DEF Fork, CountInv, QueueShape, Unborn, FileInv, Procs
<1>3. \A q \in Procs : /\ Written(q) \in Nat /\ Headers(q) \in Nat /\ Count(q, "summary") \in Nat
                       /\ Written(q)' = Written(q) /\ Headers(q)' = Headers(q)
                       /\ Count(q, "summary")' = Count(q, "summary")
  BY CountsAreNumbers, SameLines DEF CountInv, Fork, Kinds
<1>4. \A q \in Procs : /\ InFlight(q) \in Nat /\ InFlight(q)' = InFlight(q)
                       /\ PendingOf(q)' = PendingOf(q)
  BY DEF CountInv, QueueShape, InFlight, PendingOf, Pending, Threads, Fork
<1>5. /\ n["child"] = 0 /\ dropped["child"] = 0 /\ emitted["child"] = 0
      /\ inherited["child"].n = 0 /\ inherited["child"].dropped = 0
      /\ plan["child"] = <<>>
  BY DEF Fork, CountInv, Unborn
<1>6. refused["child"] = 0 /\ late["child"] = 0
  BY DEF Fork, CountInv, Unborn
<1>7. /\ Written("child") = 0 /\ Headers("child") = 0 /\ InFlight("child") = 0
  <2>1. "child" \in Procs
    BY DEF Procs
  <2>2. emitted["child"] = Written("child") + Headers("child")
                           + (dropped["child"] - inherited["child"].dropped)
                           + InFlight("child") + refused["child"] + late["child"]
    BY <2>1 DEF CountInv, EveryLineAccounted
  <2>3. dropped["child"] - inherited["child"].dropped = 0
    BY <1>5
  <2>4. 0 = Written("child") + Headers("child") + 0 + InFlight("child") + refused["child"] + late["child"]
    BY <1>5, <2>2, <2>3
  <2>5. /\ Written("child") \in Nat /\ Headers("child") \in Nat /\ InFlight("child") \in Nat
    BY <1>3, <1>4, <2>1
  <2> QED
    <3>1. \A a, b, c \in Nat : 0 = a + b + 0 + c + 0 + 0 => a = 0 /\ b = 0 /\ c = 0
      OBVIOUS
    <3>2. 0 = Written("child") + Headers("child") + 0 + InFlight("child") + 0 + 0
      BY <1>6, <2>4
    <3> QED
      BY <2>5, <3>1, <3>2
<1>8. EveryLineAccounted'
  <2>1. /\ n'["child"] = n["parent"] /\ dropped'["child"] = dropped["parent"]
        /\ inherited'["child"].n = n["parent"] /\ inherited'["child"].dropped = dropped["parent"]
        /\ n["parent"] \in Nat /\ dropped["parent"] \in Nat
        /\ n'["parent"] = n["parent"] /\ dropped'["parent"] = dropped["parent"]
        /\ inherited'["parent"] = inherited["parent"]
        /\ emitted' = emitted /\ refused' = refused /\ late' = late
    BY DEF Fork, CountInv, Counters, Procs
  <2>2. /\ n'["child"] - inherited'["child"].n = 0
        /\ dropped'["child"] - inherited'["child"].dropped = 0
    BY <2>1
  <2>3. /\ n'["child"] - inherited'["child"].n = Written("child") + Headers("child")
        /\ emitted'["child"] = Written("child") + Headers("child")
                               + (dropped'["child"] - inherited'["child"].dropped)
                               + InFlight("child") + refused'["child"] + late'["child"]
    BY <1>5, <1>6, <1>7, <2>1, <2>2
  <2>4. /\ n'["parent"] - inherited'["parent"].n = Written("parent") + Headers("parent")
        /\ emitted'["parent"] = Written("parent") + Headers("parent")
                                + (dropped'["parent"] - inherited'["parent"].dropped)
                                + InFlight("parent") + refused'["parent"] + late'["parent"]
    BY <2>1 DEF CountInv, EveryLineAccounted, Procs
  <2>5. \A q \in Procs : late'[q] > 0 => Silent(q)'
    <3>1. disabled'["parent"] = disabled["parent"] /\ closed' = closed /\ late' = late
      BY DEF Fork, CountInv, Counters, Procs
    <3>2. late["parent"] > 0 => Silent("parent")
      BY DEF CountInv, EveryLineAccounted, Procs
    <3> QED
      BY <1>6, <3>1, <3>2 DEF Silent, Procs
  <2> QED
    BY <1>3, <1>4, <2>3, <2>4, <2>5 DEF EveryLineAccounted, Procs
<1>9. Overshoot'
  BY <1>3, <1>4 DEF CountInv, Overshoot, Fork
<1> QED
  BY <1>1, <1>2, <1>8, <1>9 DEF CountInv

(* A line leaves the queue of its thread: it is counted, or late. *)
LEMMA PutKeepsCount == ASSUME FileInv, CountInv, NEW t \in Threads, Put(t) PROVE CountInv'
<1> DEFINE p == ProcOf(t)
           kind == Head(todo[t])
           size == Len(todo[t])
<1>1. p \in Procs /\ ProcOf(using[t]) = p
  BY Ownership DEF Put, FileInv, UsingOwn
<1>2. /\ todo \in [Threads -> Seq(Kinds)] /\ size \in Nat \ {0}
      /\ kind = todo[t][1] /\ kind \in Kinds
  BY DEF Put, CountInv, QueueShape
<1>3. /\ Tail(todo[t]) \in Seq(Kinds) /\ Len(Tail(todo[t])) = size - 1
      /\ \A i \in 1..size - 1 : Tail(todo[t])[i] = todo[t][i + 1]
  BY <1>2, HeadTailProperties
<1>4. /\ UNCHANGED <<max_events, life, dropped, plan, emitted, inherited, refused, closed>>
      /\ pc[t] = "holding" /\ life[p] \notin {"none", "ended"}
      /\ todo' = [todo EXCEPT ![t] = Tail(@)]
      /\ pc' = [pc EXCEPT ![t] = IF size = 1 THEN "idle" ELSE "lookup"]
  BY DEF Put, Runs
<1>5. PICK stored \in BOOLEAN :
        IF stored THEN /\ lines' = [lines EXCEPT ![p][p][kind] = @ + 1]
                       /\ n' = [n EXCEPT ![p] = @ + 1] /\ late' = late
                       /\ disabled' = disabled
                  ELSE /\ late' = [late EXCEPT ![p] = @ + 1] /\ UNCHANGED <<lines, n>>
                       /\ disabled' = [disabled EXCEPT ![p] = TRUE]
  BY <1>1 DEF Put
<1>6. kind = "header" <=> size # 1
  <2>1. 1 \in 1..Len(todo[t])
    BY <1>2
  <2>2. todo[t][1] = "header" <=> 1 < Len(todo[t])
    BY <2>1 DEF CountInv, QueueShape
  <2>3. kind = "header" <=> 1 < size
    BY <1>2, <2>2
  <2>4. size \in Nat \ {0}
    BY <1>2
  <2> HIDE DEF kind, size
  <2> QED
    BY <2>3, <2>4
<1>7. /\ Len(todo'[t]) = size - 1
      /\ \A i \in 1..size - 1 : todo'[t][i] = todo[t][i + 1]
      /\ \A u \in Threads \ {t} : todo'[u] = todo[u] /\ pc'[u] = pc[u]
  BY <1>2, <1>3, <1>4 DEF FileInv
<1> HIDE DEF kind, size
<1>8. \A q \in Procs, k \in Kinds :
        Count(q, k)' = Count(q, k) + (IF stored /\ q = p /\ k = kind THEN 1 ELSE 0)
  <2>1. \A q \in Procs, k \in Kinds : Count(q, k) \in Nat
    BY CountsAreNumbers DEF CountInv
  <2>2. CASE stored
    <3>1. Counters /\ kind \in Kinds /\ lines' = [lines EXCEPT ![p][p][kind] = @ + 1]
      BY <1>2, <1>5, <2>2 DEF CountInv, kind
    <3>2. \A q \in Procs, k \in Kinds :
            Count(q, k)' = Count(q, k) + (IF q = p /\ k = kind THEN 1 ELSE 0)
      BY <1>1, <3>1, LineCounted
    <3> QED
      BY <2>2, <3>2
  <2>3. CASE ~ stored
    <3>1. lines' = lines
      BY <1>5, <2>3
    <3>2. \A q \in Procs, k \in Kinds : Count(q, k)' = Count(q, k)
      BY <3>1 DEF Count
    <3> QED
      BY <2>1, <2>3, <3>2
  <2> QED
    BY <2>2, <2>3
<1>9. Counters'
  <2>1. lines' \in [Procs -> [Procs -> [Kinds -> Nat]]]
    <3>1. CASE stored
      <4>1. Counters /\ kind \in Kinds /\ lines' = [lines EXCEPT ![p][p][kind] = @ + 1]
        BY <1>2, <1>5, <3>1 DEF CountInv, kind
      <4> QED
        BY <1>1, <4>1, LineCounted
    <3>2. CASE ~ stored
      BY <1>5, <3>2 DEF CountInv, Counters
    <3> QED
      BY <3>1, <3>2
  <2>2. n' \in [Procs -> Nat] /\ late' \in [Procs -> Nat]
    <3>1. n \in [Procs -> Nat] /\ late \in [Procs -> Nat]
      BY DEF CountInv, Counters
    <3>2. CASE stored
      BY <1>1, <1>5, <3>1, <3>2
    <3>3. CASE ~ stored
      BY <1>1, <1>5, <3>1, <3>3
    <3> QED
      BY <3>2, <3>3
  <2>3. disabled' \in [Procs -> BOOLEAN]
    BY <1>5 DEF CountInv, Counters
  <2> QED
    BY <1>4, <2>1, <2>2, <2>3 DEF CountInv, Counters
<1>10. Unborn'
  BY <1>1, <1>4, <1>5 DEF CountInv, Counters, Unborn, Procs
<1>11. QueueShape'
  <2>1. todo' \in [Threads -> Seq(Kinds)]
    BY <1>2, <1>3, <1>4
  <2>2. ASSUME NEW u \in Threads
        PROVE  /\ pc'[u] = "idle" <=> Len(todo'[u]) = 0
               /\ \A i \in 1..Len(todo'[u]) : todo'[u][i] = "header" <=> i < Len(todo'[u])
               /\ u = "worker" => \A i \in 1..Len(todo'[u]) : todo'[u][i] # "summary"
    <3>1. /\ pc[u] = "idle" <=> Len(todo[u]) = 0
          /\ \A i \in 1..Len(todo[u]) : todo[u][i] = "header" <=> i < Len(todo[u])
          /\ u = "worker" => \A i \in 1..Len(todo[u]) : todo[u][i] # "summary"
      BY DEF CountInv, QueueShape
    <3>2. CASE u # t
      <4>1. todo'[u] = todo[u] /\ pc'[u] = pc[u]
        BY <1>7, <3>2
      <4> QED
        BY <3>1, <4>1
    <3>3. CASE u = t
      <4>1. pc'[t] = IF size = 1 THEN "idle" ELSE "lookup"
        BY <1>4 DEF FileInv
      <4>2. pc'[t] = "idle" <=> Len(todo'[t]) = 0
        BY <1>2, <1>7, <4>1
      <4>3. ASSUME NEW i \in 1..size - 1
            PROVE  /\ todo'[t][i] = "header" <=> i < size - 1
                   /\ t = "worker" => todo'[t][i] # "summary"
        <5>1. i + 1 \in 1..Len(todo[t])
          BY <1>2 DEF size
        <5>2. /\ todo[t][i + 1] = "header" <=> i + 1 < size
              /\ t = "worker" => todo[t][i + 1] # "summary"
          BY <3>1, <3>3, <5>1 DEF size
        <5> QED
          BY <1>2, <1>7, <5>2
      <4> QED
        BY <1>7, <3>3, <4>2, <4>3
    <3> QED
      BY <3>2, <3>3
  <2> QED
    BY <2>1, <2>2 DEF QueueShape
<1>12. /\ \A q \in Procs \ {p} : InFlight(q)' = InFlight(q) /\ PendingOf(q)' = PendingOf(q)
       /\ InFlight(p)' = InFlight(p) - 1
       /\ PendingOf(p)' = IF kind = "header" THEN PendingOf(p) ELSE PendingOf(p) - 1
  <2>1. \A u \in Threads \ {t} : Len(todo'[u]) = Len(todo[u])
    BY <1>7
  <2>2. Len(todo'[t]) = Len(todo[t]) + (-1)
    BY <1>2, <1>7 DEF size
  <2>3. /\ \A q \in Procs \ {p} : InFlight(q)' = InFlight(q) /\ PendingOf(q)' = PendingOf(q)
        /\ InFlight(p)' = InFlight(p) + (-1)
        /\ PendingOf(p)' = PendingOf(p) - Pending(t) + Pending(t)'
    <3>1. -1 \in Int
      OBVIOUS
    <3> QED
      BY <1>2, <2>1, <2>2, <3>1, QueueMoves
  <2>4. Pending(t) = 1 /\ Pending(t)' = IF kind = "header" THEN 1 ELSE 0
    BY <1>2, <1>6, <1>7 DEF Pending, size
  <2>5. PendingOf(p) \in Int /\ InFlight(p) \in Int
    BY <1>1, <1>2 DEF PendingOf, Pending, InFlight, Threads
  <2>6. PendingOf(p)' = PendingOf(p) - 1 + (IF kind = "header" THEN 1 ELSE 0)
    BY <2>3, <2>4
  <2> QED
    BY <2>3, <2>5, <2>6
<1>13. ASSUME NEW q \in Procs
       PROVE  /\ Written(q) \in Nat /\ Headers(q) \in Nat
              /\ Written(q)' = IF stored /\ q = p /\ kind # "header" THEN Written(q) + 1
                                                                   ELSE Written(q)
              /\ Headers(q)' = IF stored /\ q = p /\ kind = "header" THEN Headers(q) + 1
                                                                   ELSE Headers(q)
  <2>1. /\ Count(q, "event") \in Nat /\ Count(q, "signal") \in Nat
        /\ Count(q, "summary") \in Nat /\ Count(q, "header") \in Nat
    BY CountsAreNumbers DEF CountInv, Kinds
  <2>2. /\ Count(q, "event")' = Count(q, "event") + (IF stored /\ q = p /\ kind = "event" THEN 1 ELSE 0)
        /\ Count(q, "signal")' = Count(q, "signal") + (IF stored /\ q = p /\ kind = "signal" THEN 1 ELSE 0)
        /\ Count(q, "summary")' = Count(q, "summary") + (IF stored /\ q = p /\ kind = "summary" THEN 1 ELSE 0)
        /\ Count(q, "header")' = Count(q, "header") + (IF stored /\ q = p /\ kind = "header" THEN 1 ELSE 0)
    BY <1>8 DEF Kinds
  <2>3. kind \in {"header", "event", "signal", "summary"}
    BY <1>2 DEF Kinds, kind
  <2> QED
    BY <2>1, <2>2, <2>3 DEF Written, Headers
<1>14. EveryLineAccounted'
  <2> SUFFICES ASSUME NEW q \in Procs
               PROVE  /\ n'[q] - inherited[q].n = Written(q)' + Headers(q)'
                      /\ emitted[q] = Written(q)' + Headers(q)'
                                         + (dropped[q] - inherited[q].dropped)
                                         + InFlight(q)' + refused[q] + late'[q]
                      /\ late'[q] > 0 => Silent(q)'
    BY <1>4 DEF EveryLineAccounted
  <2>1. /\ n[q] \in Nat /\ emitted[q] \in Nat /\ dropped[q] \in Nat 
        /\ refused[q] \in Nat /\ late[q] \in Nat
        /\ inherited[q].n \in Nat /\ inherited[q].dropped \in Nat
    BY DEF CountInv, Counters
  <2>2. /\ n[q] - inherited[q].n = Written(q) + Headers(q)
        /\ emitted[q] = Written(q) + Headers(q) + (dropped[q] - inherited[q].dropped)
                         + InFlight(q) + refused[q] + late[q]
        /\ late[q] > 0 => Silent(q)
    BY DEF CountInv, EveryLineAccounted
  <2>3. InFlight(q) \in Nat
    BY DEF CountInv, QueueShape, InFlight, Threads
  <2>4. late'[q] > 0 => Silent(q)'
    <3>1. Silent(q) => Silent(q)'
      BY <1>1, <1>4, <1>5 DEF Silent, CountInv, Counters
    <3>2. CASE late'[q] = late[q]
      BY <2>2, <3>1, <3>2
    <3>3. CASE late'[q] # late[q]
      <4>1. q = p /\ disabled' = [disabled EXCEPT ![p] = TRUE]
        BY <1>1, <1>5, <3>3 DEF CountInv, Counters
      <4> QED
        BY <1>1, <4>1 DEF Silent, CountInv, Counters
    <3> QED
      BY <3>2, <3>3
  <2>5. CASE q # p
    <3>1. /\ n'[q] = n[q] /\ late'[q] = late[q] /\ InFlight(q)' = InFlight(q)
          /\ Written(q)' = Written(q) /\ Headers(q)' = Headers(q)
      BY <1>1, <1>5, <1>12, <1>13, <2>5 DEF CountInv, Counters
    <3> QED
      BY <2>2, <2>4, <3>1
  <2>6. CASE q = p /\ stored
    <3>1. /\ n'[q] = n[q] + 1 /\ late'[q] = late[q] /\ InFlight(q)' = InFlight(q) - 1
          /\ Written(q)' + Headers(q)' = Written(q) + Headers(q) + 1
      BY <1>1, <1>5, <1>12, <1>13, <2>6 DEF CountInv, Counters
    <3>2. Written(q) \in Nat /\ Headers(q) \in Nat /\ Written(q)' \in Nat /\ Headers(q)' \in Nat
      BY <1>13
    <3>3. n'[q] - inherited[q].n = Written(q)' + Headers(q)'
      BY <2>1, <2>2, <3>1, <3>2
    <3>4. emitted[q] = (Written(q)' + Headers(q)') + (dropped[q] - inherited[q].dropped)
                       + InFlight(q)' + refused[q] + late'[q]
      BY <2>1, <2>2, <2>3, <3>1, <3>2
    <3> QED
      BY <2>4, <3>3, <3>4
  <2>7. CASE q = p /\ ~ stored
    <3>1. /\ n'[q] = n[q] /\ late'[q] = late[q] + 1 /\ InFlight(q)' = InFlight(q) - 1
          /\ Written(q)' = Written(q) /\ Headers(q)' = Headers(q)
      BY <1>1, <1>5, <1>12, <1>13, <2>7 DEF CountInv, Counters
    <3>2. Written(q) \in Nat /\ Headers(q) \in Nat
      BY <1>13
    <3> QED
      BY <2>1, <2>2, <2>3, <2>4, <3>1, <3>2
  <2> QED
    BY <2>5, <2>6, <2>7
<1>15. Overshoot'
  <2> SUFFICES ASSUME NEW q \in Procs
               PROVE  Written(q)' + PendingOf(q)' <= max_events + (IF q = "parent" THEN 1 ELSE 0)
    BY <1>4 DEF Overshoot
  <2>1. /\ Written(q) + PendingOf(q) <= max_events + (IF q = "parent" THEN 1 ELSE 0)
        /\ max_events \in Nat
    BY DEF CountInv, Overshoot, Counters
  <2>2. PendingOf(q) \in Nat
    BY DEF PendingOf, Pending
  <2>3. /\ Written(q) \in Nat /\ Written(q)' \in Nat /\ PendingOf(q)' \in Nat
        /\ Written(q)' + PendingOf(q)' <= Written(q) + PendingOf(q)
    <3>1. CASE q = p
      <4>1. PendingOf(q)' = IF kind = "header" THEN PendingOf(q) ELSE PendingOf(q) - 1
        BY <1>12, <3>1
      <4>2. PendingOf(q)' \in Nat
        BY DEF PendingOf, Pending
      <4> QED
        BY <1>13, <2>2, <4>1, <4>2
    <3>2. CASE q # p
      BY <1>12, <1>13, <2>2, <3>2
    <3> QED
      BY <3>1, <3>2
  <2> QED
    BY <2>1, <2>2, <2>3
<1> QED
  BY <1>9, <1>10, <1>11, <1>14, <1>15 DEF CountInv

(* The invariant is kept by every step, and holds of every behaviour. *)
THEOREM CountInvariant == Safety => []CountInv
<1>1. ASSUME FileInv, CountInv, [Next]_vars PROVE CountInv'
  <2>1. CASE UNCHANGED vars
    <3>1. /\ UNCHANGED <<max_events, n, dropped, emitted, refused, late, inherited, lines, todo>>
          /\ UNCHANGED <<plan, disabled, closed, pc, life>>
      BY <2>1 DEF vars
    <3>2. \A p \in Procs : Silent(p)' = Silent(p)
      BY <3>1 DEF Silent
    <3> QED
      BY <1>1, <3>1, <3>2, UncountedStep DEF CountInv, Counters
  <2>2. ASSUME NEW t \in Threads, Emit(t) \/ Writing(t) PROVE CountInv'
    BY <1>1, <2>2, EmitKeepsCount, UncountedKeep, AnchorFileKeepsCount, PutKeepsCount,
       GiveUpKeepsCount DEF Writing
  <2>3. CASE Fork
    BY <1>1, <2>3, ForkKeepsCount
  <2>4. ASSUME NEW p \in Procs, Exit(p) \/ Signal(p) \/ SignalInWrite(p) \/ Handling(p)
        PROVE  CountInv'
    BY <1>1, <2>4, UncountedKeep, SignalInWriteKeepsCount, PlanNextKeepsCount DEF Handling
  <2> QED
    BY <1>1, <2>1, <2>2, <2>3, <2>4 DEF Next
<1> QED
  BY <1>1, InitEstablishesCountInv, FileInvariant, PTL DEF Safety

(* Whatever the races of the threads, the fork, the exit and the signals, each
   line a process was asked for is in a file, counted as dropped, in flight,
   refused by json.dumps, or late; and where one is late the tracer says so. *)
THEOREM LinesAccounted == Safety => []EveryLineAccounted
<1>1. CountInv => EveryLineAccounted
  BY DEF CountInv
<1> QED
  BY <1>1, CountInvariant, PTL

(* The unlocked check of the cap lets through less than a line per thread. *)
THEOREM CapHolds == Safety => []CapOvershootBounded
<1>1. CountInv => CapOvershootBounded
  <2> SUFFICES ASSUME CountInv, NEW p \in Procs
               PROVE  Written(p) <= max_events + Cardinality(ThreadsOf(p)) - 1
    BY DEF CapOvershootBounded
  <2>1. Cardinality(ThreadsOf(p)) = IF p = "parent" THEN 2 ELSE 1
    <3>1. CASE p = "parent"
      <4>1. ThreadsOf(p) = {"main"} \cup {"worker"}
        BY <3>1 DEF ThreadsOf, Threads, ProcOf
      <4>2. IsFiniteSet({"main"}) /\ Cardinality({"main"}) = 1
        BY FS_Singleton
      <4>3. Cardinality({"main"} \cup {"worker"}) = Cardinality({"main"}) + 1
        BY <4>2, FS_AddElement
      <4> QED
        BY <3>1, <4>1, <4>2, <4>3
    <3>2. CASE p = "child"
      <4>1. ThreadsOf(p) = {"forked"}
        BY <3>2 DEF ThreadsOf, Threads, ProcOf
      <4> QED
        BY <3>2, <4>1, FS_Singleton
    <3> QED
      BY <3>1, <3>2 DEF Procs
  <2>2. Written(p) \in Nat /\ max_events \in Nat /\ PendingOf(p) \in Nat
    BY CountsAreNumbers DEF CountInv, Counters, PendingOf, Pending
  <2>3. Written(p) + PendingOf(p) <= max_events + (IF p = "parent" THEN 1 ELSE 0)
    BY DEF CountInv, Overshoot
  <2> QED
    BY <2>1, <2>2, <2>3
<1> QED
  BY <1>1, CountInvariant, PTL

----------------------------------------------------------------------------
(* One summary. *)

Items == {"signal", "flush", "default", "return", "exit", "summary", "close"}

(* What a handler has before it: a summary, one at most, one before each close. *)
Has(s) == \E i \in 1..Len(s) : s[i] = "summary"
Once(s) == \A i, j \in 1..Len(s) : s[i] = "summary" /\ s[j] = "summary" => i = j
Ahead(s) == \A i \in 1..Len(s) : s[i] = "close" => \E j \in 1..i - 1 : s[j] = "summary"

(* The main thread is writing the summary. *)
Summarising(p) ==
  LET s == todo[MainOf(p)] IN Len(s) # 0 /\ s[Len(s)] = "summary"

(* Unless an _on_exit began inside another, the summary is planned, being
   written or written, one of the three and that once.  A file is closed after
   the summary, if that is only planned. *)
Single(p) ==
  /\ ~ summarised[p] => Count(p, "summary") = 0
  /\ closed[p] => summarised[p]
  /\ ~ overlapped[p] =>
       /\ Once(plan[p])
       /\ Has(plan[p]) => Count(p, "summary") = 0 /\ ~ Summarising(p)
       /\ Summarising(p) => Count(p, "summary") = 0
       /\ Count(p, "summary") <= 1
  /\ summarised[p] \/ Summarising(p) \/ Ahead(plan[p])

SummaryInv ==
  /\ plan \in [Procs -> Seq(Items)]
  /\ summarised \in [Procs -> BOOLEAN]
  /\ overlapped \in [Procs -> BOOLEAN]
  /\ \A p \in Procs : Single(p)

(* The initial states satisfy it. *)
LEMMA InitEstablishesSummaryInv == Init => SummaryInv
<1> SUFFICES ASSUME Init PROVE SummaryInv
  OBVIOUS
<1>1. \A p \in Procs : /\ Count(p, "summary") = 0 /\ plan[p] = <<>> /\ closed[p] = FALSE
                       /\ Len(todo[MainOf(p)]) = 0
  BY Ownership DEF Init, Count, Procs, Kinds
<1>2. \A p \in Procs : Single(p)
  BY <1>1 DEF Single, Once, Has, Ahead, Summarising
<1> QED
  BY <1>2 DEF Init, SummaryInv

(* What is before a handler when it has done its next item. *)
LEMMA PopItem ==
  ASSUME NEW s \in Seq(Items), s # <<>>
  PROVE  /\ Tail(s) \in Seq(Items)
         /\ Once(s) => Once(Tail(s))
         /\ Has(Tail(s)) => Has(s)
         /\ Head(s) = "summary" => Has(s) /\ (Once(s) => ~ Has(Tail(s)))
         /\ Head(s) # "summary" /\ Ahead(s) => Ahead(Tail(s))
         /\ Head(s) = "close" => ~ Ahead(s)
<1>1. /\ Tail(s) \in Seq(Items) /\ Len(s) \in Nat \ {0} /\ Len(Tail(s)) = Len(s) - 1
      /\ \A i \in 1..Len(s) - 1 : Tail(s)[i] = s[i + 1]
      /\ Head(s) = s[1]
  BY HeadTailProperties
<1>2. \A i \in 1..Len(Tail(s)) : i + 1 \in 1..Len(s) /\ Tail(s)[i] = s[i + 1]
  BY <1>1
<1>3. 1 \in 1..Len(s)
  BY <1>1
<1>4. Once(s) => Once(Tail(s))
  <2> SUFFICES ASSUME Once(s), NEW i \in 1..Len(Tail(s)), NEW j \in 1..Len(Tail(s)),
                      Tail(s)[i] = "summary", Tail(s)[j] = "summary"
               PROVE  i = j
    BY DEF Once
  <2>1. i + 1 = j + 1
    BY <1>2 DEF Once
  <2> QED
    BY <2>1
<1>5. Has(Tail(s)) => Has(s)
  BY <1>2 DEF Has
<1>6. Head(s) = "summary" => Has(s) /\ (Once(s) => ~ Has(Tail(s)))
  <2> SUFFICES ASSUME Head(s) = "summary" PROVE Has(s) /\ (Once(s) => ~ Has(Tail(s)))
    OBVIOUS
  <2>1. Has(s)
    BY <1>1, <1>3 DEF Has
  <2>2. ASSUME Once(s), NEW i \in 1..Len(Tail(s)), Tail(s)[i] = "summary" PROVE FALSE
    <3>1. i + 1 = 1
      BY <1>1, <1>2, <1>3, <2>2 DEF Once
    <3> QED
      BY <3>1
  <2> QED
    BY <2>1, <2>2 DEF Has
<1>7. Head(s) # "summary" /\ Ahead(s) => Ahead(Tail(s))
  <2> SUFFICES ASSUME Head(s) # "summary", Ahead(s), NEW i \in 1..Len(Tail(s)),
                      Tail(s)[i] = "close"
               PROVE  \E j \in 1..i - 1 : Tail(s)[j] = "summary"
    BY DEF Ahead
  <2>1. PICK j \in 1..i + 1 - 1 : s[j] = "summary"
    BY <1>2 DEF Ahead
  <2>2. j # 1
    BY <1>1, <2>1
  <2>3. j - 1 \in 1..i - 1 /\ j - 1 \in 1..Len(s) - 1 /\ j - 1 + 1 = j
    BY <1>1, <2>2
  <2> QED
    BY <1>1, <2>1, <2>3
<1>8. Head(s) = "close" => ~ Ahead(s)
  BY <1>1, <1>3 DEF Ahead
<1> QED
  BY <1>1, <1>4, <1>5, <1>6, <1>7, <1>8

(* What is before a handler when something is put first. *)
LEMMA PushItems ==
  ASSUME NEW a \in Seq(Items), NEW s \in Seq(Items)
  PROVE  /\ a \o s \in Seq(Items)
         /\ ~ Has(a) => (Once(s) => Once(a \o s)) /\ (Has(a \o s) => Has(s))
         /\ (\A i \in 1..Len(a) : a[i] # "close") /\ Ahead(s) => Ahead(a \o s)
         /\ Len(a) # 0 /\ a[1] = "summary" => Ahead(a \o s)
         /\ Once(a) /\ ~ Has(s) => Once(a \o s)
<1> DEFINE r == a \o s
<1>1. /\ r \in Seq(Items) /\ Len(a) \in Nat /\ Len(s) \in Nat /\ Len(r) = Len(a) + Len(s)
      /\ \A i \in 1..Len(r) : r[i] = IF i <= Len(a) THEN a[i] ELSE s[i - Len(a)]
  BY ConcatProperties
<1> HIDE DEF r
<1>2. \A i \in 1..Len(r) : \/ i \in 1..Len(a) /\ r[i] = a[i]
                           \/ i > Len(a) /\ i - Len(a) \in 1..Len(s) /\ r[i] = s[i - Len(a)]
  BY <1>1
<1>3. ~ Has(a) => (Once(s) => Once(r)) /\ (Has(r) => Has(s))
  <2> SUFFICES ASSUME ~ Has(a) PROVE (Once(s) => Once(r)) /\ (Has(r) => Has(s))
    OBVIOUS
  <2>1. \A i \in 1..Len(r) : r[i] = "summary" =>
          i - Len(a) \in 1..Len(s) /\ s[i - Len(a)] = "summary"
    BY <1>2 DEF Has
  <2>2. ASSUME Once(s), NEW i \in 1..Len(r), NEW j \in 1..Len(r),
               r[i] = "summary", r[j] = "summary"
        PROVE  i = j
    <3>1. i - Len(a) = j - Len(a)
      BY <2>1, <2>2 DEF Once
    <3> QED
      BY <1>1, <3>1
  <2> QED
    BY <2>1, <2>2 DEF Has, Once
<1>4. (\A i \in 1..Len(a) : a[i] # "close") /\ Ahead(s) => Ahead(r)
  <2> SUFFICES ASSUME \A i \in 1..Len(a) : a[i] # "close", Ahead(s),
                      NEW i \in 1..Len(r), r[i] = "close"
               PROVE  \E j \in 1..i - 1 : r[j] = "summary"
    BY DEF Ahead
  <2>1. i > Len(a) /\ i - Len(a) \in 1..Len(s) /\ s[i - Len(a)] = "close"
    BY <1>2
  <2>2. PICK j \in 1..i - Len(a) - 1 : s[j] = "summary"
    BY <2>1 DEF Ahead
  <2>3. /\ j + Len(a) \in 1..i - 1 /\ j + Len(a) \in 1..Len(r) /\ ~ (j + Len(a) <= Len(a))
        /\ j + Len(a) - Len(a) = j
    BY <1>1, <2>1
  <2>4. r[j + Len(a)] = "summary"
    BY <1>1, <2>2, <2>3
  <2> QED
    BY <2>3, <2>4
<1>5. Len(a) # 0 /\ a[1] = "summary" => Ahead(r)
  <2> SUFFICES ASSUME Len(a) # 0, a[1] = "summary", NEW i \in 1..Len(r), r[i] = "close"
               PROVE  \E j \in 1..i - 1 : r[j] = "summary"
    BY DEF Ahead
  <2>1. 1 \in 1..Len(r) /\ r[1] = "summary"
    BY <1>1
  <2>2. i # 1
    BY <2>1
  <2> QED
    BY <2>1, <2>2
<1>6. Once(a) /\ ~ Has(s) => Once(r)
  <2> SUFFICES ASSUME Once(a), ~ Has(s), NEW i \in 1..Len(r), NEW j \in 1..Len(r),
                      r[i] = "summary", r[j] = "summary"
               PROVE  i = j
    BY DEF Once
  <2>1. \A k \in {i, j} : k \in 1..Len(a) /\ a[k] = "summary"
    BY <1>2 DEF Has
  <2> QED
    BY <2>1 DEF Once
<1> QED
  BY <1>1, <1>3, <1>4, <1>5, <1>6 DEF r

(* Nothing of it changes for a process that a step leaves alone. *)
LEMMA OthersSingle ==
  ASSUME NEW q \in Procs, Single(q), plan'[q] = plan[q], summarised'[q] = summarised[q],
         closed'[q] = closed[q], overlapped'[q] = overlapped[q],
         todo'[MainOf(q)] = todo[MainOf(q)], Count(q, "summary")' = Count(q, "summary")
  PROVE  Single(q)'
BY DEF Single, Summarising

(* A step that changes but what a process has before it, and no summary. *)
LEMMA PlanOnly ==
  ASSUME SummaryInv, NEW p \in Procs, NEW s \in Seq(Items),
         UNCHANGED <<lines, todo, summarised, closed, overlapped>>,
         plan' = [plan EXCEPT ![p] = s],
         Once(plan[p]) => Once(s), Has(s) => Has(plan[p]), Ahead(plan[p]) => Ahead(s)
  PROVE  SummaryInv'
<1>1. plan' \in [Procs -> Seq(Items)] /\ plan'[p] = s
  BY DEF SummaryInv
<1>2. \A q \in Procs : Count(q, "summary")' = Count(q, "summary") /\ Summarising(q)' = Summarising(q)
  BY DEF Count, Summarising
<1>3. Single(p)'
  BY <1>1, <1>2 DEF SummaryInv, Single
<1>4. ASSUME NEW q \in Procs, q # p PROVE Single(q)'
  <2>1. plan'[q] = plan[q] /\ Single(q)
    BY <1>4 DEF SummaryInv
  <2> QED
    BY <1>2, <2>1, OthersSingle
<1> QED
  BY <1>1, <1>3, <1>4 DEF SummaryInv

(* The exit and the signals put something first, the handing on takes it off. *)
LEMMA PlanKeepsSummary ==
  ASSUME SummaryInv, NEW p \in Procs, Exit(p) \/ Signal(p) \/ HandOn(p) PROVE SummaryInv'
<1> DEFINE s == plan[p]
<1>1. s \in Seq(Items)
  BY DEF SummaryInv
<1>2. CASE Exit(p)
  <2>1. <<"exit">> \in Seq(Items) /\ Once(<<"exit">>) /\ ~ Has(<<"exit">>) /\ Ahead(<<"exit">>)
    BY DEF Items, Once, Has, Ahead
  <2>2. plan' = [plan EXCEPT ![p] = <<"exit">>]
    BY <1>2 DEF Exit
  <2>3. UNCHANGED <<lines, todo, summarised, closed, overlapped>>
    BY <1>2 DEF Exit
  <2> QED
    BY <2>1, <2>2, <2>3, PlanOnly
<1>3. CASE Signal(p)
  <2>1. PICK before \in Dispositions :
          plan' = [plan EXCEPT ![p] = <<"signal", "flush", before>> \o @]
    BY <1>3 DEF Signal
  <2> DEFINE a == <<"signal", "flush", before>>
  <2>2. a \in Seq(Items) /\ ~ Has(a) /\ \A i \in 1..Len(a) : a[i] # "close"
    BY DEF Items, Has, Dispositions
  <2> HIDE DEF a
  <2>3. /\ a \o s \in Seq(Items)
        /\ Once(s) => Once(a \o s)
        /\ Has(a \o s) => Has(s)
        /\ Ahead(s) => Ahead(a \o s)
    BY <1>1, <2>2, PushItems
  <2>4. plan' = [plan EXCEPT ![p] = a \o s]
    BY <2>1 DEF a
  <2>5. UNCHANGED <<lines, todo, summarised, closed, overlapped>>
    BY <1>3 DEF Signal
  <2> QED
    BY <2>3, <2>4, <2>5, PlanOnly
<1>4. CASE HandOn(p)
  <2>1. s # <<>> /\ Head(s) \in Dispositions /\ plan' = [plan EXCEPT ![p] = Tail(s)]
    BY <1>4 DEF HandOn, Does
  <2>2. Head(s) # "summary"
    BY <2>1 DEF Dispositions
  <2>3. /\ Tail(s) \in Seq(Items)
        /\ Once(s) => Once(Tail(s))
        /\ Has(Tail(s)) => Has(s)
        /\ Ahead(s) => Ahead(Tail(s))
    BY <1>1, <2>1, <2>2, PopItem
  <2>4. UNCHANGED <<lines, todo, summarised, closed, overlapped>>
    BY <1>4 DEF HandOn
  <2> QED
    BY <2>1, <2>3, <2>4, PlanOnly
<1> QED
  BY <1>2, <1>3, <1>4

(* The close of a file comes after its summary. *)
LEMMA FinishKeepsSummary ==
  ASSUME FileInv, CountInv, SummaryInv, NEW p \in Procs, Finish(p) PROVE SummaryInv'
<1> DEFINE s == plan[p]
<1>1. /\ s \in Seq(Items) /\ s # <<>> /\ Head(s) = "close" /\ ~ Busy(MainOf(p))
      /\ plan' = [plan EXCEPT ![p] = Tail(s)]
      /\ closed' = [closed EXCEPT ![p] = TRUE]
      /\ UNCHANGED <<lines, todo, summarised, overlapped>>
  BY DEF Finish, Does, SummaryInv
<1>2. /\ Tail(s) \in Seq(Items) /\ (Once(s) => Once(Tail(s))) /\ (Has(Tail(s)) => Has(s))
      /\ ~ Ahead(s)
  BY <1>1, PopItem
<1>3. ~ Summarising(p)
  BY <1>1, Ownership DEF CountInv, QueueShape, Busy, Summarising
<1>4. summarised[p]
  BY <1>2, <1>3 DEF SummaryInv, Single
<1>5. \A q \in Procs : Count(q, "summary")' = Count(q, "summary") /\ Summarising(q)' = Summarising(q)
  BY <1>1 DEF Count, Summarising
<1>6. plan' \in [Procs -> Seq(Items)] /\ plan'[p] = Tail(s)
  BY <1>1, <1>2 DEF SummaryInv
<1>7. Single(p)'
  <2>1. Single(p)
    BY DEF SummaryInv
  <2> QED
    BY <1>1, <1>2, <1>4, <1>5, <1>6, <2>1 DEF Single
<1>8. ASSUME NEW q \in Procs, q # p PROVE Single(q)'
  <2>1. plan'[q] = plan[q] /\ closed'[q] = closed[q] /\ Single(q)
    BY <1>1, <1>8 DEF SummaryInv, CountInv, Counters
  <2> QED
    BY <1>1, <1>5, <2>1, OthersSingle
<1> QED
  BY <1>1, <1>6, <1>7, <1>8 DEF SummaryInv

(* What an _on_exit puts first: nothing of a summary, or one that it misses. *)
LEMMA ExitItems ==
  ASSUME FileInv, CountInv, SummaryInv, NEW p \in Procs, OnExit(p)
  PROVE  \E a \in Seq(Items) :
           /\ plan' = [plan EXCEPT ![p] = a \o Tail(@)]
           /\ Once(a)
           /\ \/ /\ ~ Has(a) /\ overlapped' = overlapped
                 /\ summarised[p] \/ \A i \in 1..Len(a) : a[i] # "close"
              \/ /\ Len(a) # 0 /\ a[1] = "summary" /\ ~ summarised[p]
                 /\ ~ overlapped'[p] => ~ Has(plan[p])
<1> DEFINE closing == IF Head(plan[p]) = "exit" THEN <<"close">> ELSE <<>>
           summary == IF Silent(p) THEN <<>> ELSE Summarise(p)
           a == IF Silent(p) THEN <<>> ELSE summary \o closing
<1>1. /\ plan' = [plan EXCEPT ![p] = a \o Tail(@)]
      /\ overlapped' = [overlapped EXCEPT ![p] = @ \/ (summary # <<>> /\ Planned(p))]
  BY DEF OnExit
<1>2. overlapped = [overlapped EXCEPT ![p] = @ \/ FALSE]
  BY DEF SummaryInv
<1>3. <<>> \in Seq(Items) /\ Once(<<>>) /\ ~ Has(<<>>)
  BY DEF Once, Has
<1>4. closing \in Seq(Items) /\ Once(closing) /\ ~ Has(closing)
  <2>1. CASE closing = <<>>
    <3> HIDE DEF closing
    <3> QED
      BY <1>3, <2>1
  <2>2. CASE closing = <<"close">>
    <3> HIDE DEF closing
    <3>1. <<"close">> \in Seq(Items) /\ Once(<<"close">>) /\ ~ Has(<<"close">>)
      BY DEF Items, Once, Has
    <3> QED
      BY <2>2, <3>1
  <2> QED
    BY <2>1, <2>2
<1>5. CASE Silent(p)
  <2>1. a = <<>> /\ summary = <<>>
    BY <1>5
  <2>2. overlapped' = overlapped
    BY <1>1, <1>2, <2>1
  <2>3. plan' = [plan EXCEPT ![p] = <<>> \o Tail(@)]
    BY <1>1, <2>1
  <2>4. \A i \in 1..Len(<<>>) : <<>>[i] # "close"
    OBVIOUS
  <2> HIDE DEF a, summary
  <2> QED
    BY <1>3, <2>2, <2>3, <2>4
<1>6. CASE ~ Silent(p) /\ summarised[p]
  <2>1. summary = <<>> /\ a = <<>> \o closing
    BY <1>6 DEF Summarise
  <2>2. closing \in Seq(Items) /\ Once(closing) /\ ~ Has(closing)
    BY <1>4
  <2>3. a = closing
    BY <2>1, <2>2, ConcatEmptySeq
  <2>4. overlapped' = overlapped
    BY <1>1, <1>2, <2>1
  <2> HIDE DEF a, summary, closing
  <2> QED
    BY <1>1, <1>6, <2>2, <2>3, <2>4
<1>7. CASE ~ Silent(p) /\ ~ summarised[p]
  <2>1. summary = <<"summary">> /\ a = <<"summary">> \o closing
    BY <1>7 DEF Summarise
  <2>2. /\ closing \in Seq(Items) /\ ~ Has(closing)
        /\ <<"summary">> \in Seq(Items) /\ Once(<<"summary">>)
    BY <1>4 DEF Items, Once
  <2>3. /\ a \in Seq(Items) /\ Once(a)
        /\ Len(a) # 0 /\ a[1] = "summary"
    <3>1. a \in Seq(Items) /\ Once(a)
      <4>1. <<"summary">> \o closing \in Seq(Items) /\ Once(<<"summary">> \o closing)
        BY <2>2, PushItems
      <4> HIDE DEF a
      <4> QED
        BY <2>1, <4>1
    <3>2. Len(a) # 0 /\ a[1] = "summary"
      <4> DEFINE c == <<"summary">> \o closing
      <4>1. /\ Len(c) = Len(<<"summary">>) + Len(closing)
            /\ \A i \in 1..Len(<<"summary">>) + Len(closing) :
                 c[i] = IF i <= Len(<<"summary">>) THEN <<"summary">>[i]
                                                   ELSE closing[i - Len(<<"summary">>)]
        BY <2>2, ConcatProperties
      <4>2. Len(<<"summary">>) = 1 /\ <<"summary">>[1] = "summary" /\ Len(closing) \in Nat
        BY <2>2
      <4> HIDE DEF c, closing
      <4>3. Len(c) # 0 /\ c[1] = "summary"
        BY <4>1, <4>2
      <4>4. a = c
        BY <2>1 DEF c
      <4> HIDE DEF a
      <4> QED
        BY <4>3, <4>4
    <3> QED
      BY <3>1, <3>2
  <2>4. ~ overlapped'[p] => ~ Has(plan[p])
    <3>1. summary # <<>> /\ DOMAIN plan[p] = 1..Len(plan[p])
      BY <2>1 DEF SummaryInv
    <3> HIDE DEF summary, a
    <3> QED
      BY <1>1, <3>1 DEF SummaryInv, Planned, Has
  <2> HIDE DEF a, summary, closing
  <2> QED
    BY <1>1, <1>7, <2>3, <2>4
<1> QED
  BY <1>5, <1>6, <1>7 DEF SummaryInv

(* An _on_exit plans a summary only if none is written, being written or, unless
   it overlaps, planned. *)
LEMMA OnExitKeepsSummary ==
  ASSUME FileInv, CountInv, SummaryInv, NEW p \in Procs, OnExit(p) PROVE SummaryInv'
<1> DEFINE s == plan[p]
<1>1. /\ s \in Seq(Items) /\ s # <<>> /\ Head(s) \in {"exit", "flush"} /\ ~ Busy(MainOf(p))
      /\ UNCHANGED <<lines, todo, summarised, closed>>
      /\ \A q \in Procs : q # p => overlapped'[q] = overlapped[q]
      /\ overlapped[p] => overlapped'[p]
  BY DEF OnExit, Does, SummaryInv
<1>2. PICK a \in Seq(Items) :
           /\ plan' = [plan EXCEPT ![p] = a \o Tail(@)]
           /\ Once(a)
           /\ \/ /\ ~ Has(a) /\ overlapped' = overlapped
                 /\ summarised[p] \/ \A i \in 1..Len(a) : a[i] # "close"
              \/ /\ Len(a) # 0 /\ a[1] = "summary" /\ ~ summarised[p]
                 /\ ~ overlapped'[p] => ~ Has(plan[p])
  BY ExitItems
<1>3. /\ Tail(s) \in Seq(Items) /\ (Once(s) => Once(Tail(s))) /\ (Has(Tail(s)) => Has(s))
      /\ Ahead(s) => Ahead(Tail(s))
  <2>1. Head(s) # "summary"
    BY <1>1
  <2> QED
    BY <1>1, <2>1, PopItem
<1>4. /\ a \o Tail(s) \in Seq(Items)
      /\ ~ Has(a) => (Once(Tail(s)) => Once(a \o Tail(s))) /\ (Has(a \o Tail(s)) => Has(Tail(s)))
      /\ (\A i \in 1..Len(a) : a[i] # "close") /\ Ahead(Tail(s)) => Ahead(a \o Tail(s))
      /\ Len(a) # 0 /\ a[1] = "summary" => Ahead(a \o Tail(s))
      /\ Once(a) /\ ~ Has(Tail(s)) => Once(a \o Tail(s))
  BY <1>3, PushItems
<1>5. plan' \in [Procs -> Seq(Items)] /\ plan'[p] = a \o Tail(s)
  BY <1>2, <1>4 DEF SummaryInv
<1>6. \A q \in Procs : Count(q, "summary")' = Count(q, "summary") /\ Summarising(q)' = Summarising(q)
  BY <1>1 DEF Count, Summarising
<1>7. Single(p) /\ ~ Summarising(p)
  BY <1>1, Ownership DEF SummaryInv, CountInv, QueueShape, Busy, Summarising
<1>8. Single(p)'
  <2>1. CASE ~ Has(a) /\ overlapped' = overlapped
    BY <1>1, <1>2, <1>3, <1>4, <1>5, <1>6, <1>7, <2>1 DEF Single
  <2>2. CASE /\ Len(a) # 0 /\ a[1] = "summary" /\ ~ summarised[p]
             /\ ~ overlapped'[p] => ~ Has(plan[p])
    <3>1. Count(p, "summary") = 0
      BY <1>7, <2>2 DEF Single
    <3>2. ~ overlapped'[p] => Once(plan[p])'
      BY <1>2, <1>3, <1>4, <1>5, <2>2
    <3>3. Ahead(plan[p])'
      BY <1>4, <1>5, <2>2
    <3> QED
      BY <1>1, <1>6, <1>7, <2>2, <3>1, <3>2, <3>3 DEF Single
  <2> QED
    BY <1>2, <2>1, <2>2
<1>9. ASSUME NEW q \in Procs, q # p PROVE Single(q)'
  <2>1. plan'[q] = plan[q] /\ overlapped'[q] = overlapped[q] /\ Single(q)
    BY <1>1, <1>2, <1>9 DEF SummaryInv
  <2> QED
    BY <1>1, <1>6, <2>1, OthersSingle
<1>10. overlapped' \in [Procs -> BOOLEAN]
  BY DEF OnExit, SummaryInv
<1> QED
  BY <1>1, <1>5, <1>8, <1>9, <1>10 DEF SummaryInv

(* A _write takes up its line, or not. *)
LEMMA WriteTakes ==
  ASSUME FileInv, CountInv, NEW t \in Threads, NEW CONSTANT kind, ~ Busy(t), Write(t, kind)
  PROVE  /\ todo' = [todo EXCEPT ![t] = IF Silent(ProcOf(t)) \/ n[ProcOf(t)] >= max_events
                                          THEN <<>> ELSE <<kind>>]
         /\ todo[t] = <<>>
<1>1. todo[t] = <<>> /\ todo = [todo EXCEPT ![t] = <<>>]
  BY DEF CountInv, QueueShape, Busy
<1>2. n[ProcOf(t)] < max_events => ~ (n[ProcOf(t)] >= max_events)
  BY Ownership DEF CountInv, Counters
<1> QED
  BY <1>1, <1>2 DEF Write

(* An event is no summary. *)
LEMMA EmitKeepsSummary ==
  ASSUME FileInv, CountInv, SummaryInv, NEW t \in Threads, Emit(t) PROVE SummaryInv'
<1>1. /\ UNCHANGED <<lines, plan, summarised, closed, overlapped>>
      /\ ~ Busy(t) /\ Write(t, "event")
  BY DEF Emit
<1>2. /\ todo[t] = <<>> /\ todo'[t] \in {<<>>, <<"event">>}
      /\ \A u \in Threads : u # t => todo'[u] = todo[u]
  BY <1>1, WriteTakes DEF CountInv, QueueShape
<1>3. \A q \in Procs : Count(q, "summary")' = Count(q, "summary") /\ Summarising(q)' = Summarising(q)
  BY <1>1, <1>2, Ownership DEF Count, Summarising
<1> QED
  BY <1>1, <1>3 DEF SummaryInv, Single

(* A line of a handler; the summary is written or dropped but once. *)
LEMMA PlanNextKeepsSummary ==
  ASSUME FileInv, CountInv, SummaryInv, NEW p \in Procs, PlanNext(p) PROVE SummaryInv'
<1> DEFINE s == plan[p]
           kind == Head(s)
           t == MainOf(p)
           stops == Silent(p) \/ n[p] >= max_events
<1>1. /\ s \in Seq(Items) /\ s # <<>> /\ kind \in {"signal", "summary"} /\ ~ Busy(t)
      /\ Write(t, kind) /\ plan' = [plan EXCEPT ![p] = Tail(s)]
      /\ UNCHANGED <<lines, closed, overlapped>>
      /\ summarised' = [summarised EXCEPT ![p] = @ \/ (kind = "summary" /\ stops)]
  BY DEF PlanNext, Does, SummaryInv
<1>2. t \in Threads /\ ProcOf(t) = p
  BY Ownership
<1>3. /\ todo' = [todo EXCEPT ![t] = IF stops THEN <<>> ELSE <<kind>>]
      /\ todo[t] = <<>>
  <2> HIDE DEF kind
  <2> QED
    BY <1>1, <1>2, WriteTakes
<1>4. /\ Tail(s) \in Seq(Items) /\ (Once(s) => Once(Tail(s))) /\ (Has(Tail(s)) => Has(s))
      /\ kind = "summary" => Has(s) /\ (Once(s) => ~ Has(Tail(s)))
      /\ kind # "summary" /\ Ahead(s) => Ahead(Tail(s))
  BY <1>1, PopItem
<1> HIDE DEF stops
<1>5. /\ plan' \in [Procs -> Seq(Items)] /\ plan'[p] = Tail(s)
      /\ summarised' \in [Procs -> BOOLEAN]
      /\ summarised'[p] = (summarised[p] \/ (kind = "summary" /\ stops))
  BY <1>1, <1>4 DEF SummaryInv
<1>6. \A q \in Procs : Count(q, "summary")' = Count(q, "summary")
  BY <1>1 DEF Count
<1>7. ~ Summarising(p) /\ (Summarising(p)' <=> kind = "summary" /\ ~ stops)
  <2>1. todo'[t] = IF stops THEN <<>> ELSE <<kind>>
    BY <1>2, <1>3 DEF CountInv, QueueShape
  <2> HIDE DEF kind, t
  <2>2. Len(<<kind>>) = 1 /\ <<kind>>[1] = kind /\ Len(<<>>) = 0
    OBVIOUS
  <2> QED
    BY <1>3, <2>1, <2>2 DEF Summarising, t
<1>8. Single(p)'
  <2>1. Single(p)
    BY DEF SummaryInv
  <2>2. CASE kind = "summary"
    <3>1. summarised'[p] \/ Summarising(p)'
      BY <1>5, <1>7, <2>2
    <3>2. ~ overlapped[p] => Count(p, "summary") = 0 /\ ~ Has(Tail(s)) /\ Once(Tail(s))
      BY <1>4, <2>1, <2>2 DEF Single
    <3>3. /\ ~ summarised'[p] => Count(p, "summary") = 0
          /\ closed[p] => summarised'[p]
      BY <1>5, <2>1 DEF Single
    <3>4. Count(p, "summary")' = Count(p, "summary")
      BY <1>6
    <3> QED
      BY <1>1, <1>5, <3>1, <3>2, <3>3, <3>4 DEF Single
  <2>3. CASE kind # "summary"
    <3>1. summarised'[p] = summarised[p] /\ ~ Summarising(p)'
      BY <1>5, <1>7, <2>3 DEF SummaryInv
    <3> QED
      BY <1>1, <1>4, <1>5, <1>6, <1>7, <2>1, <2>3, <3>1 DEF Single
  <2> QED
    BY <2>2, <2>3
<1>9. ASSUME NEW q \in Procs, q # p PROVE Single(q)'
  <2>1. /\ plan'[q] = plan[q] /\ summarised'[q] = summarised[q] /\ Single(q)
    BY <1>1, <1>9 DEF SummaryInv
  <2>2. MainOf(q) # t
    BY <1>9, Ownership
  <2>3. todo'[MainOf(q)] = todo[MainOf(q)]
    BY <1>3, <2>2, Ownership DEF CountInv, QueueShape
  <2> QED
    BY <1>1, <1>6, <2>1, <2>3, OthersSingle
<1> QED
  BY <1>1, <1>5, <1>8, <1>9 DEF SummaryInv

(* What the guard dropped counts as written. *)
LEMMA SignalInWriteKeepsSummary ==
  ASSUME SummaryInv, NEW p \in Procs, SignalInWrite(p) PROVE SummaryInv'
<1>1. /\ UNCHANGED <<lines, todo, plan, closed, overlapped>>
      /\ summarised' \in [Procs -> BOOLEAN]
      /\ \A q \in Procs : summarised[q] => summarised'[q]
  BY DEF SignalInWrite, SummaryInv
<1>2. \A q \in Procs : Count(q, "summary")' = Count(q, "summary") /\ Summarising(q)' = Summarising(q)
  BY <1>1 DEF Count, Summarising
<1> QED
  BY <1>1, <1>2 DEF SummaryInv, Single

(* The headers go ahead of the summary, too. *)
LEMMA AnchorFileKeepsSummary ==
  ASSUME FileInv, CountInv, SummaryInv, NEW t \in Threads, AnchorFile(t) PROVE SummaryInv'
<1> DEFINE h == IF ProcOf(t) = "child" THEN <<"header">> ELSE <<"header", "header">>
<1>1. /\ UNCHANGED <<lines, plan, summarised, closed, overlapped>>
      /\ todo' = [todo EXCEPT ![t] = h \o @] /\ pc[t] = "opened"
  BY DEF AnchorFile
<1>2. h \in Seq(Kinds)
  <2>1. <<"header">> \in Seq(Kinds) /\ <<"header", "header">> \in Seq(Kinds)
    BY DEF Kinds
  <2> QED
    BY <2>1
<1> HIDE DEF h
<1>3. todo \in [Threads -> Seq(Kinds)] /\ Len(todo[t]) \in Nat \ {0}
  BY <1>1 DEF CountInv, QueueShape
<1>4. /\ Len(h \o todo[t]) = Len(h) + Len(todo[t]) /\ Len(h) \in Nat
      /\ \A i \in 1..Len(h) + Len(todo[t]) :
           (h \o todo[t])[i] = IF i <= Len(h) THEN h[i] ELSE todo[t][i - Len(h)]
  BY <1>2, <1>3, ConcatProperties
<1>5. /\ Len(todo'[t]) # 0 /\ Len(todo[t]) # 0
      /\ todo'[t][Len(todo'[t])] = todo[t][Len(todo[t])]
  <2>1. todo'[t] = h \o todo[t]
    BY <1>1, <1>3
  <2>2. /\ Len(h) + Len(todo[t]) \in 1..Len(h) + Len(todo[t])
        /\ ~ (Len(h) + Len(todo[t]) <= Len(h))
        /\ Len(h) + Len(todo[t]) - Len(h) = Len(todo[t])
    BY <1>3, <1>4
  <2> QED
    BY <1>3, <1>4, <2>1, <2>2
<1>6. \A u \in Threads : u # t => todo'[u] = todo[u]
  BY <1>1, <1>3
<1>7. \A q \in Procs : Summarising(q)' = Summarising(q)
  BY <1>5, <1>6, Ownership DEF Summarising
<1>8. \A q \in Procs : Count(q, "summary")' = Count(q, "summary")
  BY <1>1 DEF Count
<1> QED
  BY <1>1, <1>7, <1>8 DEF SummaryInv, Single

(* Lines that are given up: the summary among them counts as written. *)
LEMMA GiveUpKeepsSummary ==
  ASSUME FileInv, CountInv, SummaryInv, NEW t \in Threads, OpenFails(t) \/ Refuse(t)
  PROVE  SummaryInv'
<1> DEFINE p == ProcOf(t)
           had == \E i \in DOMAIN todo[t] : todo[t][i] = "summary"
<1>1. /\ UNCHANGED <<lines, plan, closed, overlapped>>
      /\ todo' = [todo EXCEPT ![t] = <<>>]
      /\ summarised' = [summarised EXCEPT ![p] = @ \/ had]
  BY DEF OpenFails, Refuse, GiveUp
<1>2. p \in Procs /\ todo \in [Threads -> Seq(Kinds)]
  BY Ownership DEF CountInv, QueueShape
<1>3. t = MainOf(p) /\ Summarising(p) => had
  <2> SUFFICES ASSUME Len(todo[t]) # 0, todo[t][Len(todo[t])] = "summary" PROVE had
    BY DEF Summarising
  <2>1. Len(todo[t]) \in DOMAIN todo[t]
    BY <1>2
  <2> QED
    BY <2>1
<1> HIDE DEF had
<1>4. \A q \in Procs : /\ Count(q, "summary")' = Count(q, "summary")
                       /\ Summarising(q)' => Summarising(q)
  <2>1. ASSUME NEW q \in Procs, Summarising(q)' PROVE Summarising(q)
    <3>1. CASE MainOf(q) = t
      BY <1>1, <1>2, <2>1, <3>1 DEF Summarising
    <3>2. CASE MainOf(q) # t
      BY <1>1, <1>2, <2>1, <3>2, Ownership DEF Summarising
    <3> QED
      BY <3>1, <3>2
  <2> QED
    BY <1>1, <2>1 DEF Count
<1>5. /\ summarised' \in [Procs -> BOOLEAN]
      /\ \A q \in Procs : summarised'[q] = (summarised[q] \/ (q = p /\ had))
  BY <1>1, <1>2 DEF SummaryInv
<1>6. \A q \in Procs : Summarising(q) => Summarising(q)' \/ summarised'[q]
  <2> SUFFICES ASSUME NEW q \in Procs, Summarising(q), ~ Summarising(q)'
               PROVE  summarised'[q]
    OBVIOUS
  <2>1. MainOf(q) = t
    BY <1>1, <1>2, Ownership DEF Summarising
  <2>2. q = p
    BY <2>1, Ownership
  <2> QED
    BY <1>3, <1>5, <2>1, <2>2
<1>7. ASSUME NEW q \in Procs PROVE Single(q)'
  <2>1. Single(q)
    BY DEF SummaryInv
  <2> QED
    BY <1>1, <1>4, <1>5, <1>6, <2>1 DEF Single
<1> QED
  BY <1>1, <1>5, <1>7 DEF SummaryInv

(* The summary is written, or lost, and counts as written. *)
LEMMA PutKeepsSummary ==
  ASSUME FileInv, CountInv, SummaryInv, NEW t \in Threads, Put(t) PROVE SummaryInv'
<1> DEFINE p == ProcOf(t)
           kind == Head(todo[t])
           size == Len(todo[t])
<1>1. p \in Procs /\ ProcOf(using[t]) = p
  BY Ownership DEF Put, FileInv, UsingOwn
<1>2. /\ todo \in [Threads -> Seq(Kinds)] /\ size \in Nat \ {0}
      /\ kind = todo[t][1] /\ kind \in Kinds
  BY DEF Put, CountInv, QueueShape
<1>3. /\ Tail(todo[t]) \in Seq(Kinds) /\ Len(Tail(todo[t])) = size - 1
      /\ \A i \in 1..size - 1 : Tail(todo[t])[i] = todo[t][i + 1]
  BY <1>2, HeadTailProperties
<1>4. /\ UNCHANGED <<plan, closed, overlapped>>
      /\ todo' = [todo EXCEPT ![t] = Tail(@)]
      /\ summarised' = [summarised EXCEPT ![p] = @ \/ kind = "summary"]
  BY DEF Put
<1>5. lines' = lines \/ lines' = [lines EXCEPT ![p][p][kind] = @ + 1]
  BY <1>1 DEF Put
<1>6. kind = "header" <=> size # 1
  <2>1. 1 \in 1..Len(todo[t])
    BY <1>2
  <2>2. todo[t][1] = "header" <=> 1 < Len(todo[t])
    BY <2>1 DEF CountInv, QueueShape
  <2>3. kind = "header" <=> 1 < size
    BY <1>2, <2>2
  <2>4. size \in Nat \ {0}
    BY <1>2
  <2> HIDE DEF kind, size
  <2> QED
    BY <2>3, <2>4
<1>7. /\ Len(todo'[t]) = size - 1
      /\ \A i \in 1..size - 1 : todo'[t][i] = todo[t][i + 1]
      /\ \A u \in Threads \ {t} : todo'[u] = todo[u]
  BY <1>2, <1>3, <1>4
<1>8. kind = "summary" => t = MainOf(p) /\ size = 1 /\ Summarising(p)
  <2> SUFFICES ASSUME kind = "summary" PROVE t = MainOf(p) /\ size = 1 /\ Summarising(p)
    OBVIOUS
  <2>1. size = 1
    BY <1>6
  <2>2. 1 \in 1..Len(todo[t])
    BY <1>2
  <2>3. t # "worker"
    BY <1>2, <2>2 DEF CountInv, QueueShape
  <2>4. t = MainOf(p)
    BY <2>3 DEF Threads, MainOf, ProcOf
  <2> QED
    BY <1>2, <2>1, <2>4 DEF Summarising
<1> HIDE DEF kind
<1>9. \A q \in Procs : /\ Count(q, "summary") \in Nat
                       /\ \/ Count(q, "summary")' = Count(q, "summary")
                          \/ /\ q = p /\ kind = "summary"
                             /\ Count(q, "summary")' = Count(q, "summary") + 1
  <2>1. Counters /\ \A q \in Procs : Count(q, "summary") \in Nat
    BY CountsAreNumbers DEF CountInv, Kinds
  <2>2. CASE lines' = lines
    BY <2>1, <2>2 DEF Count
  <2>3. CASE lines' = [lines EXCEPT ![p][p][kind] = @ + 1]
    <3>1. \A q \in Procs, k \in Kinds :
            Count(q, k)' = Count(q, k) + (IF q = p /\ k = kind THEN 1 ELSE 0)
      BY <1>1, <1>2, <2>1, <2>3, LineCounted
    <3> QED
      BY <2>1, <3>1 DEF Kinds
  <2> QED
    BY <1>5, <2>2, <2>3
<1>10. /\ summarised' \in [Procs -> BOOLEAN]
       /\ \A q \in Procs : summarised'[q] = (summarised[q] \/ (q = p /\ kind = "summary"))
  BY <1>1, <1>4 DEF SummaryInv
<1>11. ASSUME NEW q \in Procs, Summarising(q)' PROVE Summarising(q) /\ ~ (q = p /\ kind = "summary")
  <2>1. CASE MainOf(q) # t
    BY <1>7, <1>8, <1>11, <2>1, Ownership DEF Summarising
  <2>2. CASE MainOf(q) = t
    <3>1. Len(todo'[t]) # 0 /\ todo'[t][Len(todo'[t])] = "summary"
      BY <1>11, <2>2 DEF Summarising
    <3>2. size - 1 \in 1..size - 1 /\ size # 1
      <4>1. \A k \in Nat \ {0} : k - 1 # 0 => k - 1 \in 1..k - 1 /\ k # 1
        OBVIOUS
      <4> HIDE DEF size
      <4> QED
        BY <1>2, <1>7, <3>1, <4>1
    <3>3. todo'[t][size - 1] = todo[t][size - 1 + 1]
      BY <1>7, <3>2
    <3>4. size - 1 + 1 = size
      BY <1>2
    <3>5. todo[t][size] = "summary"
      BY <1>7, <3>1, <3>3, <3>4
    <3> QED
      BY <1>2, <1>8, <2>2, <3>2, <3>5 DEF Summarising
  <2> QED
    BY <2>1, <2>2
<1>12. ASSUME NEW q \in Procs, Summarising(q), ~ (q = p /\ kind = "summary") PROVE Summarising(q)'
  <2>1. CASE MainOf(q) # t
    BY <1>7, <1>12, <2>1, Ownership DEF Summarising
  <2>2. CASE MainOf(q) = t
    <3>1. q = p /\ todo[t][size] = "summary"
      BY <1>12, <2>2, Ownership DEF Summarising
    <3>2. size # 1
      <4>1. kind # "summary"
        BY <1>12, <3>1
      <4>2. todo[t][1] # "summary"
        BY <1>2, <4>1 DEF kind
      <4> HIDE DEF size
      <4> QED
        BY <3>1, <4>2
    <3>3. size - 1 \in 1..size - 1 /\ size - 1 # 0 /\ size - 1 + 1 = size
      <4>1. \A k \in Nat \ {0} : k # 1 => k - 1 \in 1..k - 1 /\ k - 1 # 0 /\ k - 1 + 1 = k
        OBVIOUS
      <4> HIDE DEF size
      <4> QED
        BY <1>2, <3>2, <4>1
    <3>4. todo'[t][Len(todo'[t])] = "summary" /\ Len(todo'[t]) # 0
      BY <1>7, <3>1, <3>3
    <3> QED
      BY <2>2, <3>4 DEF Summarising
  <2> QED
    BY <2>1, <2>2
<1>13. ASSUME NEW q \in Procs PROVE Single(q)'
  <2>1. Single(q) /\ plan'[q] = plan[q] /\ closed'[q] = closed[q] /\ overlapped'[q] = overlapped[q]
    BY <1>4 DEF SummaryInv
  <2>2. CASE q = p /\ kind = "summary"
    <3>1. Summarising(q) /\ ~ Summarising(q)' /\ summarised'[q]
      BY <1>8, <1>10, <1>11, <2>2
    <3>2. ~ overlapped[q] => Count(q, "summary") = 0 /\ ~ Has(plan[q]) /\ Once(plan[q])
      BY <2>1, <3>1 DEF Single
    <3>3. ~ overlapped[q] => Count(q, "summary")' <= 1
      BY <1>9, <3>2
    <3> QED
      BY <2>1, <3>1, <3>2, <3>3 DEF Single
  <2>3. CASE ~ (q = p /\ kind = "summary")
    <3>1. /\ Count(q, "summary")' = Count(q, "summary") /\ summarised'[q] = summarised[q]
          /\ Summarising(q)' = Summarising(q)
      <4>1. Summarising(q) \in BOOLEAN /\ Summarising(q)' \in BOOLEAN /\ summarised[q] \in BOOLEAN
        BY DEF Summarising, SummaryInv
      <4> QED
        BY <1>9, <1>10, <1>11, <1>12, <2>3, <4>1
    <3> QED
      BY <2>1, <3>1 DEF Single
  <2> QED
    BY <2>2, <2>3
<1> QED
  BY <1>4, <1>10, <1>13 DEF SummaryInv

(* The child has no summary, and nothing before it. *)
LEMMA ForkKeepsSummary == ASSUME FileInv, CountInv, SummaryInv, Fork PROVE SummaryInv'
<1>1. /\ UNCHANGED <<lines, todo, plan, closed, overlapped>>
      /\ summarised' = [summarised EXCEPT !["child"] = FALSE] /\ life["child"] = "none"
  BY DEF Fork
<1>2. \A q \in Procs : Count(q, "summary")' = Count(q, "summary") /\ Summarising(q)' = Summarising(q)
  BY <1>1 DEF Count, Summarising
<1>3. plan["child"] = <<>> /\ closed["child"] = FALSE
  BY <1>1 DEF CountInv, Unborn
<1>4. Count("child", "summary") = 0
  <2>1. "child" \in Procs
    BY DEF Procs
  <2>2. n["child"] - inherited["child"].n = Written("child") + Headers("child")
    BY <2>1 DEF CountInv, EveryLineAccounted
  <2>3. n["child"] = 0 /\ inherited["child"].n = 0
    BY <1>1 DEF CountInv, Unborn
  <2>4. /\ Written("child") \in Nat /\ Headers("child") \in Nat
        /\ \A k \in Kinds : Count("child", k) \in Nat
    BY <2>1, CountsAreNumbers DEF CountInv
  <2>5. Written("child") = 0
    BY <2>2, <2>3, <2>4
  <2>6. \A a, b, c \in Nat : a + b + c = 0 => c = 0
    OBVIOUS
  <2>7. /\ Count("child", "event") \in Nat /\ Count("child", "signal") \in Nat
        /\ Count("child", "summary") \in Nat
    BY <2>4 DEF Kinds
  <2>8. Count("child", "event") + Count("child", "signal") + Count("child", "summary") = 0
    BY <2>5 DEF Written
  <2> QED
    BY <2>6, <2>7, <2>8
<1>5. ~ Summarising("child")
  BY <1>1 DEF FileInv, ForkedLater, CountInv, QueueShape, Summarising, MainOf, Threads
<1>6. Single("child")'
  <2>1. ~ Has(<<>>) /\ Once(<<>>) /\ Ahead(<<>>)
    BY DEF Has, Once, Ahead
  <2>2. "child" \in Procs
    BY DEF Procs
  <2>3. /\ Count("child", "summary")' = 0 /\ ~ Summarising("child")'
        /\ plan'["child"] = <<>> /\ closed'["child"] = FALSE
    BY <1>1, <1>2, <1>3, <1>4, <1>5, <2>2
  <2> QED
    BY <2>1, <2>3 DEF Single
<1>7. Single("parent")'
  <2>1. summarised'["parent"] = summarised["parent"] /\ Single("parent")
    BY <1>1 DEF SummaryInv, Procs
  <2>2. "parent" \in Procs
    BY DEF Procs
  <2> QED
    BY <1>1, <1>2, <2>1, <2>2, OthersSingle
<1> QED
  BY <1>1, <1>6, <1>7 DEF SummaryInv, Procs

(* The invariant is kept by every step, and holds of every behaviour. *)
THEOREM SummaryInvariant == Safety => []SummaryInv
<1>1. ASSUME FileInv, CountInv, SummaryInv, [Next]_vars PROVE SummaryInv'
  <2>1. ASSUME UNCHANGED <<lines, todo, plan, summarised, closed, overlapped>> PROVE SummaryInv'
    BY <1>1, <2>1 DEF SummaryInv, Single, Summarising, Count
  <2>2. CASE UNCHANGED vars
    BY <2>1, <2>2 DEF vars
  <2>3. ASSUME NEW t \in Threads, Lookup(t) \/ OpenFile(t) \/ Acquire(t) PROVE SummaryInv'
    BY <2>1, <2>3 DEF Lookup, OpenFile, Acquire
  <2>4. ASSUME NEW t \in Threads, Emit(t) \/ Writing(t) PROVE SummaryInv'
    BY <1>1, <2>3, <2>4, EmitKeepsSummary, AnchorFileKeepsSummary, PutKeepsSummary,
       GiveUpKeepsSummary DEF Writing
  <2>5. CASE Fork
    BY <1>1, <2>5, ForkKeepsSummary
  <2>6. ASSUME NEW p \in Procs, Vanish(p) PROVE SummaryInv'
    BY <2>1, <2>6 DEF Vanish
  <2>7. ASSUME NEW p \in Procs, Exit(p) \/ Signal(p) \/ SignalInWrite(p) \/ Handling(p)
        PROVE  SummaryInv'
    BY <1>1, <2>6, <2>7, PlanKeepsSummary, SignalInWriteKeepsSummary, PlanNextKeepsSummary,
       OnExitKeepsSummary, FinishKeepsSummary DEF Handling
  <2> QED
    BY <1>1, <2>2, <2>4, <2>5, <2>7 DEF Next
<1> QED
  BY <1>1, InitEstablishesSummaryInv, FileInvariant, CountInvariant, PTL DEF Safety

(* The exit handler and the signal handlers between them write one summary,
   also where a signal was handled and the program went on; only an _on_exit
   inside another may add one.  A file is closed with its summary behind it. *)
THEOREM SummaryOnce == Safety => []SummaryAtMostOnce
<1>1. CountInv /\ SummaryInv => SummaryAtMostOnce
  <2> SUFFICES ASSUME CountInv, SummaryInv, NEW p \in Procs
               PROVE  /\ ~ overlapped[p] => lines[p][p]["summary"] <= 1
                      /\ closed[p] => summarised[p]
    BY DEF SummaryAtMostOnce
  <2>1. lines["parent"][p]["summary"] \in Nat /\ lines["child"][p]["summary"] \in Nat
    BY DEF CountInv, Counters, Procs, Kinds
  <2>2. ~ overlapped[p] => lines["parent"][p]["summary"] + lines["child"][p]["summary"] <= 1
    BY DEF SummaryInv, Single, Count
  <2>3. closed[p] => summarised[p]
    BY DEF SummaryInv, Single
  <2> QED
    BY <2>1, <2>2, <2>3 DEF Procs
<1> QED
  BY <1>1, CountInvariant, SummaryInvariant, PTL
=============================================================================
