--------------------------- MODULE LauncherProofs ---------------------------
(* What the launcher's safety rests on, for any set of ids and any number of *)
(* creations: the inductive invariant IInv, and from it the invariants that  *)
(* the runs check and the order of the events of an instance.                *)
EXTENDS Launcher, TLAPS

(* How the loop's position relates to the map: what is still to be stopped is
   in the map, the target is too and has exited once the join is over, and a
   launcher that is going down has the whole map to stop, or nothing. *)
LoopShape ==
  /\ todo \subseteq instances
  /\ step = "idle" => todo = {}
  /\ step \in {"joining", "reaping", "finishing"} => target \in instances \ todo
  /\ step = "finishing" => child[target] = "exited"
  /\ mode \in {"draining", "down"} => step = "idle"
  /\ mode = "down" => instances = {}
  /\ mode = "stopping" =>
       /\ step # "idle"
       /\ instances = IF step = "selecting" THEN todo ELSE todo \cup {target}
  /\ \A i \in instances : child[i] # "none"

(* The newest event carries the manager's revision. *)
NewestIsStamped == event.rev = managerRevision

IInv ==
  /\ TypeOK
  /\ LoopShape
  /\ NewestIsStamped
  /\ EventsMatchInstances
  /\ NothingOutlivesItsRecord
  /\ WatchedUntilReported
  /\ LogFollowsInstance

----------------------------------------------------------------------------
(* The invariant holds before the first request. *)
LEMMA InitEstablishesIInv == Init => IInv
<1> SUFFICES ASSUME Init PROVE IInv
  OBVIOUS
<1>1. TypeOK
  <2>1. /\ sentinel \in [Ids -> BOOLEAN] /\ log \in [Ids -> BOOLEAN] /\ streaming \in BOOLEAN
    BY DEF Init
  <2>2. event \in Event \cup {NoEvent}
    BY DEF Init
  <2>3. creates \in 0 .. MaxCreates /\ managerRevision \in Nat
    BY MaxCreatesAssumption DEF Init
  <2>4. /\ child \in [Ids -> {"none", "forked", "loading", "serving", "exiting", "exited"}]
        /\ fate \in [Ids -> {"none", "term", "kill"}]
        /\ last \in [Ids -> {"none", "CREATED", "STOPPED", "DELETED"}]
    BY DEF Init
  <2> QED  BY <2>1, <2>2, <2>3, <2>4 DEF Init, TypeOK
<1>2. LoopShape /\ EventsMatchInstances /\ NewestIsStamped
  BY DEF Init, LoopShape, EventsMatchInstances, NewestIsStamped, NoEvent
<1>3. NothingOutlivesItsRecord /\ WatchedUntilReported /\ LogFollowsInstance
  BY DEF Init, NothingOutlivesItsRecord, WatchedUntilReported, LogFollowsInstance, Dead, Stopping
<1> QED  BY <1>1, <1>2, <1>3 DEF IInv

(* A published event is an event, stamped with the revision it was given. *)
LEMMA PublishTypes ==
  ASSUME managerRevision \in Nat,
         last \in [Ids -> {"none", "CREATED", "STOPPED", "DELETED"}],
         NEW type \in {"CREATED", "STOPPED", "DELETED"}, NEW i \in Ids,
         NEW status \in {"running", "stopped"}, NEW code \in BOOLEAN,
         Publish(type, i, status, code)
  PROVE  /\ managerRevision' \in Nat
         /\ event' \in Event \cup {NoEvent}
         /\ last' \in [Ids -> {"none", "CREATED", "STOPPED", "DELETED"}]
  BY DEF Publish, Event

(* Each action preserves the invariant, one lemma per action and one step per
   conjunct. *)
LEMMA CreateKeepsIInv ==
  ASSUME IInv, NEW i \in Ids, Create(i)
  PROVE  IInv'
<1>1. TypeOK'
  <2>1. child' \in [Ids -> {"none", "forked", "loading", "serving", "exiting", "exited"}]
    BY DEF Create, IInv, TypeOK
  <2>2. /\ sentinel' \in [Ids -> BOOLEAN] /\ log' \in [Ids -> BOOLEAN]
        /\ fate' \in [Ids -> {"none", "term", "kill"}]
    BY DEF Create, IInv, TypeOK
  <2>3. \/ Publish("CREATED", i, "running", FALSE)
        \/ Publish("CREATED", i, "stopped", FALSE)
    BY DEF Create
  <2>4. /\ managerRevision' \in Nat
        /\ event' \in Event \cup {NoEvent}
        /\ last' \in [Ids -> {"none", "CREATED", "STOPPED", "DELETED"}]
    BY <2>3, PublishTypes DEF IInv, TypeOK
  <2>5. creates' \in 0 .. MaxCreates
    BY MaxCreatesAssumption DEF Create, IInv, TypeOK
  <2>6. instances' \in SUBSET Ids /\ leaked' \in SUBSET Ids
    BY DEF Create, IInv, TypeOK
  <2>7. UNCHANGED <<mode, streaming, step, target, todo>>
    BY DEF Create, loopVars
  <2> QED  BY <2>1, <2>2, <2>4, <2>5, <2>6, <2>7 DEF IInv, TypeOK
<1>2. LoopShape'
  BY <1>1 DEF Create, Publish, Accepting, managerVars, loopVars, IInv, TypeOK, LoopShape, EventsMatchInstances, NothingOutlivesItsRecord, Dead, Alive
<1>3. EventsMatchInstances'
  BY DEF Create, Publish, managerVars, loopVars, IInv, TypeOK, EventsMatchInstances
<1>4. NothingOutlivesItsRecord'
  BY <1>1 DEF Create, Publish, Accepting, managerVars, loopVars, IInv, TypeOK, NothingOutlivesItsRecord, LoopShape, Dead, Alive
<1>5. WatchedUntilReported'
  BY DEF Create, Publish, managerVars, loopVars, IInv, TypeOK, WatchedUntilReported, Stopping, LoopShape
<1>6. LogFollowsInstance'
  BY DEF Create, Publish, managerVars, loopVars, IInv, TypeOK, LogFollowsInstance
<1>7. NewestIsStamped'
  BY DEF Create, Publish, IInv, NewestIsStamped
<1> QED  BY <1>1, <1>2, <1>3, <1>4, <1>5, <1>6, <1>7 DEF IInv

(* CreateFails keeps the invariant. *)
LEMMA CreateFailsKeepsIInv ==
  ASSUME IInv, NEW i \in Ids, CreateFails(i)
  PROVE  IInv'
<1>1. TypeOK'
  BY DEF CreateFails, managerVars, loopVars, IInv, TypeOK
<1>2. LoopShape'
  BY DEF CreateFails, managerVars, loopVars, IInv, LoopShape
<1>3. EventsMatchInstances'
  BY DEF CreateFails, managerVars, loopVars, IInv, EventsMatchInstances
<1>4. NothingOutlivesItsRecord'
  BY DEF CreateFails, managerVars, loopVars, IInv, NothingOutlivesItsRecord, Dead
<1>5. WatchedUntilReported'
  BY DEF CreateFails, managerVars, loopVars, IInv, WatchedUntilReported, Stopping
<1>6. LogFollowsInstance'
  BY DEF CreateFails, managerVars, loopVars, IInv, TypeOK, LogFollowsInstance
<1>7. NewestIsStamped'
  BY DEF CreateFails, IInv, managerVars, NewestIsStamped
<1> QED  BY <1>1, <1>2, <1>3, <1>4, <1>5, <1>6, <1>7 DEF IInv

(* SentinelFires keeps the invariant. *)
LEMMA SentinelFiresKeepsIInv ==
  ASSUME IInv, NEW i \in Ids, SentinelFires(i)
  PROVE  IInv'
<1>1. TypeOK'
  <2>1. child' \in [Ids -> {"none", "forked", "loading", "serving", "exiting", "exited"}]
    BY DEF SentinelFires, IInv, TypeOK
  <2>2. sentinel' \in [Ids -> BOOLEAN]
    BY DEF SentinelFires, IInv, TypeOK
  <2>3. Status(i) \in {"running", "stopped"} /\ (~ Alive(i)) \in BOOLEAN
    BY DEF Status, Alive
  <2>4. \/ Publish("STOPPED", i, Status(i), ~ Alive(i))
        \/ Publish("STOPPED", i, "stopped", FALSE)
    BY DEF SentinelFires
  <2>5. /\ managerRevision' \in Nat
        /\ event' \in Event \cup {NoEvent}
        /\ last' \in [Ids -> {"none", "CREATED", "STOPPED", "DELETED"}]
    BY <2>3, <2>4, PublishTypes DEF IInv, TypeOK
  <2> QED  BY <2>1, <2>2, <2>5 DEF SentinelFires, loopVars, IInv, TypeOK
<1>2. LoopShape'
  BY DEF SentinelFires, Publish, loopVars, IInv, TypeOK, LoopShape
<1>3. EventsMatchInstances'
  BY <1>1 DEF SentinelFires, Publish, LoopIdle, loopVars, Status, IInv, TypeOK, EventsMatchInstances, LoopShape, WatchedUntilReported
<1>4. NothingOutlivesItsRecord'
  BY DEF SentinelFires, Publish, loopVars, IInv, TypeOK, NothingOutlivesItsRecord, Dead
<1>5. WatchedUntilReported'
  BY DEF SentinelFires, Publish, loopVars, IInv, TypeOK, WatchedUntilReported, Stopping
<1>6. LogFollowsInstance'
  BY DEF SentinelFires, IInv, LogFollowsInstance
<1>7. NewestIsStamped'
  BY DEF SentinelFires, Publish, IInv, NewestIsStamped
<1> QED  BY <1>1, <1>2, <1>3, <1>4, <1>5, <1>6, <1>7 DEF IInv

(* DeleteOne keeps the invariant. *)
LEMMA DeleteOneKeepsIInv ==
  ASSUME IInv, NEW i \in Ids, DeleteOne(i)
  PROVE  IInv'
<1>1. TypeOK'
  BY DEF DeleteOne, managerVars, osVars, IInv, TypeOK
<1>2. LoopShape'
  BY <1>1 DEF DeleteOne, Accepting, managerVars, osVars, IInv, TypeOK, LoopShape, EventsMatchInstances, NothingOutlivesItsRecord, Dead, Alive
<1>3. EventsMatchInstances'
  BY DEF DeleteOne, managerVars, osVars, IInv, EventsMatchInstances
<1>4. NothingOutlivesItsRecord'
  BY DEF DeleteOne, managerVars, osVars, IInv, NothingOutlivesItsRecord, Dead
<1>5. WatchedUntilReported'
  BY <1>1 DEF DeleteOne, Accepting, managerVars, osVars, IInv, TypeOK, WatchedUntilReported, EventsMatchInstances, LoopShape, Stopping
<1>6. LogFollowsInstance'
  BY DEF DeleteOne, managerVars, osVars, IInv, LogFollowsInstance
<1>7. NewestIsStamped'
  BY DEF DeleteOne, IInv, managerVars, NewestIsStamped
<1> QED  BY <1>1, <1>2, <1>3, <1>4, <1>5, <1>6, <1>7 DEF IInv

(* StopBegins keeps the invariant. *)
LEMMA StopBeginsKeepsIInv ==
  ASSUME IInv, NEW i \in Ids, StopBegins(i)
  PROVE  IInv'
<1>1. TypeOK'
  BY DEF StopBegins, managerVars, IInv, TypeOK
<1>2. LoopShape'
  BY DEF StopBegins, managerVars, IInv, TypeOK, LoopShape, Alive
<1>3. EventsMatchInstances'
  BY DEF StopBegins, managerVars, IInv, EventsMatchInstances
<1>4. NothingOutlivesItsRecord'
  BY DEF StopBegins, managerVars, IInv, NothingOutlivesItsRecord, Dead
<1>5. WatchedUntilReported'
  BY DEF StopBegins, managerVars, IInv, TypeOK, WatchedUntilReported, Stopping
<1>6. LogFollowsInstance'
  BY DEF StopBegins, managerVars, IInv, LogFollowsInstance
<1>7. NewestIsStamped'
  BY DEF StopBegins, IInv, managerVars, NewestIsStamped
<1> QED  BY <1>1, <1>2, <1>3, <1>4, <1>5, <1>6, <1>7 DEF IInv

(* ChildAdvances keeps the invariant. *)
LEMMA ChildAdvancesKeepsIInv ==
  ASSUME IInv, NEW i \in Ids, ChildAdvances(i)
  PROVE  IInv'
<1>1. TypeOK'
  BY DEF ChildAdvances, serverVars, managerVars, loopVars, IInv, TypeOK
<1>2. LoopShape'
  BY DEF ChildAdvances, serverVars, managerVars, loopVars, IInv, TypeOK, LoopShape
<1>3. EventsMatchInstances'
  BY DEF ChildAdvances, serverVars, managerVars, loopVars, IInv, EventsMatchInstances
<1>4. NothingOutlivesItsRecord'
  BY DEF ChildAdvances, serverVars, managerVars, loopVars, IInv, TypeOK, NothingOutlivesItsRecord, Dead
<1>5. WatchedUntilReported'
  BY DEF ChildAdvances, serverVars, managerVars, loopVars, IInv, WatchedUntilReported, Stopping
<1>6. LogFollowsInstance'
  BY DEF ChildAdvances, serverVars, managerVars, loopVars, IInv, LogFollowsInstance
<1>7. NewestIsStamped'
  BY DEF ChildAdvances, IInv, managerVars, NewestIsStamped
<1> QED  BY <1>1, <1>2, <1>3, <1>4, <1>5, <1>6, <1>7 DEF IInv

(* ChildEnds keeps the invariant. *)
LEMMA ChildEndsKeepsIInv ==
  ASSUME IInv, NEW i \in Ids, ChildEnds(i)
  PROVE  IInv'
<1>1. TypeOK'
  BY DEF ChildEnds, serverVars, managerVars, loopVars, IInv, TypeOK
<1>2. LoopShape'
  BY DEF ChildEnds, serverVars, managerVars, loopVars, IInv, LoopShape
<1>3. EventsMatchInstances'
  BY DEF ChildEnds, serverVars, managerVars, loopVars, IInv, EventsMatchInstances
<1>4. NothingOutlivesItsRecord'
  BY DEF ChildEnds, serverVars, managerVars, loopVars, IInv, NothingOutlivesItsRecord, Dead
<1>5. WatchedUntilReported'
  BY DEF ChildEnds, serverVars, managerVars, loopVars, IInv, WatchedUntilReported, Stopping
<1>6. LogFollowsInstance'
  BY DEF ChildEnds, serverVars, managerVars, loopVars, IInv, LogFollowsInstance
<1>7. NewestIsStamped'
  BY DEF ChildEnds, IInv, managerVars, NewestIsStamped
<1> QED  BY <1>1, <1>2, <1>3, <1>4, <1>5, <1>6, <1>7 DEF IInv

(* ChildExits keeps the invariant. *)
LEMMA ChildExitsKeepsIInv ==
  ASSUME IInv, NEW i \in Ids, ChildExits(i)
  PROVE  IInv'
<1>1. TypeOK'
  BY DEF ChildExits, serverVars, managerVars, loopVars, IInv, TypeOK
<1>2. LoopShape'
  BY DEF ChildExits, serverVars, managerVars, loopVars, IInv, LoopShape
<1>3. EventsMatchInstances'
  BY DEF ChildExits, serverVars, managerVars, loopVars, IInv, EventsMatchInstances
<1>4. NothingOutlivesItsRecord'
  BY DEF ChildExits, serverVars, managerVars, loopVars, IInv, NothingOutlivesItsRecord, Dead
<1>5. WatchedUntilReported'
  BY DEF ChildExits, serverVars, managerVars, loopVars, IInv, WatchedUntilReported, Stopping
<1>6. LogFollowsInstance'
  BY DEF ChildExits, serverVars, managerVars, loopVars, IInv, LogFollowsInstance
<1>7. NewestIsStamped'
  BY DEF ChildExits, IInv, managerVars, NewestIsStamped
<1> QED  BY <1>1, <1>2, <1>3, <1>4, <1>5, <1>6, <1>7 DEF IInv

(* DeleteAll keeps the invariant. *)
LEMMA DeleteAllKeepsIInv ==
  ASSUME IInv, DeleteAll
  PROVE  IInv'
<1>1. TypeOK'
  BY DEF DeleteAll, managerVars, osVars, IInv, TypeOK
<1>2. LoopShape'
  BY <1>1 DEF DeleteAll, Accepting, managerVars, osVars, IInv, TypeOK, LoopShape, EventsMatchInstances, NothingOutlivesItsRecord, Dead, Alive
<1>3. EventsMatchInstances'
  BY DEF DeleteAll, managerVars, osVars, IInv, EventsMatchInstances
<1>4. NothingOutlivesItsRecord'
  BY DEF DeleteAll, managerVars, osVars, IInv, NothingOutlivesItsRecord, Dead
<1>5. WatchedUntilReported'
  BY <1>1 DEF DeleteAll, Accepting, managerVars, osVars, IInv, TypeOK, WatchedUntilReported, EventsMatchInstances, LoopShape, Stopping
<1>6. LogFollowsInstance'
  BY DEF DeleteAll, managerVars, osVars, IInv, LogFollowsInstance
<1>7. NewestIsStamped'
  BY DEF DeleteAll, IInv, managerVars, NewestIsStamped
<1> QED  BY <1>1, <1>2, <1>3, <1>4, <1>5, <1>6, <1>7 DEF IInv

(* JoinReturns keeps the invariant. *)
LEMMA JoinReturnsKeepsIInv ==
  ASSUME IInv, JoinReturns
  PROVE  IInv'
<1>1. TypeOK'
  BY DEF JoinReturns, managerVars, osVars, IInv, TypeOK
<1>2. LoopShape'
  BY DEF JoinReturns, managerVars, osVars, IInv, TypeOK, LoopShape, Alive
<1>3. EventsMatchInstances'
  BY DEF JoinReturns, managerVars, osVars, IInv, EventsMatchInstances
<1>4. NothingOutlivesItsRecord'
  BY DEF JoinReturns, managerVars, osVars, IInv, NothingOutlivesItsRecord, Dead
<1>5. WatchedUntilReported'
  BY DEF JoinReturns, managerVars, osVars, IInv, WatchedUntilReported, Stopping
<1>6. LogFollowsInstance'
  BY DEF JoinReturns, managerVars, osVars, IInv, LogFollowsInstance
<1>7. NewestIsStamped'
  BY DEF JoinReturns, IInv, managerVars, NewestIsStamped
<1> QED  BY <1>1, <1>2, <1>3, <1>4, <1>5, <1>6, <1>7 DEF IInv

(* JoinTimesOut keeps the invariant. *)
LEMMA JoinTimesOutKeepsIInv ==
  ASSUME IInv, JoinTimesOut
  PROVE  IInv'
<1>1. TypeOK'
  BY DEF JoinTimesOut, managerVars, IInv, TypeOK
<1>2. LoopShape'
  BY DEF JoinTimesOut, managerVars, IInv, LoopShape
<1>3. EventsMatchInstances'
  BY DEF JoinTimesOut, managerVars, IInv, EventsMatchInstances
<1>4. NothingOutlivesItsRecord'
  BY DEF JoinTimesOut, managerVars, IInv, NothingOutlivesItsRecord, Dead
<1>5. WatchedUntilReported'
  BY DEF JoinTimesOut, managerVars, IInv, WatchedUntilReported, Stopping
<1>6. LogFollowsInstance'
  BY DEF JoinTimesOut, managerVars, IInv, LogFollowsInstance
<1>7. NewestIsStamped'
  BY DEF JoinTimesOut, IInv, managerVars, NewestIsStamped
<1> QED  BY <1>1, <1>2, <1>3, <1>4, <1>5, <1>6, <1>7 DEF IInv

(* StopFinishes keeps the invariant. *)
LEMMA StopFinishesKeepsIInv ==
  ASSUME IInv, StopFinishes
  PROVE  IInv'
<1>1. TypeOK'
  BY MaxCreatesAssumption DEF StopFinishes, Publish, Status, IInv, TypeOK, Event, Alive, NoEvent
<1>2. LoopShape'
  BY DEF StopFinishes, IInv, LoopShape
<1>3. EventsMatchInstances'
  BY DEF StopFinishes, Publish, IInv, TypeOK, EventsMatchInstances
<1>4. NothingOutlivesItsRecord'
  BY DEF StopFinishes, Publish, IInv, TypeOK, NothingOutlivesItsRecord, Dead, LoopShape
<1>5. WatchedUntilReported'
  BY DEF StopFinishes, Publish, IInv, TypeOK, WatchedUntilReported, Stopping
<1>6. LogFollowsInstance'
  BY DEF StopFinishes, Publish, IInv, TypeOK, LogFollowsInstance
<1>7. NewestIsStamped'
  BY DEF StopFinishes, Publish, IInv, NewestIsStamped
<1> QED  BY <1>1, <1>2, <1>3, <1>4, <1>5, <1>6, <1>7 DEF IInv

(* OpenStream keeps the invariant. *)
LEMMA OpenStreamKeepsIInv ==
  ASSUME IInv, OpenStream
  PROVE  IInv'
<1>1. TypeOK'
  BY DEF OpenStream, managerVars, osVars, loopVars, IInv, TypeOK
<1>2. LoopShape'
  BY DEF OpenStream, managerVars, osVars, loopVars, IInv, LoopShape
<1>3. EventsMatchInstances'
  BY DEF OpenStream, managerVars, osVars, loopVars, IInv, EventsMatchInstances
<1>4. NothingOutlivesItsRecord'
  BY DEF OpenStream, managerVars, osVars, loopVars, IInv, NothingOutlivesItsRecord, Dead
<1>5. WatchedUntilReported'
  BY DEF OpenStream, managerVars, osVars, loopVars, IInv, WatchedUntilReported, Stopping
<1>6. LogFollowsInstance'
  BY DEF OpenStream, managerVars, osVars, loopVars, IInv, LogFollowsInstance
<1>7. NewestIsStamped'
  BY DEF OpenStream, IInv, managerVars, NewestIsStamped
<1> QED  BY <1>1, <1>2, <1>3, <1>4, <1>5, <1>6, <1>7 DEF IInv

(* CloseStream keeps the invariant. *)
LEMMA CloseStreamKeepsIInv ==
  ASSUME IInv, CloseStream
  PROVE  IInv'
<1>1. TypeOK'
  BY DEF CloseStream, managerVars, osVars, loopVars, IInv, TypeOK
<1>2. LoopShape'
  BY DEF CloseStream, managerVars, osVars, loopVars, IInv, LoopShape
<1>3. EventsMatchInstances'
  BY DEF CloseStream, managerVars, osVars, loopVars, IInv, EventsMatchInstances
<1>4. NothingOutlivesItsRecord'
  BY DEF CloseStream, managerVars, osVars, loopVars, IInv, NothingOutlivesItsRecord, Dead
<1>5. WatchedUntilReported'
  BY DEF CloseStream, managerVars, osVars, loopVars, IInv, WatchedUntilReported, Stopping
<1>6. LogFollowsInstance'
  BY DEF CloseStream, managerVars, osVars, loopVars, IInv, LogFollowsInstance
<1>7. NewestIsStamped'
  BY DEF CloseStream, IInv, managerVars, NewestIsStamped
<1> QED  BY <1>1, <1>2, <1>3, <1>4, <1>5, <1>6, <1>7 DEF IInv

(* Drain keeps the invariant. *)
LEMMA DrainKeepsIInv ==
  ASSUME IInv, Drain
  PROVE  IInv'
<1>1. TypeOK'
  BY DEF Drain, managerVars, osVars, loopVars, IInv, TypeOK
<1>2. LoopShape'
  BY <1>1 DEF Drain, Accepting, managerVars, osVars, loopVars, IInv, TypeOK, LoopShape, EventsMatchInstances, NothingOutlivesItsRecord, Dead, Alive
<1>3. EventsMatchInstances'
  BY DEF Drain, managerVars, osVars, loopVars, IInv, EventsMatchInstances
<1>4. NothingOutlivesItsRecord'
  BY DEF Drain, managerVars, osVars, loopVars, IInv, NothingOutlivesItsRecord, Dead
<1>5. WatchedUntilReported'
  BY DEF Drain, managerVars, osVars, loopVars, IInv, WatchedUntilReported, Stopping
<1>6. LogFollowsInstance'
  BY DEF Drain, managerVars, osVars, loopVars, IInv, LogFollowsInstance
<1>7. NewestIsStamped'
  BY DEF Drain, IInv, managerVars, NewestIsStamped
<1> QED  BY <1>1, <1>2, <1>3, <1>4, <1>5, <1>6, <1>7 DEF IInv

(* Shutdown keeps the invariant. *)
LEMMA ShutdownKeepsIInv ==
  ASSUME IInv, Shutdown
  PROVE  IInv'
<1>1. TypeOK'
  BY DEF Shutdown, managerVars, osVars, IInv, TypeOK
<1>2. LoopShape'
  BY DEF Shutdown, managerVars, osVars, IInv, LoopShape
<1>3. EventsMatchInstances'
  BY DEF Shutdown, managerVars, osVars, IInv, EventsMatchInstances
<1>4. NothingOutlivesItsRecord'
  BY DEF Shutdown, managerVars, osVars, IInv, NothingOutlivesItsRecord, Dead
<1>5. WatchedUntilReported'
  BY DEF Shutdown, managerVars, osVars, IInv, WatchedUntilReported, Stopping
<1>6. LogFollowsInstance'
  BY DEF Shutdown, managerVars, osVars, IInv, LogFollowsInstance
<1>7. NewestIsStamped'
  BY DEF Shutdown, IInv, managerVars, NewestIsStamped
<1> QED  BY <1>1, <1>2, <1>3, <1>4, <1>5, <1>6, <1>7 DEF IInv

(* LauncherKilled keeps the invariant. *)
LEMMA LauncherKilledKeepsIInv ==
  ASSUME IInv, LauncherKilled
  PROVE  IInv'
<1>1. TypeOK'
  BY DEF LauncherKilled, managerVars, osVars, loopVars, IInv, TypeOK
<1>2. LoopShape'
  BY DEF LauncherKilled, managerVars, osVars, loopVars, IInv, LoopShape
<1>3. EventsMatchInstances'
  BY DEF LauncherKilled, managerVars, osVars, loopVars, IInv, EventsMatchInstances
<1>4. NothingOutlivesItsRecord'
  BY DEF LauncherKilled, managerVars, osVars, loopVars, IInv, NothingOutlivesItsRecord, Dead
<1>5. WatchedUntilReported'
  BY DEF LauncherKilled, managerVars, osVars, loopVars, IInv, WatchedUntilReported, Stopping
<1>6. LogFollowsInstance'
  BY DEF LauncherKilled, managerVars, osVars, loopVars, IInv, LogFollowsInstance
<1>7. NewestIsStamped'
  BY DEF LauncherKilled, IInv, managerVars, NewestIsStamped
<1> QED  BY <1>1, <1>2, <1>3, <1>4, <1>5, <1>6, <1>7 DEF IInv

(* Every step of the launcher, the children and the server preserves IInv. *)
LEMMA NextKeepsIInv == IInv /\ [Next]_vars => IInv'
<1> SUFFICES ASSUME IInv, [Next]_vars PROVE IInv'
  OBVIOUS
<1>1. ASSUME NEW i \in Ids, Handler(i) PROVE IInv'
  BY <1>1, CreateKeepsIInv, CreateFailsKeepsIInv, SentinelFiresKeepsIInv, DeleteOneKeepsIInv,
     StopBeginsKeepsIInv DEF Handler
<1>2. ASSUME NEW i \in Ids, Process(i) PROVE IInv'
  BY <1>2, ChildAdvancesKeepsIInv, ChildEndsKeepsIInv, ChildExitsKeepsIInv DEF Process
<1>3. CASE DeleteAll \/ JoinReturns \/ JoinTimesOut \/ StopFinishes
  BY <1>3, DeleteAllKeepsIInv, JoinReturnsKeepsIInv, JoinTimesOutKeepsIInv, StopFinishesKeepsIInv
<1>4. CASE OpenStream \/ CloseStream \/ Drain \/ Shutdown \/ LauncherKilled
  BY <1>4, OpenStreamKeepsIInv, CloseStreamKeepsIInv, DrainKeepsIInv, ShutdownKeepsIInv,
     LauncherKilledKeepsIInv
<1>5. CASE UNCHANGED vars
  BY <1>5 DEF vars, IInv, TypeOK, LoopShape, EventsMatchInstances, NothingOutlivesItsRecord,
     WatchedUntilReported, LogFollowsInstance, Dead, Stopping, NewestIsStamped
<1> QED  BY <1>1, <1>2, <1>3, <1>4, <1>5 DEF Next

(* The inductive invariant of VllmMultiProcessManager. *)
THEOREM InductiveInvariant == Safety => []IInv
<1>1. Init => IInv
  BY InitEstablishesIInv
<1>2. IInv /\ [Next]_vars => IInv'
  BY NextKeepsIInv
<1> QED  BY <1>1, <1>2, PTL DEF Safety

(* The variables keep their types in every behaviour. *)
THEOREM TypeCorrect == Safety => []TypeOK
<1>1. IInv => TypeOK
  BY DEF IInv
<1> QED  BY <1>1, InductiveInvariant, PTL

(* The events of create, stop and sentinel callbacks agree with the map. *)
THEOREM EventsCorrect == Safety => []EventsMatchInstances
<1>1. IInv => EventsMatchInstances
  BY DEF IInv
<1> QED  BY <1>1, InductiveInvariant, PTL

(* stop_instance never forgets a process that still runs, and a launcher that
   has shut down leaves none. *)
THEOREM NoProcessForgotten == Safety => []NothingOutlivesItsRecord
<1>1. IInv => NothingOutlivesItsRecord
  BY DEF IInv
<1> QED  BY <1>1, InductiveInvariant, PTL

(* The sentinel is watched exactly from the creation to the report of the end
   or the stop. *)
THEOREM WatchingCorrect == Safety => []WatchedUntilReported
<1>1. IInv => WatchedUntilReported
  BY DEF IInv
<1> QED  BY <1>1, InductiveInvariant, PTL

(* Log files are cleaned up with their instances. *)
THEOREM LogsCorrect == Safety => []LogFollowsInstance
<1>1. IInv => LogFollowsInstance
  BY DEF IInv
<1> QED  BY <1>1, InductiveInvariant, PTL

----------------------------------------------------------------------------
(* What Publish does, seen through the refinement mapping. *)
LEMMA PublishAnnounces ==
  ASSUME IInv, NEW type, NEW i \in Ids, NEW status, NEW code, Publish(type, i, status, code)
  PROVE  Life!Announce(type, i)
<1>1. Newest.rev = managerRevision
  BY DEF Newest, IInv, NewestIsStamped, NoEvent
<1>2. event'.rev = managerRevision + 1 /\ managerRevision + 1 # 0
  BY DEF Publish, IInv, TypeOK
<1>3. event' # NoEvent
  BY <1>2 DEF NoEvent
<1>4. Newest' = [rev |-> managerRevision + 1, type |-> type, id |-> i]
  BY <1>3 DEF Newest, Publish
<1> QED  BY <1>1, <1>4 DEF Life!Announce, Publish

(* The initial state maps to the initial state of InstanceLife. *)
LEMMA InitImplementsLife == Init => Life!Init
  BY DEF Init, Life!Init, Newest, NoEvent, Life!NoEvent

(* One step of the launcher announces one event, which may follow the last one
   of its id, or changes nothing that InstanceLife sees. *)
LEMMA NextImplementsLife == IInv /\ [Next]_vars => [Life!Next]_(Life!lifeVars)
<1> SUFFICES ASSUME IInv, [Next]_vars PROVE Life!Next \/ UNCHANGED <<last, event>>
  BY DEF Life!lifeVars, Newest
<1>1. ASSUME NEW i \in Ids, Create(i) PROVE Life!Create(i)
  <2>1. Life!Announce("CREATED", i)
    BY <1>1, PublishAnnounces DEF Create
  <2>2. last[i] \in {"none", "DELETED"}
    BY <1>1 DEF Create, IInv, TypeOK, EventsMatchInstances
  <2> QED  BY <2>1, <2>2 DEF Life!Create
<1>2. ASSUME NEW i \in Ids, SentinelFires(i) PROVE Life!End(i)
  <2>1. Life!Announce("STOPPED", i)
    BY <1>2, PublishAnnounces DEF SentinelFires
  <2>2. last[i] = "CREATED"
    BY <1>2 DEF SentinelFires, IInv, WatchedUntilReported
  <2> QED  BY <2>1, <2>2 DEF Life!End
<1>3. ASSUME StopFinishes PROVE Life!Delete(target)
  <2>1. Life!Announce("DELETED", target)
    BY <1>3, PublishAnnounces DEF StopFinishes, IInv, TypeOK
  <2>2. last[target] \in {"CREATED", "STOPPED"}
    BY <1>3 DEF StopFinishes, IInv, TypeOK, LoopShape, EventsMatchInstances
  <2> QED  BY <2>1, <2>2 DEF Life!Delete
<1>4. ASSUME NEW i \in Ids, CreateFails(i) \/ DeleteOne(i) \/ StopBegins(i) \/ Process(i)
      PROVE  UNCHANGED <<last, event>>
  BY <1>4 DEF CreateFails, DeleteOne, StopBegins, Process, ChildAdvances, ChildEnds, ChildExits,
     managerVars
<1>5. ASSUME \/ DeleteAll \/ JoinReturns \/ JoinTimesOut \/ OpenStream \/ CloseStream \/ Drain
             \/ Shutdown \/ LauncherKilled \/ UNCHANGED vars
      PROVE  UNCHANGED <<last, event>>
  BY <1>5 DEF DeleteAll, JoinReturns, JoinTimesOut, OpenStream, CloseStream, Drain, Shutdown,
     LauncherKilled, managerVars, vars
<1>6. target \in Ids
  BY DEF IInv, TypeOK
<1> QED  BY <1>1, <1>2, <1>3, <1>4, <1>5, <1>6 DEF Next, Handler, Life!Next

(* The launcher implements InstanceLife: whatever the processes, the sentinel
   and a blocked stop do, an id's events are CREATED, at most one STOPPED,
   DELETED, in this order, and the revisions have no gap. *)
THEOREM LifeImplemented == Safety => ImplementsInstanceLife
<1>1. Init => Life!Init
  BY InitImplementsLife
<1>2. IInv /\ [Next]_vars => [Life!Next]_(Life!lifeVars)
  BY NextImplementsLife
<1> QED  BY <1>1, <1>2, InductiveInvariant, PTL DEF Safety, ImplementsInstanceLife, Life!Spec
=============================================================================
