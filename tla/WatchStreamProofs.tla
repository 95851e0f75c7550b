-------------------------- MODULE WatchStreamProofs -------------------------
(***************************************************************************)
(* Proofs about the watch endpoint end to end (WatchStream), for any       *)
(* instances, clients, buffer and dict sizes: streams have no gap under    *)
(* the manager's own stamps, the table holds what the events say, and a    *)
(* client that has read everything knows the instances.                    *)
(***************************************************************************)
EXTENDS WatchStream, SequenceTheorems, FiniteSetTheorems, TLAPS

(* To the broadcaster a client that is listing has a stream that has not begun. *)
Stage == [w \in Clients |-> IF Listing(w) THEN "starting" ELSE pc[w]]
P == INSTANCE BroadcasterProofs WITH Watchers <- Clients, Since <- 0 .. MaxRevision, pc <- Stage

(* The last revision a client has read, or of the listing it began with. *)
Position(w) == start[w] + Len(got[w])

(* No event of i was published after revision n. *)
Quiet(i, n) == \A m \in n + 1 .. revision : published[m].id # i

(* As far as the events up to n tell, the client is right. *)
Agrees(w, n) == \A i \in Ids : Quiet(i, n) => (i \in view[w] <=> i \in Existing)

(* Of the instances about which nothing was published since the snapshot began,
   those that exist have been listed or are still ahead. *)
ListsAll(w) ==
  \A i \in Ids : Quiet(i, pos[w]) =>
    /\ i \in view[w] => i \in Existing
    /\ i \in Existing => i \in view[w] \/ \E k \in DOMAIN table : k >= at[w] /\ table[k] = i

StreamTypes ==
  /\ last \in [Ids -> {"none", "CREATED", "STOPPED", "DELETED"}]
  /\ pc \in [Clients -> {"off", "starting", "listing", "waiting", "woken", "sending", "gone"}]
  /\ table \in Seq(Ids \cup {Hole})
  /\ at \in [Clients -> Nat \ {0}]
  /\ view \in [Clients -> SUBSET Ids]
  /\ known \in [Clients -> Nat]

(* The manager's stamps are the revisions; an id's last event is what it is. *)
History ==
  /\ newest.rev = revision /\ revision <= MaxRevision
  /\ \A n \in 1 .. revision : Quiet(published[n].id, n) => last[published[n].id] = published[n].type

ClientRight(w) ==
  /\ known[w] <= revision
  /\ pc[w] \notin {"off", "gone"} => Position(w) \in 0 .. revision
  /\ w \notin shifted /\ known[w] # 0 => Agrees(w, known[w])
  /\ w \notin shifted /\ pc[w] \notin {"off", "gone", "listing"} => Agrees(w, Position(w))
  /\ w \notin shifted /\ Listing(w) => ListsAll(w)

WatchInv ==
  /\ P!IInv /\ StreamTypes /\ History /\ TableMatchesEvents
  /\ \A w \in Clients : ClientRight(w)

----------------------------------------------------------------------------
(* The assumptions the broadcaster's lemmas rest on. *)
LEMMA BroadcasterAssumptions ==
  MaxEvents \in Nat \ {0} /\ MaxRevision \in Nat /\ 0 .. MaxRevision \subseteq Int
BY MaxEventsAssumption, MaxRevisionAssumption

(* What the broadcaster's invariant says of the numbers. *)
LEMMA StreamFacts ==
  ASSUME WatchInv
  PROVE  /\ revision \in Nat /\ revision = Len(published) /\ published \in Seq(Payload)
         /\ newest.rev = revision /\ revision <= MaxRevision /\ MaxRevision \in Nat
         /\ Len(events) \in Nat /\ Len(events) <= revision
         /\ \A w \in Clients :
              /\ start[w] \in Int /\ pos[w] \in Int /\ Len(got[w]) \in Nat /\ Len(batch[w]) \in Nat
              /\ batch[w] \in Seq(P!Event) /\ got[w] \in Seq(P!Event)
              /\ pos[w] - Len(batch[w]) = start[w] + Len(got[w])
              /\ Listing(w) \/ pc[w] \in {"off", "starting"} => got[w] = <<>>
              /\ pc[w] # "sending" => batch[w] = <<>>
<1>1. P!TypeOK /\ P!BufferIsSuffix /\ \A w \in Clients : P!WatcherInv(w)
  BY P!IInvByWatcher, BroadcasterAssumptions DEF WatchInv
<1>2. /\ revision \in Nat /\ published \in Seq(Payload) /\ events \in Seq(P!Event)
      /\ start \in [Clients -> Int] /\ pos \in [Clients -> Int]
      /\ got \in [Clients -> Seq(P!Event)] /\ batch \in [Clients -> Seq(P!Event)]
  BY <1>1 DEF P!TypeOK
<1>3. revision = Len(published) /\ Len(events) \in Nat /\ Len(events) <= revision
  BY <1>1, <1>2 DEF P!BufferIsSuffix
<1>4. newest.rev = revision /\ revision <= MaxRevision /\ MaxRevision \in Nat
  BY BroadcasterAssumptions DEF WatchInv, History
<1>5. ASSUME NEW w \in Clients
      PROVE  /\ start[w] \in Int /\ pos[w] \in Int /\ Len(got[w]) \in Nat /\ Len(batch[w]) \in Nat
             /\ batch[w] \in Seq(P!Event) /\ got[w] \in Seq(P!Event)
             /\ pos[w] - Len(batch[w]) = start[w] + Len(got[w])
             /\ Listing(w) \/ pc[w] \in {"off", "starting"} => got[w] = <<>>
             /\ pc[w] # "sending" => batch[w] = <<>>
  <2>1. batch[w] \in Seq(P!Event) /\ got[w] \in Seq(P!Event) /\ start[w] \in Int /\ pos[w] \in Int
    BY <1>2
  <2>2. Len(got[w]) \in Nat /\ Len(batch[w]) \in Nat
    BY <2>1
  <2>3. /\ Stage[w] # "sending" => batch[w] = <<>>
        /\ Stage[w] \in {"off", "starting"} => got[w] = <<>>
        /\ pos[w] - Len(batch[w]) = start[w] + Len(got[w])
    BY <1>1 DEF P!WatcherInv, P!Cursor
  <2>4. Stage[w] = IF Listing(w) THEN "starting" ELSE pc[w]
    BY DEF Stage
  <2> QED
    BY <2>1, <2>2, <2>3, <2>4 DEF Listing
<1> QED
  BY <1>2, <1>3, <1>4, <1>5

(* A step of the broadcaster's own keeps its invariant. *)
LEMMA BroadcasterSteps == ASSUME WatchInv, [P!Next]_(P!vars) PROVE P!IInv'
<1>1. P!IInv /\ [P!Next]_(P!vars) => P!IInv'
  BY P!NextPreservesIInv, BroadcasterAssumptions
<1> QED
  BY <1>1 DEF WatchInv

(* A manager call publishes under the revision after the last. *)
LEMMA PublishKeepsBuffer ==
  ASSUME WatchInv, newest.rev < MaxRevision, Publish,
         NEW type \in {"CREATED", "STOPPED", "DELETED"}, NEW i \in Ids, Announce(type, i)
  PROVE  /\ P!IInv'
         /\ revision' = revision + 1
         /\ published' = Append(published, [type |-> type, id |-> i])
<1> DEFINE obj == [type |-> type, id |-> i]
<1>1. newest' = [rev |-> newest.rev + 1, type |-> type, id |-> i]
  BY DEF Announce
<1>2. newest'.rev = revision + 1 /\ newest'.type = type /\ newest'.id = i
  BY <1>1, StreamFacts
<1>3. obj \in Payload
  BY DEF Payload
<1>4. P!Publish(obj)
  <2>1. B!AppendEvent([rev |-> revision + 1, obj |-> obj]) /\ published' = Append(published, obj)
    BY <1>2 DEF Publish
  <2>2. UNCHANGED <<Stage, pos, batch, start, got>>
    BY DEF Publish, Stage, Listing
  <2>3. revision < MaxRevision
    BY StreamFacts
  <2> HIDE DEF obj
  <2> QED
    BY <2>1, <2>2, <2>3 DEF P!Publish, P!AppendEvent, B!AppendEvent, P!Trim, B!Trim
<1>5. P!IInv'
  BY <1>3, <1>4, BroadcasterSteps DEF P!Next
<1> QED
  BY <1>2, <1>5 DEF Publish, B!AppendEvent

(* What the broadcaster calls its variables is as it was. *)
LEMMA BufferUntouchedByOthers ==
  ASSUME WatchInv,
         UNCHANGED <<events, revision, notifies, Stage, pos, batch, published, start, got>>
  PROVE  P!IInv'
<1>1. UNCHANGED P!vars
  BY DEF P!vars
<1> QED
  BY <1>1, BroadcasterSteps

(* The loop of watch() changes the client's stage to one of its own. *)
LEMMA AdvanceStages ==
  ASSUME WatchInv, NEW w \in Clients, NEW p, B!Advance(w, p) \/ B!Enter(w, p)
  PROVE  /\ \E s \in {"waiting", "gone", "sending"} : pc' = [pc EXCEPT ![w] = s]
         /\ B!Advance(w, p) => P!Advance(w, p)
         /\ B!Enter(w, p) => P!Enter(w, p)
<1>1. pc \in [Clients -> {"off", "starting", "listing", "waiting", "woken", "sending", "gone"}]
  BY DEF WatchInv, StreamTypes
<1>2. PICK s \in {"waiting", "gone", "sending"} : pc' = [pc EXCEPT ![w] = s]
  BY DEF B!Advance, B!Enter
<1>3. Stage' = [Stage EXCEPT ![w] = s]
  BY <1>1, <1>2 DEF Stage, Listing
<1>4. \A t \in {"waiting", "gone", "sending"} :
        pc' = [pc EXCEPT ![w] = t] => Stage' = [Stage EXCEPT ![w] = t]
  BY <1>1 DEF Stage, Listing
<1>5. B!OldestRevision = P!OldestRevision
  BY DEF B!OldestRevision, P!OldestRevision
<1>6. B!Advance(w, p) => P!Advance(w, p)
  BY <1>4, <1>5 DEF B!Advance, P!Advance
<1>7. B!Enter(w, p) => P!Enter(w, p)
  BY <1>4, <1>5, <1>6 DEF B!Enter, P!Enter
<1> QED
  BY <1>2, <1>6, <1>7

(* The live stream's steps are the broadcaster's. *)
LEMMA LiveStepsKeepBuffer ==
  ASSUME WatchInv,
         \/ Notify
         \/ \E w \in Clients : Deliver(w) \/ Watch(w) \/ Disconnect(w) \/ Rejoin(w)
  PROVE  P!IInv'
<1>1. pc \in [Clients -> {"off", "starting", "listing", "waiting", "woken", "sending", "gone"}]
  BY DEF WatchInv, StreamTypes
<1>2. CASE Notify
  <2>1. Stage' = [w \in Clients |-> IF Stage[w] = "waiting" THEN "woken" ELSE Stage[w]]
    BY <1>1, <1>2 DEF Notify, B!Notify, Stage, Listing
  <2> QED
    BY <1>2, <2>1, BroadcasterSteps DEF Notify, B!Notify, P!Notify, P!Next
<1>3. ASSUME NEW w \in Clients, Deliver(w) PROVE P!IInv'
  <2>1. P!Yield(w)
    BY <1>1, <1>3 DEF Deliver, B!Yield, P!Yield, Stage, Listing
  <2> QED
    BY <2>1, BroadcasterSteps DEF P!Next
<1>4. ASSUME NEW w \in Clients, Watch(w) PROVE P!IInv'
  <2>1. UNCHANGED <<events, revision, notifies, published, start, got>>
    BY <1>4 DEF Watch, B!Start, B!Resume, B!Again
  <2>2. P!Start(w) \/ P!Resume(w) \/ P!Again(w)
    <3>1. pc[w] \in {"starting", "woken", "sending"} => Stage[w] = pc[w]
      BY DEF Stage, Listing
    <3>2. CASE B!Start(w)
      BY <2>1, <3>1, <3>2, AdvanceStages DEF B!Start, P!Start
    <3>3. CASE B!Resume(w)
      BY <2>1, <3>1, <3>3, AdvanceStages DEF B!Resume, P!Resume
    <3>4. CASE B!Again(w)
      BY <2>1, <3>1, <3>4, AdvanceStages DEF B!Again, P!Again
    <3> QED
      BY <1>4, <3>2, <3>3, <3>4 DEF Watch
  <2> QED
    BY <2>2, BroadcasterSteps DEF P!Next
<1>5. ASSUME NEW w \in Clients, Disconnect(w) PROVE P!IInv'
  <2>1. Stage' = [Stage EXCEPT ![w] = "off"] /\ Stage[w] # "off"
    BY <1>1, <1>5 DEF Disconnect, B!Disconnect, Stage, Listing
  <2>2. P!Disconnect(w)
    BY <1>5, <2>1 DEF Disconnect, B!Disconnect, P!Disconnect
  <2> QED
    BY <2>2, BroadcasterSteps DEF P!Next
<1>6. ASSUME NEW w \in Clients, Rejoin(w) PROVE P!IInv'
  <2>1. known[w] \in 0 .. MaxRevision
    BY StreamFacts DEF WatchInv, StreamTypes, ClientRight
  <2>2. Stage' = [Stage EXCEPT ![w] = IF known[w] < P!OldestRevision THEN "gone" ELSE "starting"]
        /\ Stage[w] = "off"
    BY <1>1, <1>6 DEF Rejoin, B!Subscribe, Stage, Listing, B!OldestRevision, P!OldestRevision
  <2>3. P!Subscribe(w, known[w])
    BY <1>6, <2>2 DEF Rejoin, B!Subscribe, P!Subscribe
  <2> QED
    BY <2>1, <2>3, BroadcasterSteps DEF P!Next
<1> QED
  BY <1>2, <1>3, <1>4, <1>5, <1>6

(* A client that leaves before its first event, or whose snapshot ends at once,
   has nothing to keep in order. *)
LEMMA IdleStreamKeepsBuffer ==
  ASSUME WatchInv, NEW w \in Clients,
         pc[w] \in {"off", "listing"}, pc' = [pc EXCEPT ![w] = "gone"] \/ pc' = [pc EXCEPT ![w] = "waiting"],
         UNCHANGED <<events, revision, notifies, batch, published, got>>,
         \/ UNCHANGED <<pos, start>>
         \/ pos' = [pos EXCEPT ![w] = revision] /\ start' = [start EXCEPT ![w] = revision]
  PROVE  P!IInv'
<1>1. pc \in [Clients -> {"off", "starting", "listing", "waiting", "woken", "sending", "gone"}]
  BY DEF WatchInv, StreamTypes
<1>2. P!TypeOK /\ P!BufferIsSuffix /\ \A v \in Clients : P!WatcherInv(v)
  BY P!IInvByWatcher, BroadcasterAssumptions DEF WatchInv
<1>3. /\ Stage[w] \in {"off", "starting"}
      /\ \E s \in {"gone", "waiting"} : Stage' = [Stage EXCEPT ![w] = s]
  BY <1>1 DEF Stage, Listing
<1>4. pos \in [Clients -> Int] /\ start \in [Clients -> Int] /\ revision \in Int
      /\ pos' \in [Clients -> Int] /\ start' \in [Clients -> Int]
  BY <1>2 DEF P!TypeOK
<1>5. Stage \in [Clients -> P!Stages] /\ Stage' \in [Clients -> P!Stages]
  BY <1>2, <1>3 DEF P!TypeOK, P!Stages
<1>6. P!TypeOK'
  BY <1>2, <1>4, <1>5 DEF P!TypeOK
<1>7. P!BufferIsSuffix'
  BY <1>2 DEF P!BufferIsSuffix, P!OldestRevision
<1>8. ASSUME NEW v \in Clients, v # w PROVE P!WatcherInv(v)'
  <2>1. /\ Stage'[v] = Stage[v] /\ pos'[v] = pos[v] /\ start'[v] = start[v]
        /\ batch'[v] = batch[v] /\ got'[v] = got[v]
    BY <1>3, <1>4, <1>5, <1>8
  <2>2. P!WatcherInv(v)
    BY <1>2
  <2>3. P!BufferUntouched
    BY DEF P!BufferUntouched
  <2> QED
    BY <2>1, <2>2, <2>3, P!UntouchedKeepsWatcher, BroadcasterAssumptions
<1>9. P!WatcherInv(w)'
  <2>1. P!WatcherInv(w)
    BY <1>2
  <2>2. batch[w] = <<>> /\ got[w] = <<>> /\ Len(batch[w]) = 0 /\ Len(got[w]) = 0
    BY <1>3, <2>1 DEF P!WatcherInv
  <2>3. pos[w] - Len(batch[w]) = start[w] + Len(got[w])
    BY <2>1 DEF P!WatcherInv, P!Cursor
  <2>4. pos'[w] = start'[w]
    BY <1>4, <2>2, <2>3
  <2>5. pos'[w] \in Int /\ start'[w] \in Int
    BY <1>4
  <2>6. pos'[w] - Len(batch'[w]) = start'[w] + Len(got'[w])
    BY <2>2, <2>4, <2>5
  <2>7. 1 .. Len(batch'[w]) = {} /\ 1 .. Len(got'[w]) = {} /\ batch'[w] = <<>> /\ got'[w] = <<>>
    BY <2>2
  <2> QED
    BY <2>6, <2>7 DEF P!WatcherInv, P!Cursor
<1> QED
  BY <1>6, <1>7, <1>8, <1>9, P!IInvByWatcherNext, BroadcasterAssumptions

(* The snapshot, up to its next yield. *)
LEMMA SnapshotKeepsBuffer ==
  ASSUME WatchInv, NEW w \in Clients, Open(w) \/ ListNext(w) PROVE P!IInv'
<1>1. pc \in [Clients -> {"off", "starting", "listing", "waiting", "woken", "sending", "gone"}]
  BY DEF WatchInv, StreamTypes
<1>2. UNCHANGED <<events, revision, notifies, published, got>>
  BY DEF Open, ListNext
<1>3. pos \in [Clients -> Int]
  BY P!IInvByWatcher, BroadcasterAssumptions DEF WatchInv, P!TypeOK
<1>4. CASE Open(w)
  <2>1. /\ pc[w] = "off" /\ start' = [start EXCEPT ![w] = revision]
        /\ \/ /\ pc' = [pc EXCEPT ![w] = "listing"] /\ pos' = [pos EXCEPT ![w] = revision]
              /\ batch' = batch
           \/ B!Enter(w, revision)
    BY <1>4 DEF Open, List
  <2>2. CASE pc' = [pc EXCEPT ![w] = "listing"] /\ pos' = [pos EXCEPT ![w] = revision] /\ batch' = batch
    <3>1. Stage' = [Stage EXCEPT ![w] = "starting"] /\ Stage[w] = "off"
      BY <1>1, <2>1, <2>2 DEF Stage, Listing
    <3>2. ~ (revision < P!OldestRevision) /\ revision \in 0 .. MaxRevision
      BY StreamFacts DEF P!OldestRevision
    <3>3. P!Subscribe(w, revision)
      BY <1>2, <2>1, <2>2, <3>1, <3>2 DEF P!Subscribe
    <3> QED
      BY <3>2, <3>3, BroadcasterSteps DEF P!Next
  <2>3. CASE B!Enter(w, revision)
    <3>1. ~ (revision < B!OldestRevision) /\ ~ (revision < revision)
      BY StreamFacts DEF B!OldestRevision
    <3>2. /\ pc' = [pc EXCEPT ![w] = "waiting"] /\ pos' = [pos EXCEPT ![w] = revision]
          /\ batch' = batch
      BY <2>3, <3>1 DEF B!Enter, B!Advance
    <3> QED
      BY <1>2, <2>1, <3>2, IdleStreamKeepsBuffer
  <2> QED
    BY <2>1, <2>2, <2>3
<1>5. CASE ListNext(w)
  <2>1. /\ pc[w] = "listing" /\ start' = start
        /\ \/ pc' = [pc EXCEPT ![w] = "gone"] /\ UNCHANGED <<pos, batch>>
           \/ /\ pc' = [pc EXCEPT ![w] = "listing"] /\ pos' = [pos EXCEPT ![w] = pos[w]]
              /\ batch' = batch
           \/ B!Enter(w, pos[w])
    BY <1>5 DEF ListNext, List, Listing
  <2>2. CASE pc' = [pc EXCEPT ![w] = "gone"] /\ UNCHANGED <<pos, batch>>
    BY <1>2, <2>1, <2>2, IdleStreamKeepsBuffer
  <2>3. CASE pc' = [pc EXCEPT ![w] = "listing"] /\ pos' = [pos EXCEPT ![w] = pos[w]] /\ batch' = batch
    <3>1. pc' = pc /\ pos' = pos
      BY <1>1, <1>3, <2>1, <2>3
    <3>2. Stage' = Stage
      BY <3>1 DEF Stage, Listing
    <3> QED
      BY <1>2, <2>1, <2>3, <3>1, <3>2, BufferUntouchedByOthers
  <2>4. CASE B!Enter(w, pos[w])
    <3>1. P!Enter(w, pos[w])
      BY <2>4, AdvanceStages
    <3>2. Stage[w] = "starting"
      BY <2>1 DEF Stage, Listing
    <3>3. P!Start(w)
      BY <1>2, <2>1, <3>1, <3>2 DEF P!Start
    <3> QED
      BY <3>3, BroadcasterSteps DEF P!Next
  <2> QED
    BY <2>1, <2>2, <2>3, <2>4
<1> QED
  BY <1>4, <1>5

----------------------------------------------------------------------------
(* The table. *)

(* Packing loses no entry and copies none. *)
LEMMA PackKeeps ==
  ASSUME table \in Seq(Ids \cup {Hole}), TableMatchesEvents, NEW packed \in Pack(table)
  PROVE  /\ packed \in Seq(Ids \cup {Hole})
         /\ {packed[k] : k \in DOMAIN packed} \ {Hole} = Existing
         /\ \A j, k \in DOMAIN packed : packed[j] = packed[k] /\ packed[j] # Hole => j = k
<1>1. CASE Len(table) < Usable
  BY <1>1 DEF Pack, TableMatchesEvents
<1>2. CASE ~ (Len(table) < Usable)
  <2> DEFINE kept == Slots(table)
             n == Cardinality(kept)
  <2>1. PICK f \in [1 .. n -> kept] :
               /\ \A j, k \in 1 .. n : j < k => f[j] < f[k]
               /\ packed = [k \in 1 .. n |-> table[f[k]]]
    BY <1>2 DEF Pack
  <2>2. IsFiniteSet(kept) /\ n \in Nat /\ kept \subseteq 1 .. Len(table)
    <3>1. Len(table) \in Nat /\ DOMAIN table = 1 .. Len(table)
      OBVIOUS
    <3>2. kept \in SUBSET (1 .. Len(table))
      BY <3>1 DEF Slots
    <3> HIDE DEF kept
    <3>3. IsFiniteSet(1 .. Len(table))
      BY <3>1, FS_Interval
    <3>4. IsFiniteSet(kept)
      BY <3>2, <3>3, FS_Subset
    <3> QED
      BY <3>2, <3>4, FS_CardinalityType
  <2>3. \A j, k \in 1 .. n : f[j] = f[k] => j = k
    <3>1. ASSUME NEW j \in 1 .. n, NEW k \in 1 .. n, f[j] = f[k], j # k PROVE FALSE
      <4>1. j < k \/ k < j
        BY <2>2, <3>1
      <4>2. f[j] \in Nat /\ f[k] \in Nat
        BY <2>2
      <4> QED
        BY <2>1, <3>1, <4>1, <4>2
    <3> QED
      BY <3>1
  <2>4. ASSUME NEW slot \in kept PROVE \E k \in 1 .. n : f[k] = slot
    <3> SUFFICES ASSUME \A k \in 1 .. n : f[k] # slot PROVE FALSE
      OBVIOUS
    <3>1. f \in [1 .. n -> kept \ {slot}]
      OBVIOUS
    <3>2. IsFiniteSet(kept \ {slot}) /\ Cardinality(kept \ {slot}) = n - 1
      BY <2>2, FS_RemoveElement
    <3>3. IsFiniteSet(1 .. n) /\ Cardinality(1 .. n) = n
      BY <2>2, FS_Interval
    <3>4. n - 1 < n
      BY <2>2
    <3> HIDE DEF kept, n
    <3>5. Cardinality(kept \ {slot}) < Cardinality(1 .. n)
      BY <3>2, <3>3, <3>4
    <3> DEFINE S == 1 .. n
               T == kept \ {slot}
    <3>6. f \in [S -> T] /\ IsFiniteSet(S) /\ IsFiniteSet(T) /\ Cardinality(T) < Cardinality(S)
      BY <3>1, <3>2, <3>3, <3>5
    <3> HIDE DEF S, T
    <3>7. \E j, k \in S : j # k /\ f[j] = f[k]
      BY <3>6, FS_PigeonHole
    <3> QED
      BY <2>3, <3>7 DEF S
  <2>5. \A slot \in kept : slot \in DOMAIN table /\ table[slot] # Hole
    BY DEF Slots
  <2>6. \A k \in DOMAIN table : table[k] # Hole => k \in kept
    BY DEF Slots
  <2>7. \A k \in DOMAIN table : table[k] \in Ids \cup {Hole}
    OBVIOUS
  <2> HIDE DEF kept, n
  <2>8. DOMAIN packed = 1 .. n /\ \A k \in 1 .. n : packed[k] = table[f[k]] /\ f[k] \in kept
    BY <2>1
  <2>9. packed \in Seq(Ids \cup {Hole})
    <3>1. \A k \in 1 .. n : table[f[k]] \in Ids \cup {Hole}
      BY <2>5, <2>7, <2>8
    <3> QED
      BY <2>1, <2>2, <3>1
  <2>10. {packed[k] : k \in DOMAIN packed} \ {Hole} = {table[k] : k \in DOMAIN table} \ {Hole}
    <3>1. \A x : x \in {packed[k] : k \in DOMAIN packed} \ {Hole} =>
                 x \in {table[k] : k \in DOMAIN table} \ {Hole}
      BY <2>5, <2>8
    <3>2. ASSUME NEW k \in DOMAIN table, table[k] # Hole
          PROVE  table[k] \in {packed[j] : j \in DOMAIN packed}
      <4>1. PICK j \in 1 .. n : f[j] = k
        BY <2>4, <2>6, <3>2
      <4> QED
        BY <2>8, <4>1
    <3> QED
      BY <3>1, <3>2
  <2>11. \A j, k \in DOMAIN packed : packed[j] = packed[k] /\ packed[j] # Hole => j = k
    BY <2>3, <2>5, <2>8 DEF TableMatchesEvents
  <2> QED
    BY <2>9, <2>10, <2>11 DEF TableMatchesEvents
<1> QED
  BY <1>1, <1>2

(* What an insertion leaves. *)
LEMMA InsertKeeps ==
  ASSUME WatchInv, NEW e \in Ids \cup {Hole}, e \notin Existing, Insert(e)
  PROVE  /\ table' \in Seq(Ids \cup {Hole})
         /\ {table'[k] : k \in DOMAIN table'} \ {Hole} = (Existing \cup {e}) \ {Hole}
         /\ \A j, k \in DOMAIN table' : table'[j] = table'[k] /\ table'[j] # Hole => j = k
         /\ shifted \subseteq shifted'
         /\ \A w \in Clients : Listing(w) /\ w \notin shifted' =>
              \A k \in DOMAIN table : k \in DOMAIN table' /\ table'[k] = table[k]
<1>1. PICK packed \in Pack(table) :
        /\ table' = Append(packed, e)
        /\ shifted' = shifted \cup {w \in Clients : Listing(w) /\ packed # table}
  BY DEF Insert
<1>2. /\ packed \in Seq(Ids \cup {Hole})
      /\ {packed[k] : k \in DOMAIN packed} \ {Hole} = Existing
      /\ \A j, k \in DOMAIN packed : packed[j] = packed[k] /\ packed[j] # Hole => j = k
  BY PackKeeps DEF WatchInv, StreamTypes
<1>3. /\ table' \in Seq(Ids \cup {Hole}) /\ Len(packed) \in Nat
      /\ DOMAIN packed = 1 .. Len(packed) /\ DOMAIN table' = 1 .. Len(packed) + 1
      /\ \A k \in 1 .. Len(packed) : table'[k] = packed[k]
      /\ table'[Len(packed) + 1] = e
  <2>1. packed \in Seq(Ids \cup {Hole})
    BY <1>2
  <2>2. Len(packed) \in Nat /\ DOMAIN packed = 1 .. Len(packed)
    BY <2>1
  <2> QED
    BY <1>1, <2>1, <2>2, AppendProperties
<1> DEFINE n == Len(packed)
<1>4. \A k \in 1 .. n + 1 : k \in 1 .. n \/ k = n + 1
  BY <1>3
<1>5. 1 .. n \subseteq 1 .. n + 1 /\ n + 1 \in 1 .. n + 1 /\ n + 1 \notin 1 .. n
  BY <1>3
<1> HIDE DEF n
<1>6. {table'[k] : k \in DOMAIN table'} \ {Hole} = (Existing \cup {e}) \ {Hole}
  <2>1. ASSUME NEW k \in DOMAIN table', table'[k] # Hole PROVE table'[k] \in Existing \cup {e}
    <3>1. CASE k \in 1 .. n
      BY <1>2, <1>3, <2>1, <3>1 DEF n
    <3>2. CASE k = n + 1
      BY <1>3, <3>2 DEF n
    <3> QED
      BY <1>3, <1>4, <3>1, <3>2 DEF n
  <2>2. ASSUME NEW x \in Existing, x # Hole PROVE x \in {table'[k] : k \in DOMAIN table'}
    <3>1. PICK k \in 1 .. n : packed[k] = x
      BY <1>2, <1>3, <2>2 DEF n
    <3>2. k \in DOMAIN table' /\ table'[k] = x
      BY <1>3, <1>5, <3>1 DEF n
    <3> QED
      BY <3>2
  <2>3. e \in {table'[k] : k \in DOMAIN table'}
    BY <1>3, <1>5 DEF n
  <2> QED
    BY <2>1, <2>2, <2>3
<1>7. \A j, k \in DOMAIN table' : table'[j] = table'[k] /\ table'[j] # Hole => j = k
  <2>1. ASSUME NEW j \in 1 .. n, packed[j] # Hole PROVE packed[j] # e
    BY <1>2, <1>3, <2>1 DEF n
  <2> QED
    BY <1>2, <1>3, <1>4, <2>1 DEF n
<1>8. ASSUME NEW w \in Clients, Listing(w), w \notin shifted', NEW k \in DOMAIN table
      PROVE  k \in DOMAIN table' /\ table'[k] = table[k]
  BY <1>1, <1>3, <1>5, <1>8 DEF n
<1> QED
  BY <1>1, <1>3, <1>6, <1>7, <1>8

(* The table follows the events. *)
LEMMA TableKept == ASSUME WatchInv, NextStream PROVE table' \in Seq(Ids \cup {Hole}) /\ TableMatchesEvents'
<1>1. /\ TableMatchesEvents /\ table \in Seq(Ids \cup {Hole})
      /\ last \in [Ids -> {"none", "CREATED", "STOPPED", "DELETED"}]
  BY DEF WatchInv, StreamTypes
<1>2. ASSUME NEW i \in Ids, CreateInstance(i)
      PROVE  table' \in Seq(Ids \cup {Hole}) /\ TableMatchesEvents'
  <2>1. i \notin Existing /\ Existing' = Existing \cup {i}
    BY <1>1, <1>2 DEF CreateInstance, Create, Announce, Existing
  <2>2. Insert(i) /\ i # Hole /\ Hole \notin Existing
    BY <1>2, IdsAssumption DEF CreateInstance, Existing
  <2>3. /\ table' \in Seq(Ids \cup {Hole})
        /\ {table'[k] : k \in DOMAIN table'} \ {Hole} = (Existing \cup {i}) \ {Hole}
        /\ \A j, k \in DOMAIN table' : table'[j] = table'[k] /\ table'[j] # Hole => j = k
    BY <2>1, <2>2, InsertKeeps
  <2> QED
    BY <2>1, <2>2, <2>3 DEF TableMatchesEvents
<1>3. ASSUME NEW i \in Ids, StartFails(i)
      PROVE  table' \in Seq(Ids \cup {Hole}) /\ TableMatchesEvents'
  <2>1. Insert(Hole) /\ Hole \notin Existing /\ Existing' = Existing
    BY <1>3, IdsAssumption DEF StartFails, Existing, lifeVars
  <2>2. /\ table' \in Seq(Ids \cup {Hole})
        /\ {table'[k] : k \in DOMAIN table'} \ {Hole} = (Existing \cup {Hole}) \ {Hole}
        /\ \A j, k \in DOMAIN table' : table'[j] = table'[k] /\ table'[j] # Hole => j = k
    BY <2>1, InsertKeeps
  <2> QED
    BY <2>1, <2>2 DEF TableMatchesEvents
<1>4. ASSUME NEW i \in Ids, InstanceStops(i)
      PROVE  table' \in Seq(Ids \cup {Hole}) /\ TableMatchesEvents'
  <2>1. Existing' = Existing /\ table' = table
    BY <1>1, <1>4 DEF InstanceStops, End, Announce, Existing
  <2> QED
    BY <1>1, <2>1 DEF TableMatchesEvents
<1>5. ASSUME NEW i \in Ids, DeleteInstance(i)
      PROVE  table' \in Seq(Ids \cup {Hole}) /\ TableMatchesEvents'
  <2>1. Existing' = Existing \ {i} /\ i # Hole /\ i \in Existing
    BY <1>1, <1>5, IdsAssumption DEF DeleteInstance, Delete, Announce, Existing
  <2>2. /\ table' = [k \in DOMAIN table |-> IF table[k] = i THEN Hole ELSE table[k]]
        /\ DOMAIN table = 1 .. Len(table) /\ Len(table) \in Nat
        /\ \A k \in DOMAIN table : table[k] \in Ids \cup {Hole}
    BY <1>1, <1>5 DEF DeleteInstance
  <2>3. table' \in Seq(Ids \cup {Hole})
    <3>1. \A k \in 1 .. Len(table) : (IF table[k] = i THEN Hole ELSE table[k]) \in Ids \cup {Hole}
      BY <2>2
    <3> QED
      BY <2>2, <3>1
  <2>4. DOMAIN table' = DOMAIN table /\ \A k \in DOMAIN table : table'[k] = IF table[k] = i THEN Hole ELSE table[k]
    BY <2>2
  <2>5. {table'[k] : k \in DOMAIN table'} \ {Hole} = Existing \ {i}
    BY <1>1, <2>1, <2>4 DEF TableMatchesEvents
  <2>6. \A j, k \in DOMAIN table' : table'[j] = table'[k] /\ table'[j] # Hole => j = k
    BY <1>1, <2>4 DEF TableMatchesEvents
  <2> QED
    BY <2>1, <2>3, <2>5, <2>6 DEF TableMatchesEvents
<1>6. ASSUME UNCHANGED <<last, table>> PROVE table' \in Seq(Ids \cup {Hole}) /\ TableMatchesEvents'
  BY <1>1, <1>6 DEF TableMatchesEvents, Existing
<1>7. Notify \/ (\E w \in Clients : Open(w) \/ Rejoin(w) \/ Forget(w) \/ Disconnect(w) \/ Step(w))
        => UNCHANGED <<last, table>>
  BY DEF Notify, Open, Rejoin, Forget, Disconnect, Step, ListNext, Deliver, Watch, lifeVars
<1> QED
  BY <1>2, <1>3, <1>4, <1>5, <1>6, <1>7 DEF NextStream

----------------------------------------------------------------------------
(* The manager's calls. *)

(* What a published event changes of the silences: its own id's end. *)
LEMMA PublishedMore ==
  ASSUME WatchInv, NEW type \in {"CREATED", "STOPPED", "DELETED"}, NEW i \in Ids,
         revision' = revision + 1, published' = Append(published, [type |-> type, id |-> i])
  PROVE  /\ \A n \in 1 .. revision : published'[n] = published[n]
         /\ published'[revision + 1] = [type |-> type, id |-> i]
         /\ \A j \in Ids, n \in 0 .. revision : Quiet(j, n)' => Quiet(j, n) /\ j # i
<1>1. revision \in Nat /\ revision = Len(published) /\ published \in Seq(Payload)
  BY StreamFacts
<1>2. [type |-> type, id |-> i] \in Payload
  BY DEF Payload
<1>3. /\ \A n \in 1 .. revision : published'[n] = published[n]
      /\ published'[revision + 1] = [type |-> type, id |-> i]
  BY <1>1, <1>2, AppendProperties
<1>4. ASSUME NEW j \in Ids, NEW n \in 0 .. revision, Quiet(j, n)' PROVE Quiet(j, n) /\ j # i
  <2>1. \A m \in n + 1 .. revision + 1 : published'[m].id # j
    BY <1>4 DEF Quiet
  <2>2. revision + 1 \in n + 1 .. revision + 1 /\ published'[revision + 1].id = i
    BY <1>1, <1>3
  <2>3. ASSUME NEW m \in n + 1 .. revision PROVE m \in n + 1 .. revision + 1 /\ m \in 1 .. revision
    BY <1>1
  <2> QED
    BY <1>3, <2>1, <2>2, <2>3 DEF Quiet
<1> QED
  BY <1>3, <1>4

(* Every call but a failed start publishes what it announces. *)
LEMMA ManagerPublishes ==
  ASSUME WatchInv, NEW i \in Ids, CreateInstance(i) \/ InstanceStops(i) \/ DeleteInstance(i)
  PROVE  /\ P!IInv'
         /\ revision' = revision + 1
         /\ UNCHANGED <<pc, pos, batch, start, got, snapshotVars, view, known>>
         /\ \E type \in {"CREATED", "STOPPED", "DELETED"} :
              Announce(type, i) /\ published' = Append(published, [type |-> type, id |-> i])
<1>1. newest.rev < MaxRevision /\ Publish
  BY DEF CreateInstance, InstanceStops, DeleteInstance
<1>2. PICK type \in {"CREATED", "STOPPED", "DELETED"} : Announce(type, i)
  BY DEF CreateInstance, InstanceStops, DeleteInstance, Create, End, Delete
<1>3. /\ P!IInv'
      /\ revision' = revision + 1
      /\ published' = Append(published, [type |-> type, id |-> i])
  BY <1>1, <1>2, PublishKeepsBuffer
<1> QED
  BY <1>1, <1>2, <1>3 DEF Publish

(* The broadcaster's invariant survives every step. *)
LEMMA BufferKept == ASSUME WatchInv, NextStream PROVE P!IInv'
<1>1. ASSUME NEW i \in Ids, StartFails(i) PROVE P!IInv'
  BY <1>1, BufferUntouchedByOthers DEF StartFails, Stage, Listing
<1>2. ASSUME NEW w \in Clients, Forget(w) PROVE P!IInv'
  BY <1>2, BufferUntouchedByOthers DEF Forget, Stage, Listing
<1>3. ASSUME NEW w \in Clients, Step(w) PROVE P!IInv'
  BY <1>3, LiveStepsKeepBuffer, SnapshotKeepsBuffer DEF Step
<1> QED
  BY <1>1, <1>2, <1>3, ManagerPublishes, LiveStepsKeepBuffer, SnapshotKeepsBuffer DEF NextStream

(* The revisions are the stamps, and an id's last event is what it is. *)
LEMMA HistoryKept == ASSUME WatchInv, NextStream PROVE History'
<1>1. /\ revision \in Nat /\ newest.rev = revision /\ revision <= MaxRevision
      /\ published \in Seq(Payload) /\ revision = Len(published) /\ MaxRevision \in Nat
      /\ last \in [Ids -> {"none", "CREATED", "STOPPED", "DELETED"}]
      /\ \A n \in 1 .. revision : Quiet(published[n].id, n) => last[published[n].id] = published[n].type
  BY StreamFacts DEF WatchInv, StreamTypes, History
<1>2. ASSUME NEW i \in Ids, CreateInstance(i) \/ InstanceStops(i) \/ DeleteInstance(i)
      PROVE  History'
  <2>1. revision' = revision + 1 /\ newest.rev < MaxRevision
    BY <1>2, ManagerPublishes DEF CreateInstance, InstanceStops, DeleteInstance
  <2>2. PICK type \in {"CREATED", "STOPPED", "DELETED"} :
          Announce(type, i) /\ published' = Append(published, [type |-> type, id |-> i])
    BY <1>2, ManagerPublishes
  <2>3. last' = [last EXCEPT ![i] = type] /\ newest'.rev = revision + 1
    BY <1>1, <2>2 DEF Announce
  <2>4. /\ \A n \in 1 .. revision : published'[n] = published[n]
        /\ published'[revision + 1] = [type |-> type, id |-> i]
        /\ \A j \in Ids, n \in 0 .. revision : Quiet(j, n)' => Quiet(j, n) /\ j # i
    BY <2>1, <2>2, PublishedMore
  <2>5. ASSUME NEW j, NEW n \in 1 .. revision, j = published[n].id, Quiet(j, n)'
        PROVE  last'[j] = published[n].type
    <3>1. j \in Ids
      <4>1. published[n] \in Payload
        BY <1>1
      <4> QED
        BY <2>5, <4>1 DEF Payload
    <3>2. Quiet(j, n) /\ j # i
      BY <1>1, <2>4, <2>5, <3>1
    <3> QED
      BY <1>1, <2>3, <2>5, <3>1, <3>2
  <2>6. ASSUME NEW j, NEW n \in 1 .. revision', j = published'[n].id, Quiet(j, n)'
        PROVE  last'[j] = published'[n].type
    <3>1. CASE n = revision + 1
      BY <1>1, <2>3, <2>4, <2>6, <3>1
    <3>2. CASE n \in 1 .. revision
      BY <2>4, <2>5, <2>6, <3>2
    <3> QED
      BY <1>1, <2>1, <3>1, <3>2
  <2> QED
    BY <1>1, <2>1, <2>3, <2>6 DEF History
<1>3. ASSUME UNCHANGED <<last, newest, revision, published>> PROVE History'
  <2>1. ASSUME NEW j, NEW n PROVE Quiet(j, n)' <=> Quiet(j, n)
    BY <1>3 DEF Quiet
  <2> QED
    BY <1>1, <1>3, <2>1 DEF History
<1>4. \/ Notify
      \/ \E w \in Clients : Open(w) \/ Rejoin(w) \/ Forget(w) \/ Disconnect(w) \/ Step(w)
      \/ \E i \in Ids : StartFails(i)
      => UNCHANGED <<last, newest, revision, published>>
  BY DEF Notify, Open, Rejoin, Forget, Disconnect, Step, ListNext, Deliver, Watch, StartFails,
         lifeVars, B!Notify, B!Start, B!Resume, B!Again, B!Yield, B!Disconnect, B!Subscribe
<1> QED
  BY <1>2, <1>3, <1>4 DEF NextStream

----------------------------------------------------------------------------
(* The clients. *)

(* A client stays right through a step that is not its own, provided that such
   a step speaks of an id only together with an event, and moves no entry that
   the client may still have ahead. *)
LEMMA OthersKeepClient ==
  ASSUME WatchInv, NEW w \in Clients,
         pc'[w] = pc[w] \/ (pc[w] = "waiting" /\ pc'[w] = "woken"),
         pos'[w] = pos[w], start'[w] = start[w], got'[w] = got[w], at'[w] = at[w],
         view'[w] = view[w], known'[w] = known[w],
         w \in shifted => w \in shifted',
         revision' \in Nat, revision <= revision',
         \A j \in Ids, n \in 0 .. revision : Quiet(j, n)' =>
           /\ Quiet(j, n)
           /\ j \in Existing' <=> j \in Existing
           /\ Listing(w) /\ w \notin shifted' =>
                \A k \in DOMAIN table : table[k] = j => k \in DOMAIN table' /\ table'[k] = j
  PROVE  ClientRight(w)'
<1>1. /\ known[w] \in Nat /\ known[w] <= revision /\ revision \in Nat
      /\ pc[w] \notin {"off", "gone"} => Position(w) \in 0 .. revision
      /\ w \notin shifted /\ known[w] # 0 => Agrees(w, known[w])
      /\ w \notin shifted /\ pc[w] \notin {"off", "gone", "listing"} => Agrees(w, Position(w))
      /\ w \notin shifted /\ Listing(w) => ListsAll(w)
  BY StreamFacts DEF WatchInv, StreamTypes, ClientRight
<1>2. Position(w)' = Position(w)
  BY DEF Position
<1>3. ASSUME NEW n \in 0 .. revision, Agrees(w, n) PROVE Agrees(w, n)'
  BY <1>3 DEF Agrees
<1>4. w \notin shifted' /\ known'[w] # 0 => Agrees(w, known[w])'
  BY <1>1, <1>3
<1>5. ASSUME w \notin shifted', pc'[w] \notin {"off", "gone", "listing"} PROVE Agrees(w, Position(w))'
  <2>1. Position(w) \in 0 .. revision /\ Agrees(w, Position(w))
    BY <1>1, <1>5
  <2>2. ASSUME NEW n \in 0 .. revision, Agrees(w, n) PROVE Agrees(w, n)'
    BY <1>3, <2>2
  <2>3. \A n \in 0 .. revision : n = Position(w) => Agrees(w, n)'
    BY <2>1, <2>2
  <2>4. PICK n \in 0 .. revision : n = Position(w)
    BY <2>1
  <2> QED
    BY <1>2, <2>3, <2>4 DEF Agrees
<1>6. ASSUME w \notin shifted', Listing(w)' PROVE ListsAll(w)'
  <2>1. Listing(w) /\ ListsAll(w)
    BY <1>1, <1>6 DEF Listing
  <2>2. pos[w] \in 0 .. revision
    <3>1. got[w] = <<>> /\ batch[w] = <<>> /\ pos[w] \in Int /\ start[w] \in Int
          /\ pos[w] - Len(batch[w]) = start[w] + Len(got[w])
      BY <2>1, StreamFacts DEF Listing
    <3>2. Len(got[w]) = 0 /\ Len(batch[w]) = 0
      BY <3>1
    <3>3. Position(w) \in 0 .. revision
      BY <1>1, <2>1 DEF Listing
    <3> QED
      BY <3>1, <3>2, <3>3 DEF Position
  <2>3. ASSUME NEW j \in Ids, Quiet(j, pos[w])'
        PROVE  /\ j \in view'[w] => j \in Existing'
               /\ j \in Existing' => j \in view'[w] \/ \E k \in DOMAIN table' : k >= at'[w] /\ table'[k] = j
    <3>1. PICK n \in 0 .. revision : n = pos[w]
      BY <2>2
    <3>2. Quiet(j, n)'
      BY <2>3, <3>1 DEF Quiet
    <3>3. /\ Quiet(j, n)
          /\ j \in Existing' <=> j \in Existing
          /\ \A k \in DOMAIN table : table[k] = j => k \in DOMAIN table' /\ table'[k] = j
      BY <1>6, <2>1, <3>2
    <3>4. Quiet(j, pos[w])
      BY <3>1, <3>3
    <3> QED
      BY <2>1, <3>3, <3>4 DEF ListsAll
  <2> QED
    BY <2>3 DEF ListsAll, Quiet
<1> QED
  BY <1>1, <1>2, <1>4, <1>5, <1>6 DEF ClientRight, Listing, Agrees, Quiet

(* The manager's calls keep every client right. *)
LEMMA ManagerKeepsClient ==
  ASSUME WatchInv, NEW w \in Clients, NEW i \in Ids,
         CreateInstance(i) \/ StartFails(i) \/ InstanceStops(i) \/ DeleteInstance(i)
  PROVE  ClientRight(w)'
<1>1. /\ revision \in Nat
      /\ last \in [Ids -> {"none", "CREATED", "STOPPED", "DELETED"}]
      /\ table \in Seq(Ids \cup {Hole})
  BY StreamFacts DEF WatchInv, StreamTypes
<1>2. UNCHANGED <<pc, pos, start, got, at, view, known>>
  BY ManagerPublishes DEF StartFails, snapshotVars
<1>3. ASSUME CreateInstance(i) \/ InstanceStops(i) \/ DeleteInstance(i)
      PROVE  /\ revision' = revision + 1
             /\ \A j \in Ids, n \in 0 .. revision : Quiet(j, n)' =>
                  Quiet(j, n) /\ j # i /\ (j \in Existing' <=> j \in Existing)
  <2>1. revision' = revision + 1
    BY <1>3, ManagerPublishes
  <2>2. PICK type \in {"CREATED", "STOPPED", "DELETED"} :
          Announce(type, i) /\ published' = Append(published, [type |-> type, id |-> i])
    BY <1>3, ManagerPublishes
  <2>3. \A j \in Ids, n \in 0 .. revision : Quiet(j, n)' => Quiet(j, n) /\ j # i
    BY <2>1, <2>2, PublishedMore
  <2>4. \A j \in Ids : j # i => (j \in Existing' <=> j \in Existing)
    BY <1>1, <2>2 DEF Announce, Existing
  <2> QED
    BY <2>1, <2>3, <2>4
<1>4. CASE CreateInstance(i)
  <2>1. Insert(i) /\ i \notin Existing
    BY <1>4 DEF CreateInstance, Create, Existing
  <2>2. /\ shifted \subseteq shifted'
        /\ \A v \in Clients : Listing(v) /\ v \notin shifted' =>
             \A k \in DOMAIN table : k \in DOMAIN table' /\ table'[k] = table[k]
    BY <2>1, InsertKeeps
  <2> QED
    BY <1>1, <1>2, <1>3, <1>4, <2>2, OthersKeepClient
<1>5. CASE StartFails(i)
  <2>1. Insert(Hole) /\ Hole \notin Existing /\ UNCHANGED <<last, revision, published>>
    BY <1>5, IdsAssumption DEF StartFails, Existing, lifeVars
  <2>2. /\ shifted \subseteq shifted'
        /\ \A v \in Clients : Listing(v) /\ v \notin shifted' =>
             \A k \in DOMAIN table : k \in DOMAIN table' /\ table'[k] = table[k]
    BY <2>1, InsertKeeps
  <2>3. Existing' = Existing /\ \A j, n : Quiet(j, n)' <=> Quiet(j, n)
    BY <2>1 DEF Existing, Quiet
  <2> QED
    BY <1>1, <1>2, <2>1, <2>2, <2>3, OthersKeepClient
<1>6. CASE InstanceStops(i)
  <2>1. UNCHANGED <<table, shifted>>
    BY <1>6 DEF InstanceStops
  <2> QED
    BY <1>1, <1>2, <1>3, <1>6, <2>1, OthersKeepClient
<1>7. CASE DeleteInstance(i)
  <2>1. /\ shifted' = shifted
        /\ \A k \in DOMAIN table : k \in DOMAIN table' /\ (table[k] # i => table'[k] = table[k])
    BY <1>1, <1>7 DEF DeleteInstance
  <2> QED
    BY <1>1, <1>2, <1>3, <1>7, <2>1, OthersKeepClient
<1> QED
  BY <1>4, <1>5, <1>6, <1>7

(* What a snapshot lists, up to its end: the next instance still there, or all
   that was left. *)
LEMMA ListKeepsClient ==
  ASSUME WatchInv, NEW w \in Clients, NEW a \in Nat \ {0}, NEW n, NEW p \in 0 .. revision,
         List(w, a, n, p),
         UNCHANGED <<last, revision, published, got, table, known, shifted>>,
         start'[w] = p, got[w] = <<>>,
         w \notin shifted =>
           \A i \in Ids : Quiet(i, p) =>
             /\ i \in view[w] => i \in Existing
             /\ i \in Existing => i \in view[w] \/ \E k \in DOMAIN table : k >= a /\ table[k] = i
  PROVE  ClientRight(w)' /\ at' \in [Clients -> Nat \ {0}] /\ view' \in [Clients -> SUBSET Ids]
<1>1. /\ revision \in Nat /\ table \in Seq(Ids \cup {Hole})
      /\ Len(table) \in Nat /\ DOMAIN table = 1 .. Len(table)
      /\ pc \in [Clients -> {"off", "starting", "listing", "waiting", "woken", "sending", "gone"}]
      /\ at \in [Clients -> Nat \ {0}] /\ view \in [Clients -> SUBSET Ids]
      /\ {table[k] : k \in DOMAIN table} \ {Hole} = Existing
      /\ known[w] \in Nat /\ known[w] <= revision
      /\ w \notin shifted /\ known[w] # 0 => Agrees(w, known[w])
      /\ pos \in [Clients -> Int]
  <2>1. pos \in [Clients -> Int]
    BY P!IInvByWatcher, BroadcasterAssumptions DEF WatchInv, P!TypeOK
  <2> QED
    BY <2>1, StreamFacts, SMTT(20) DEF WatchInv, StreamTypes, TableMatchesEvents, ClientRight
<1>2. Position(w)' = p
  <2>1. Position(w)' = start'[w] + Len(got'[w])
    BY DEF Position
  <2>2. got'[w] = <<>> /\ Len(got'[w]) = 0
    OBVIOUS
  <2> QED
    BY <2>1, <2>2
<1>3. Existing' = Existing /\ \A i, m : Quiet(i, m)' <=> Quiet(i, m)
  BY DEF Existing, Quiet
<1> DEFINE ahead == {k \in a .. Len(table) : table[k] # Hole}
<1>4. CASE pc' = [pc EXCEPT ![w] = "gone"] /\ UNCHANGED <<pos, batch, at, view>>
  <2>1. pc'[w] = "gone"
    BY <1>1, <1>4
  <2>2. w \notin shifted' /\ known'[w] # 0 => Agrees(w, known[w])'
    BY <1>1, <1>3, <1>4 DEF Agrees, Quiet
  <2> QED
    BY <1>1, <1>4, <2>1, <2>2 DEF ClientRight, Listing
<1>5. ASSUME NEW k \in ahead, \A j \in ahead : k <= j,
             at' = [at EXCEPT ![w] = k + 1], view' = [view EXCEPT ![w] = @ \cup {table[k]}],
             pc' = [pc EXCEPT ![w] = "listing"], pos' = [pos EXCEPT ![w] = p]
      PROVE  ClientRight(w)' /\ at' \in [Clients -> Nat \ {0}] /\ view' \in [Clients -> SUBSET Ids]
  <2>1. k \in DOMAIN table /\ table[k] # Hole /\ k >= a /\ k \in Nat
    BY <1>1
  <2>2. table[k] \in Ids /\ table[k] \in Existing
    BY <1>1, <2>1
  <2>3. /\ pc'[w] = "listing" /\ pos'[w] = p /\ at'[w] = k + 1 /\ view'[w] = view[w] \cup {table[k]}
    BY <1>1, <1>5
  <2>4. ASSUME w \notin shifted, known[w] # 0, NEW i \in Ids, Quiet(i, known[w])
        PROVE  i \in view'[w] <=> i \in Existing
    BY <1>1, <2>2, <2>3, <2>4 DEF Agrees
  <2>5. ASSUME w \notin shifted, NEW i \in Ids, Quiet(i, p)
        PROVE  /\ i \in view'[w] => i \in Existing
               /\ i \in Existing => i \in view'[w] \/ \E m \in DOMAIN table : m >= k + 1 /\ table[m] = i
    <3>1. i \in view'[w] => i \in Existing
      BY <2>2, <2>3, <2>5
    <3>2. ASSUME NEW m \in DOMAIN table, m >= a, table[m] = i PROVE m = k \/ m >= k + 1
      <4>1. m \in ahead
        BY <1>1, <3>2, <2>5, IdsAssumption
      <4>2. k <= m /\ m \in Nat
        BY <1>1, <1>5, <4>1
      <4> QED
        BY <2>1, <4>2
    <3> QED
      BY <2>3, <2>5, <3>1, <3>2
  <2>6. w \notin shifted' /\ known'[w] # 0 => Agrees(w, known[w])'
    BY <1>3, <2>4 DEF Agrees, Quiet
  <2>7. w \notin shifted' => ListsAll(w)'
    BY <1>3, <2>3, <2>5 DEF ListsAll, Quiet
  <2>8. at' \in [Clients -> Nat \ {0}] /\ view' \in [Clients -> SUBSET Ids]
    BY <1>1, <1>5, <2>1, <2>2
  <2>9. ClientRight(w)'
    BY <1>1, <1>2, <2>3, <2>6, <2>7 DEF ClientRight, Listing
  <2> QED
    BY <2>8, <2>9
<1>6. ASSUME ahead = {}, B!Enter(w, p), UNCHANGED <<at, view>>
      PROVE  ClientRight(w)' /\ at' \in [Clients -> Nat \ {0}] /\ view' \in [Clients -> SUBSET Ids]
  <2>1. pc'[w] # "listing"
    BY <1>1, <1>6, AdvanceStages
  <2>2. w \notin shifted' /\ known'[w] # 0 => Agrees(w, known[w])'
    BY <1>1, <1>3, <1>6 DEF Agrees, Quiet
  <2>3. ASSUME w \notin shifted, NEW i \in Ids, Quiet(i, p) PROVE i \in view[w] <=> i \in Existing
    <3>1. ASSUME NEW k \in DOMAIN table, k >= a PROVE table[k] # i
      <4>1. k \in a .. Len(table)
        BY <1>1, <3>1
      <4>2. table[k] = Hole
        BY <1>6, <4>1
      <4> QED
        BY <4>2, IdsAssumption
    <3> QED
      BY <2>3, <3>1
  <2>4. w \notin shifted' => Agrees(w, Position(w))'
    BY <1>2, <1>3, <1>6, <2>3 DEF Agrees, Quiet
  <2>5. ClientRight(w)'
    BY <1>1, <1>2, <2>1, <2>2, <2>4 DEF ClientRight, Listing
  <2> QED
    BY <1>1, <1>6, <2>5
<1>7. \/ pc' = [pc EXCEPT ![w] = "gone"] /\ UNCHANGED <<pos, batch, at, view>>
      \/ \E k \in ahead :
           /\ \A j \in ahead : k <= j
           /\ at' = [at EXCEPT ![w] = k + 1]
           /\ view' = [view EXCEPT ![w] = @ \cup {table[k]}]
           /\ pc' = [pc EXCEPT ![w] = "listing"]
           /\ pos' = [pos EXCEPT ![w] = p]
      \/ ahead = {} /\ B!Enter(w, p) /\ UNCHANGED <<at, view>>
  BY DEF List
<1> HIDE DEF ahead
<1>8. CASE \E k \in ahead :
             /\ \A j \in ahead : k <= j
             /\ at' = [at EXCEPT ![w] = k + 1]
             /\ view' = [view EXCEPT ![w] = @ \cup {table[k]}]
             /\ pc' = [pc EXCEPT ![w] = "listing"]
             /\ pos' = [pos EXCEPT ![w] = p]
  BY <1>5, <1>8
<1> QED
  BY <1>1, <1>4, <1>6, <1>7, <1>8

(* A snapshot's own steps. *)
LEMMA SnapshotKeepsClient ==
  ASSUME WatchInv, NEW w \in Clients, Open(w) \/ ListNext(w)
  PROVE  ClientRight(w)' /\ at' \in [Clients -> Nat \ {0}] /\ view' \in [Clients -> SUBSET Ids]
<1>1. /\ revision \in Nat /\ start[w] \in Int /\ pos[w] \in Int
      /\ start \in [Clients -> Int] /\ at \in [Clients -> Nat \ {0}]
      /\ {table[k] : k \in DOMAIN table} \ {Hole} = Existing
      /\ table \in Seq(Ids \cup {Hole})
  <2>1. start \in [Clients -> Int]
    BY P!IInvByWatcher, BroadcasterAssumptions DEF WatchInv, P!TypeOK
  <2> QED
    BY <2>1, StreamFacts DEF WatchInv, StreamTypes, TableMatchesEvents
<1>2. CASE Open(w)
  <2>1. /\ List(w, 1, Cardinality(Existing), revision)
        /\ UNCHANGED <<last, revision, published, got, table, known, shifted>>
        /\ start'[w] = revision /\ view[w] = {} /\ pc[w] = "off"
    BY <1>1, <1>2 DEF Open, lifeVars
  <2>2. got[w] = <<>>
    BY <2>1, StreamFacts
  <2>3. ASSUME NEW i \in Existing PROVE \E k \in DOMAIN table : k >= 1 /\ table[k] = i
    <3>1. PICK k \in DOMAIN table : table[k] = i
      BY <1>1, <2>3
    <3>2. k \in 1 .. Len(table) /\ Len(table) \in Nat
      BY <1>1
    <3> QED
      BY <3>1, <3>2
  <2> QED
    BY <1>1, <2>1, <2>2, <2>3, ListKeepsClient, SMTT(20)
<1>3. CASE ListNext(w)
  <2>1. /\ Listing(w) /\ List(w, at[w], used[w], pos[w])
        /\ UNCHANGED <<last, revision, published, start, got, table, known, shifted>>
    BY <1>3 DEF ListNext, lifeVars
  <2>2. got[w] = <<>> /\ batch[w] = <<>> /\ pos[w] - Len(batch[w]) = start[w] + Len(got[w])
    BY <2>1, StreamFacts DEF Listing
  <2>3. Len(got[w]) = 0 /\ Len(batch[w]) = 0
    BY <2>2
  <2>4. pos[w] = start[w] /\ pos[w] \in 0 .. revision
    <3>1. Position(w) \in 0 .. revision
      BY <2>1 DEF WatchInv, ClientRight, Listing
    <3> QED
      BY <1>1, <2>2, <2>3, <3>1 DEF Position
  <2>5. w \notin shifted => ListsAll(w)
    BY <2>1 DEF WatchInv, ClientRight
  <2>6. at[w] \in Nat \ {0}
    BY <1>1
  <2> QED
    BY <2>1, <2>2, <2>4, <2>5, <2>6, ListKeepsClient DEF ListsAll
<1> QED
  BY <1>2, <1>3

(* A live event takes the client to what its id is after it. *)
LEMMA DeliverKeepsClient ==
  ASSUME WatchInv, NEW w \in Clients, Deliver(w)
  PROVE  ClientRight(w)' /\ view' \in [Clients -> SUBSET Ids] /\ known' \in [Clients -> Nat]
<1> DEFINE ev == Head(batch[w])
           n == Position(w) + 1
<1>1. /\ P!WatcherInv(w) /\ got \in [Clients -> Seq(P!Event)] /\ batch[w] \in Seq(P!Event)
      /\ start[w] \in Int /\ pos[w] \in Int /\ revision \in Nat
      /\ Len(batch[w]) \in Nat /\ Len(got[w]) \in Nat
      /\ published \in Seq(Payload) /\ revision = Len(published)
      /\ view \in [Clients -> SUBSET Ids] /\ known \in [Clients -> Nat]
  <2>1. P!WatcherInv(w) /\ got \in [Clients -> Seq(P!Event)]
    BY P!IInvByWatcher, BroadcasterAssumptions DEF WatchInv, P!TypeOK
  <2> QED
    BY <2>1, StreamFacts DEF WatchInv, StreamTypes
<1>2. /\ pc[w] = "sending" /\ batch[w] # <<>>
      /\ got' = [got EXCEPT ![w] = Append(@, ev)]
      /\ view'[w] = Fold(view[w], ev.obj) /\ known'[w] = ev.rev
      /\ UNCHANGED <<last, revision, published, pc, start, shifted>>
  BY <1>1 DEF Deliver, B!Yield, lifeVars
<1>3. Len(batch[w]) >= 1 /\ ev = batch[w][1] /\ ev \in P!Event
  BY <1>1, <1>2
<1>4. /\ P!Cursor(w) = Position(w) /\ P!Cursor(w) = pos[w] - Len(batch[w])
      /\ P!Cursor(w) >= 0 /\ pos[w] <= revision
      /\ batch[w][1] = [rev |-> P!Cursor(w) + 1, obj |-> published[P!Cursor(w) + 1]]
  <2>1. 1 \in 1 .. Len(batch[w])
    BY <1>1, <1>3
  <2> QED
    BY <1>1, <1>2, <2>1 DEF P!WatcherInv, P!Cursor, Position
<1>5. n \in 1 .. revision /\ ev = [rev |-> n, obj |-> published[n]] /\ Position(w) \in 0 .. revision
  BY <1>1, <1>3, <1>4
<1>6. published[n] \in Payload /\ published[n].id \in Ids
  <2>1. published[n] \in Payload
    BY <1>1, <1>5
  <2> QED
    BY <2>1 DEF Payload
<1>7. Position(w)' = n
  <2>1. Len(got'[w]) = Len(got[w]) + 1
    <3>1. got'[w] = Append(got[w], ev)
      BY <1>1, <1>2
    <3> QED
      BY <1>1, <1>3, <3>1
  <2>2. Position(w)' = start[w] + Len(got'[w]) /\ Position(w) = start[w] + Len(got[w])
    BY <1>2 DEF Position
  <2>3. start[w] \in Int /\ Len(got[w]) \in Nat
    BY <1>1
  <2> QED
    BY <2>1, <2>2, <2>3
<1> HIDE DEF ev
<1>8. ASSUME w \notin shifted, NEW i \in Ids, Quiet(i, n)
      PROVE  i \in view'[w] <=> i \in Existing
  <2>1. Agrees(w, Position(w))
    BY <1>2, <1>8 DEF WatchInv, ClientRight
  <2>2. CASE i = published[n].id
    <3>1. last[i] = published[n].type
      BY <1>5, <1>8, <2>2 DEF WatchInv, History
    <3>2. published[n].type \in {"CREATED", "STOPPED", "DELETED"}
      BY <1>6 DEF Payload
    <3>3. i \in view'[w] <=> published[n].type # "DELETED"
      BY <1>2, <1>5, <2>2 DEF Fold
    <3> QED
      BY <3>1, <3>2, <3>3 DEF Existing
  <2>3. CASE i # published[n].id
    <3>1. Quiet(i, Position(w))
      <4>1. \A m \in Position(w) + 1 .. revision : m = n \/ m \in n + 1 .. revision
        BY <1>5
      <4> QED
        BY <1>8, <2>3, <4>1 DEF Quiet
    <3>2. i \in view'[w] <=> i \in view[w]
      BY <1>2, <1>5, <2>3 DEF Fold
    <3> QED
      BY <2>1, <3>1, <3>2 DEF Agrees
  <2> QED
    BY <2>2, <2>3
<1> HIDE DEF n
<1>9. w \notin shifted => Agrees(w, Position(w))' /\ Agrees(w, known[w])'
  BY <1>2, <1>5, <1>7, <1>8 DEF Agrees, Quiet, Existing
<1>10. Position(w)' \in 0 .. revision' /\ known'[w] <= revision'
  BY <1>1, <1>2, <1>5, <1>7
<1>11. ClientRight(w)'
  BY <1>2, <1>9, <1>10 DEF ClientRight, Listing
<1>12. Fold(view[w], ev.obj) \in SUBSET Ids /\ ev.rev \in Nat
  BY <1>1, <1>5, <1>6 DEF Fold
<1>13. /\ view' = [view EXCEPT ![w] = Fold(view[w], ev.obj)]
       /\ known' = [known EXCEPT ![w] = ev.rev]
  BY DEF Deliver, ev
<1> QED
  BY <1>1, <1>11, <1>12, <1>13

(* The other steps of a client neither list nor read. *)
LEMMA IdleKeepsClient ==
  ASSUME WatchInv, NEW w \in Clients, Watch(w) \/ Disconnect(w) \/ Rejoin(w) \/ Forget(w)
  PROVE  /\ ClientRight(w)'
         /\ at' \in [Clients -> Nat \ {0}] /\ view' \in [Clients -> SUBSET Ids]
         /\ known' \in [Clients -> Nat]
<1>1. /\ at \in [Clients -> Nat \ {0}] /\ view \in [Clients -> SUBSET Ids]
      /\ known \in [Clients -> Nat] /\ ClientRight(w)
      /\ pc \in [Clients -> {"off", "starting", "listing", "waiting", "woken", "sending", "gone"}]
      /\ start \in [Clients -> Int] /\ revision \in Nat
  <2>1. start \in [Clients -> Int]
    BY P!IInvByWatcher, BroadcasterAssumptions DEF WatchInv, P!TypeOK
  <2> QED
    BY <2>1, StreamFacts DEF WatchInv, StreamTypes
<1>2. UNCHANGED <<last, revision, published>>
  BY DEF Watch, Disconnect, Rejoin, Forget, lifeVars, B!Start, B!Resume, B!Again, B!Disconnect,
         B!Subscribe
<1>3. Existing' = Existing
  BY <1>2 DEF Existing
<1>4. CASE Watch(w)
  <2>1. UNCHANGED <<start, got, at, view, known, shifted>> /\ pc[w] \notin {"off", "gone", "listing"}
    BY <1>4 DEF Watch, B!Start, B!Resume, B!Again, snapshotVars
  <2>2. pc'[w] # "listing"
    <3>1. B!Advance(w, pos[w]) \/ B!Enter(w, pos[w])
      BY <1>4 DEF Watch, B!Start, B!Resume, B!Again
    <3>2. \E s \in {"waiting", "gone", "sending"} : pc' = [pc EXCEPT ![w] = s]
      BY <3>1, AdvanceStages
    <3> QED
      BY <1>1, <3>2
  <2> QED
    BY <1>1, <1>2, <1>3, <2>1, <2>2 DEF ClientRight, Listing, Position, Agrees, Quiet
<1>5. CASE Disconnect(w)
  <2>1. /\ pc'[w] = "off" /\ known' = known
        /\ at' = [at EXCEPT ![w] = 1]
        /\ view' = [view EXCEPT ![w] = IF known[w] = 0 THEN {} ELSE @]
        /\ known[w] # 0 => shifted' = shifted
    BY <1>1, <1>5 DEF Disconnect, B!Disconnect
  <2>2. known[w] # 0 => view'[w] = view[w]
    BY <1>1, <2>1
  <2>3. ClientRight(w)'
    BY <1>1, <1>2, <1>3, <2>1, <2>2 DEF ClientRight, Listing, Agrees, Quiet
  <2> QED
    BY <1>1, <2>1, <2>3
<1>6. CASE Rejoin(w)
  <2>1. /\ known[w] # 0 /\ pc[w] = "off" /\ pc'[w] \in {"gone", "starting"}
        /\ start'[w] = known[w] /\ UNCHANGED <<got, at, view, known, shifted>>
    BY <1>1, <1>6 DEF Rejoin, B!Subscribe, snapshotVars
  <2>2. got[w] = <<>> /\ Len(got[w]) = 0
    BY <2>1, StreamFacts
  <2>3. Position(w)' = known[w]
    <3>1. Position(w)' = start'[w] + Len(got'[w])
      BY DEF Position
    <3>2. known[w] \in Nat
      BY <1>1
    <3> QED
      BY <2>1, <2>2, <3>1, <3>2
  <2>4. w \notin shifted => Agrees(w, known[w])' /\ Agrees(w, Position(w))'
    BY <1>1, <1>2, <1>3, <2>1, <2>3 DEF ClientRight, Agrees, Quiet
  <2>5. known[w] \in 0 .. revision
    BY <1>1 DEF ClientRight
  <2> QED
    BY <1>1, <1>2, <2>1, <2>3, <2>4, <2>5 DEF ClientRight, Listing
<1>7. CASE Forget(w)
  <2>1. pc'[w] = "off" /\ known' = [known EXCEPT ![w] = 0] /\ view' = [view EXCEPT ![w] = {}] /\ at' = at
    BY <1>7 DEF Forget, snapshotVars
  <2>2. known'[w] = 0
    BY <1>1, <2>1
  <2> QED
    BY <1>1, <1>2, <2>1, <2>2 DEF ClientRight, Listing
<1> QED
  BY <1>4, <1>5, <1>6, <1>7

(* A client's steps leave the other clients as they are. *)
LEMMA ClientsAlone ==
  ASSUME WatchInv, NEW w \in Clients, NEW v \in Clients \ {w},
         Open(w) \/ Rejoin(w) \/ Forget(w) \/ Disconnect(w) \/ Step(w)
  PROVE  ClientRight(v)'
<1>1. /\ pc \in [Clients -> {"off", "starting", "listing", "waiting", "woken", "sending", "gone"}]
      /\ pos \in [Clients -> Int] /\ start \in [Clients -> Int] /\ got \in [Clients -> Seq(P!Event)]
      /\ at \in [Clients -> Nat \ {0}] /\ view \in [Clients -> SUBSET Ids] /\ known \in [Clients -> Nat]
      /\ revision \in Nat
  <2>1. /\ pos \in [Clients -> Int] /\ start \in [Clients -> Int] /\ got \in [Clients -> Seq(P!Event)]
    BY P!IInvByWatcher, BroadcasterAssumptions DEF WatchInv, P!TypeOK
  <2> QED
    BY <2>1, StreamFacts DEF WatchInv, StreamTypes
<1>2. UNCHANGED <<last, revision, published, table>>
  BY DEF Open, Rejoin, Forget, Disconnect, Step, ListNext, Deliver, Watch, lifeVars,
         B!Start, B!Resume, B!Again, B!Yield, B!Disconnect, B!Subscribe
<1>3. /\ Existing' = Existing
      /\ \A j, n : Quiet(j, n)' <=> Quiet(j, n)
  BY <1>2 DEF Existing, Quiet
<1>4. /\ pc'[v] = pc[v] /\ pos'[v] = pos[v] /\ start'[v] = start[v] /\ got'[v] = got[v]
      /\ at'[v] = at[v] /\ view'[v] = view[v] /\ known'[v] = known[v]
      /\ v \in shifted => v \in shifted'
  <2>1. CASE Open(w)
    BY <1>1, <2>1 DEF Open, List, B!Enter, B!Advance
  <2>2. CASE ListNext(w)
    BY <1>1, <2>2 DEF ListNext, List, B!Enter, B!Advance
  <2>3. CASE Rejoin(w) \/ Forget(w) \/ Disconnect(w)
    BY <1>1, <2>3 DEF Rejoin, Forget, Disconnect, B!Subscribe, B!Disconnect, snapshotVars
  <2>4. CASE Deliver(w)
    BY <1>1, <2>4 DEF Deliver, B!Yield, snapshotVars
  <2>5. CASE Watch(w)
    BY <1>1, <2>5 DEF Watch, B!Start, B!Resume, B!Again, B!Enter, B!Advance, snapshotVars
  <2> QED
    BY <2>1, <2>2, <2>3, <2>4, <2>5 DEF Step
<1>5. \A j \in Ids, n \in 0 .. revision : Quiet(j, n)' =>
        /\ Quiet(j, n)
        /\ j \in Existing' <=> j \in Existing
        /\ \A k \in DOMAIN table : table[k] = j => k \in DOMAIN table' /\ table'[k] = j
  BY <1>2, <1>3
<1> QED
  BY <1>1, <1>2, <1>4, <1>5, OthersKeepClient

(* A notification moves clients from waiting to woken. *)
LEMMA NotifyKeepsClients ==
  ASSUME WatchInv, Notify, NEW w \in Clients PROVE ClientRight(w)'
<1>1. UNCHANGED <<last, revision, published, table, pos, start, got, at, view, known, shifted>>
  BY DEF Notify, B!Notify, lifeVars, snapshotVars
<1>2. pc'[w] = pc[w] \/ (pc[w] = "waiting" /\ pc'[w] = "woken")
  BY DEF Notify, B!Notify
<1>3. Existing' = Existing /\ \A j, n : Quiet(j, n)' <=> Quiet(j, n)
  BY <1>1 DEF Existing, Quiet
<1>4. revision \in Nat
  BY StreamFacts
<1> QED
  BY <1>1, <1>2, <1>3, <1>4, OthersKeepClient

(* What is not the broadcaster's keeps its type. *)
LEMMA StreamTypesKept ==
  ASSUME WatchInv, NextStream,
         P!TypeOK', table' \in Seq(Ids \cup {Hole}),
         at' \in [Clients -> Nat \ {0}], view' \in [Clients -> SUBSET Ids], known' \in [Clients -> Nat]
  PROVE  StreamTypes'
<1>1. /\ pc \in [Clients -> {"off", "starting", "listing", "waiting", "woken", "sending", "gone"}]
      /\ last \in [Ids -> {"none", "CREATED", "STOPPED", "DELETED"}]
  BY DEF WatchInv, StreamTypes
<1>2. last' \in [Ids -> {"none", "CREATED", "STOPPED", "DELETED"}]
  <2>1. ASSUME NEW i \in Ids, CreateInstance(i) \/ InstanceStops(i) \/ DeleteInstance(i)
        PROVE  last' \in [Ids -> {"none", "CREATED", "STOPPED", "DELETED"}]
    BY <1>1, <2>1 DEF CreateInstance, InstanceStops, DeleteInstance, Create, End, Delete, Announce
  <2>2. \/ Notify \/ (\E i \in Ids : StartFails(i))
        \/ \E w \in Clients : Open(w) \/ Rejoin(w) \/ Forget(w) \/ Disconnect(w) \/ Step(w)
        => last' = last
    BY DEF Notify, StartFails, Open, Rejoin, Forget, Disconnect, Step, ListNext, Deliver, Watch, lifeVars
  <2> QED
    BY <1>1, <2>1, <2>2 DEF NextStream
<1>3. pc' \in [Clients -> {"off", "starting", "listing", "waiting", "woken", "sending", "gone"}]
  <2>1. (\E i \in Ids : CreateInstance(i) \/ StartFails(i) \/ InstanceStops(i) \/ DeleteInstance(i)) => pc' = pc
    BY ManagerPublishes DEF StartFails
  <2>2. CASE Notify
    BY <1>1, <2>2 DEF Notify, B!Notify
  <2>3. ASSUME NEW w \in Clients, Open(w) \/ Rejoin(w) \/ Forget(w) \/ Disconnect(w) \/ Step(w)
        PROVE  \E s \in {"off", "starting", "listing", "waiting", "woken", "sending", "gone"} :
                 pc' = [pc EXCEPT ![w] = s]
    <3>1. CASE Open(w)
      BY <3>1, AdvanceStages DEF Open, List
    <3>2. CASE ListNext(w)
      BY <3>2, AdvanceStages DEF ListNext, List
    <3>3. CASE Rejoin(w) \/ Disconnect(w)
      BY <3>3 DEF Rejoin, Disconnect, B!Subscribe, B!Disconnect
    <3>4. CASE Forget(w)
      BY <1>1, <3>4 DEF Forget
    <3>5. CASE Deliver(w)
      BY <1>1, <3>5 DEF Deliver, B!Yield
    <3>6. CASE Watch(w)
      BY <3>6, AdvanceStages DEF Watch, B!Start, B!Resume, B!Again
    <3> QED
      BY <2>3, <3>1, <3>2, <3>3, <3>4, <3>5, <3>6 DEF Step
  <2> QED
    BY <1>1, <2>1, <2>2, <2>3 DEF NextStream
<1> QED
  BY <1>2, <1>3 DEF StreamTypes

(* Every step keeps the invariant. *)
LEMMA StreamStepsKeepInv == WatchInv /\ [NextStream]_vars => WatchInv'
<1>1. ASSUME WatchInv, NextStream PROVE WatchInv'
  <2>1. P!IInv' /\ History' /\ table' \in Seq(Ids \cup {Hole}) /\ TableMatchesEvents'
    BY <1>1, BufferKept, HistoryKept, TableKept
  <2>2. /\ at \in [Clients -> Nat \ {0}] /\ view \in [Clients -> SUBSET Ids]
        /\ known \in [Clients -> Nat]
    BY <1>1 DEF WatchInv, StreamTypes
  <2>3. /\ at' \in [Clients -> Nat \ {0}] /\ view' \in [Clients -> SUBSET Ids]
        /\ known' \in [Clients -> Nat]
        /\ \A w \in Clients : ClientRight(w)'
    <3>1. ASSUME NEW i \in Ids,
                 CreateInstance(i) \/ StartFails(i) \/ InstanceStops(i) \/ DeleteInstance(i)
          PROVE  UNCHANGED <<at, view, known>> /\ \A w \in Clients : ClientRight(w)'
      BY <1>1, <3>1, ManagerPublishes, ManagerKeepsClient DEF StartFails, snapshotVars
    <3>2. CASE Notify
      BY <1>1, <2>2, <3>2, NotifyKeepsClients DEF Notify, snapshotVars
    <3>3. ASSUME NEW w \in Clients, Open(w) \/ Rejoin(w) \/ Forget(w) \/ Disconnect(w) \/ Step(w)
          PROVE  /\ at' \in [Clients -> Nat \ {0}] /\ view' \in [Clients -> SUBSET Ids]
                 /\ known' \in [Clients -> Nat]
                 /\ \A v \in Clients : ClientRight(v)'
      <4>1. \A v \in Clients \ {w} : ClientRight(v)'
        BY <1>1, <3>3, ClientsAlone
      <4>2. /\ at' \in [Clients -> Nat \ {0}] /\ view' \in [Clients -> SUBSET Ids]
            /\ known' \in [Clients -> Nat]
            /\ ClientRight(w)'
        <5>1. CASE Open(w) \/ ListNext(w)
          BY <1>1, <2>2, <5>1, SnapshotKeepsClient DEF Open, ListNext
        <5>2. CASE Deliver(w)
          BY <1>1, <2>2, <5>2, DeliverKeepsClient DEF Deliver, snapshotVars
        <5>3. CASE Rejoin(w) \/ Forget(w) \/ Disconnect(w) \/ Watch(w)
          BY <1>1, <5>3, IdleKeepsClient
        <5> QED
          BY <3>3, <5>1, <5>2, <5>3 DEF Step
      <4> QED
        BY <4>1, <4>2
    <3> QED
      BY <1>1, <2>2, <3>1, <3>2, <3>3 DEF NextStream
  <2>4. P!TypeOK'
    BY <2>1 DEF P!IInv
  <2>5. StreamTypes'
    BY <1>1, <2>1, <2>3, <2>4, StreamTypesKept
  <2> QED
    BY <2>1, <2>3, <2>5 DEF WatchInv
<1>2. ASSUME WatchInv, UNCHANGED vars PROVE WatchInv'
  <2>1. P!IInv'
    BY <1>2, BufferUntouchedByOthers DEF vars, Stage, Listing
  <2>2. UNCHANGED <<last, newest, revision, published, pc, table, at, view, known>>
    BY <1>2 DEF vars, snapshotVars
  <2>3. StreamTypes'
    BY <1>2, <2>2 DEF WatchInv, StreamTypes
  <2>4. History'
    BY <1>2, <2>2 DEF WatchInv, History, Quiet
  <2>5. TableMatchesEvents'
    BY <1>2, <2>2 DEF WatchInv, TableMatchesEvents, Existing
  <2>6. ASSUME NEW w \in Clients PROVE ClientRight(w)'
    <3>1. ClientRight(w)
      BY <1>2 DEF WatchInv
    <3> QED
      BY <1>2, <3>1 DEF vars, ClientRight, Listing, Position, Agrees, ListsAll, Quiet, Existing
  <2> QED
    BY <2>1, <2>6, <2>3, <2>4, <2>5 DEF WatchInv
<1> QED
  BY <1>1, <1>2

(* It holds at the start. *)
LEMMA StreamStartsRight == InitStream => WatchInv
<1> SUFFICES ASSUME InitStream PROVE WatchInv
  OBVIOUS
<1>1. P!IInv
  <2>1. Stage = [w \in Clients |-> "off"]
    BY DEF InitStream, B!Init, Stage, Listing
  <2>2. P!Init
    BY <2>1 DEF InitStream, B!Init, P!Init
  <2> QED
    BY <2>2, P!InitEstablishesIInv, BroadcasterAssumptions
<1>2. revision = 0 /\ newest.rev = 0 /\ table = <<>> /\ Existing = {}
  BY DEF InitStream, Init, NoEvent, B!Init, Existing
<1>3. StreamTypes
  BY DEF InitStream, Init, B!Init, StreamTypes
<1>4. History
  BY <1>2, MaxRevisionAssumption DEF History
<1>5. TableMatchesEvents
  BY <1>2 DEF TableMatchesEvents
<1>6. ASSUME NEW w \in Clients PROVE ClientRight(w)
  BY <1>2 DEF InitStream, B!Init, ClientRight, Listing
<1> QED
  BY <1>1, <1>3, <1>4, <1>5, <1>6 DEF WatchInv

(* The invariant behind the results below holds in every behaviour. *)
THEOREM WatchInvariant == SafetyStream => []WatchInv
BY StreamStartsRight, StreamStepsKeepInv, PTL DEF SafetyStream

(* The entries of the dict are the instances that exist, each once, however
   it is packed and whichever starts fail. *)
THEOREM TableCorrect == SafetyStream => []TableMatchesEvents
BY WatchInvariant, PTL DEF WatchInv

(* Under the manager's own stamps the broadcaster's arithmetic is right: the
   buffer is the end of the history, and each stream, the one that follows a
   snapshot too, continues exactly from where it started. *)
THEOREM StreamsCorrect == SafetyStream => []StreamsHaveNoGap
<1>1. WatchInv => StreamsHaveNoGap
  <2> SUFFICES ASSUME WatchInv PROVE StreamsHaveNoGap
    OBVIOUS
  <2>1. P!BufferIsSuffix /\ P!NoGapNoDuplicate
    BY DEF WatchInv, P!IInv
  <2>2. B!BufferIsSuffix
    BY <2>1 DEF P!BufferIsSuffix, B!BufferIsSuffix, P!OldestRevision, B!OldestRevision
  <2>3. B!NoGapNoDuplicate
    BY <2>1 DEF P!NoGapNoDuplicate, B!NoGapNoDuplicate, P!Cursor, B!Cursor
  <2> QED
    BY <2>2, <2>3 DEF WatchInv, History, StreamsHaveNoGap
<1> QED
  BY <1>1, WatchInvariant, PTL

(* A client that has read everything, from its snapshot on or over any number
   of reconnections, knows exactly the instances that exist, unless the dict
   was packed under its snapshot. *)
THEOREM ClientsCorrect == SafetyStream => []ClientKnowsInstances
<1>1. WatchInv => ClientKnowsInstances
  <2> SUFFICES ASSUME WatchInv, NEW w \in Clients,
                      pc[w] = "waiting", pos[w] = revision, w \notin shifted
               PROVE  view[w] = Existing
    BY DEF ClientKnowsInstances
  <2>1. /\ batch[w] = <<>> /\ pos[w] - Len(batch[w]) = start[w] + Len(got[w])
        /\ pos[w] \in Int /\ revision \in Nat
    BY StreamFacts
  <2>2. Len(batch[w]) = 0
    BY <2>1
  <2>3. Position(w) = revision
    BY <2>1, <2>2 DEF Position
  <2>4. Agrees(w, revision) /\ view[w] \in SUBSET Ids
    BY <2>3 DEF WatchInv, ClientRight, StreamTypes
  <2>5. \A i \in Ids : Quiet(i, revision)
    BY <2>1 DEF Quiet
  <2> QED
    BY <2>4, <2>5 DEF Agrees, Existing
<1> QED
  BY <1>1, WatchInvariant, PTL
=============================================================================
