---------------------------- MODULE WatchStream -----------------------------
(***************************************************************************)
(* GET /v2/vllm/instances/watch of scripts/launcher/launcher.py, end to    *)
(* end: the manager that stamps and publishes events (InstanceLife), the   *)
(* broadcaster and its watch() coroutines (Broadcaster), the snapshot      *)
(* that a stream without `since` begins with, and a client that folds what *)
(* it reads into the set of instances it believes to exist.                *)
(*                                                                         *)
(* The snapshot iterates over manager.instances.values() and yields while  *)
(* it does, so requests run between two of its items.  What the iterator   *)
(* then does is CPython's: `table` is the dict's array of entries, in      *)
(* which a deleted key leaves a hole and a new key takes the next slot;    *)
(* when the Usable slots are taken, an insertion first packs the entries.  *)
(* An iterator keeps an index into it, and raises RuntimeError when the    *)
(* number of keys is not what it was at first.                             *)
(***************************************************************************)
EXTENDS InstanceLife, Sequences, FiniteSets

Hole == "hole"

CONSTANTS
  Clients,     \* clients of the watch endpoint
  MaxEvents,   \* _MAX_BROADCASTER_EVENTS
  Usable,      \* entries a dict of this size holds before an insertion packs it
  MaxRevision, \* bound of the model: events published in a behaviour
  MaxInserts   \* bound of the model: keys put into the dict in a behaviour

ASSUME IdsAssumption == IsFiniteSet(Ids) /\ Hole \notin Ids
ASSUME MaxEventsAssumption == MaxEvents \in Nat \ {0}
ASSUME MaxRevisionAssumption == MaxRevision \in Nat
ASSUME UsableAssumption == Usable \in Nat \ {0}
ASSUME MaxInsertsAssumption == MaxInserts \in Nat

VARIABLES
  events, revision, notifies, pc, pos, batch, published, start, got, \* as in Broadcaster
  table,    \* the entries of manager.instances: ids and holes
  at,       \* per client: where its snapshot's iterator stands in the table
  used,     \* per client: the number of keys the iterator started with
  view,     \* per client: the instances it believes to exist
  known,    \* per client: the revision of the last live event it read; 0: none
  shifted,  \* history: clients whose snapshot was under way when the table was packed
  inserts   \* counts keys put into the dict, up to MaxInserts

Payload == [type : {"CREATED", "STOPPED", "DELETED"}, id : Ids]

B == INSTANCE Broadcaster WITH Watchers <- Clients, Since <- 0 .. MaxRevision

snapshotVars == <<at, used>>
vars == <<last, newest, events, revision, notifies, pc, pos, batch, published, start, got,
          table, at, used, view, known, shifted, inserts>>

(* A watcher of Broadcaster may also be listing: at a yield of the snapshot. *)
Listing(w) == pc[w] = "listing"

----------------------------------------------------------------------------
(* The manager: its dict, and the events it publishes. *)

Slots(q) == {k \in DOMAIN q : q[k] # Hole}

(* Room for one more entry: the entries as they are, or, of a full array, those
   that are no holes, in their order. *)
Pack(q) ==
  IF Len(q) < Usable THEN {q}
  ELSE LET n == Cardinality(Slots(q)) IN
       {[k \in 1 .. n |-> q[f[k]]] :
          f \in {g \in [1 .. n -> Slots(q)] : \A j, k \in 1 .. n : j < k => g[j] < g[k]}}

(* self.instances[i] = ... of a key that is not there *)
Insert(e) ==
  /\ inserts < MaxInserts
  /\ inserts' = inserts + 1
  /\ \E packed \in Pack(table) :
       /\ table' = Append(packed, e)
       /\ shifted' = shifted \cup {w \in Clients : Listing(w) /\ packed # table}

(* Mutated form: no _notify task is created. *)
PublishSilently ==
  LET obj == [type |-> newest'.type, id |-> newest'.id] IN
  /\ revision' = newest'.rev
  /\ events' = B!Trim(Append(events, [rev |-> newest'.rev, obj |-> obj]))
  /\ published' = Append(published, obj)
  /\ UNCHANGED <<notifies, pc, pos, batch, start, got, snapshotVars, view, known>>

(* The event just announced goes to the broadcaster, under the revision the
   manager gave it. *)
Publish ==
  LET obj == [type |-> newest'.type, id |-> newest'.id] IN
  /\ B!AppendEvent([rev |-> newest'.rev, obj |-> obj])
  /\ published' = Append(published, obj)
  /\ UNCHANGED <<pc, pos, batch, start, got, snapshotVars, view, known>>

CreateInstance(i) ==
  /\ newest.rev < MaxRevision
  /\ Create(i)
  /\ Insert(i)
  /\ Publish

(* Mutated form: the revision is taken before start() is tried. *)
StartFailsLate(i) ==
  /\ i \notin Existing
  /\ newest.rev < MaxRevision
  /\ newest' = [newest EXCEPT !.rev = @ + 1]
  /\ Insert(Hole)
  /\ UNCHANGED <<last, events, revision, notifies, pc, pos, batch, published, start, got,
                 snapshotVars, view, known>>

(* start() raises: the key that was put in is popped again. *)
StartFails(i) ==
  /\ i \notin Existing
  /\ Insert(Hole)
  /\ UNCHANGED <<lifeVars, events, revision, notifies, pc, pos, batch, published, start, got,
                 snapshotVars, view, known>>

InstanceStops(i) ==
  /\ newest.rev < MaxRevision
  /\ End(i)
  /\ Publish
  /\ UNCHANGED <<table, shifted, inserts>>

(* Mutated form: the event is published, but the instance stays in the map. *)
DeleteKeepsKey(i) ==
  /\ newest.rev < MaxRevision
  /\ Delete(i)
  /\ UNCHANGED table
  /\ Publish
  /\ UNCHANGED <<shifted, inserts>>

DeleteInstance(i) ==
  /\ newest.rev < MaxRevision
  /\ Delete(i)
  /\ table' = [k \in DOMAIN table |-> IF table[k] = i THEN Hole ELSE table[k]]
  /\ Publish
  /\ UNCHANGED <<shifted, inserts>>

----------------------------------------------------------------------------
(* The snapshot. *)

(* Mutated form: the revision to go on from is read after the loop. *)
ListThenNow(w, a, n, p) ==
  LET ahead == {k \in a .. Len(table) : table[k] # Hole} IN
  \/ /\ Cardinality(Existing) # n
     /\ pc' = [pc EXCEPT ![w] = "gone"]
     /\ UNCHANGED <<pos, batch, at, view>>
  \/ /\ Cardinality(Existing) = n
     /\ \E k \in ahead :
          /\ \A j \in ahead : k <= j
          /\ at' = [at EXCEPT ![w] = k + 1]
          /\ view' = [view EXCEPT ![w] = @ \cup {table[k]}]
          /\ pc' = [pc EXCEPT ![w] = "listing"]
          /\ pos' = [pos EXCEPT ![w] = p]
     /\ UNCHANGED batch
  \/ /\ Cardinality(Existing) = n
     /\ ahead = {}
     /\ B!Enter(w, revision)
     /\ UNCHANGED <<at, view>>

(* From entry a of the table, with an iterator that started with n keys, up to
   the next yield: the RuntimeError that ends the stream; or the next instance
   that is still there; or the end of the snapshot, where watch() takes over
   from revision p. An iterator that comes to more keys than it started with, as
   many gone as come, also raises ("keys changed", CPython 3.8 and later): here it
   goes on, so that there are more runs than the real ones. *)
List(w, a, n, p) ==
  LET ahead == {k \in a .. Len(table) : table[k] # Hole} IN
  \/ /\ Cardinality(Existing) # n
     /\ pc' = [pc EXCEPT ![w] = "gone"]
     /\ UNCHANGED <<pos, batch, at, view>>
  \/ /\ Cardinality(Existing) = n
     /\ \E k \in ahead :
          /\ \A j \in ahead : k <= j
          /\ at' = [at EXCEPT ![w] = k + 1]
          /\ view' = [view EXCEPT ![w] = @ \cup {table[k]}]
          /\ pc' = [pc EXCEPT ![w] = "listing"]
          /\ pos' = [pos EXCEPT ![w] = p]
     /\ UNCHANGED batch
  \/ /\ Cardinality(Existing) = n
     /\ ahead = {}
     /\ B!Enter(w, p)
     /\ UNCHANGED <<at, view>>

(* A stream without `since`: the generator's first run takes the revision to
   go on from, makes the iterator, and lists the first instance. *)
Open(w) ==
  /\ pc[w] = "off"
  /\ view[w] = {}
  /\ start' = [start EXCEPT ![w] = revision]
  /\ used' = [used EXCEPT ![w] = Cardinality(Existing)]
  /\ List(w, 1, Cardinality(Existing), revision)
  /\ UNCHANGED <<lifeVars, events, revision, notifies, published, got, table, known, shifted, inserts>>

(* The client has taken one instance of the snapshot. *)
ListNext(w) ==
  /\ Listing(w)
  /\ List(w, at[w], used[w], pos[w])
  /\ UNCHANGED <<lifeVars, events, revision, notifies, published, start, got, table, used, known,
                 shifted, inserts>>

----------------------------------------------------------------------------
(* The live stream and its client. *)

Fold(v, obj) == IF obj.type = "DELETED" THEN v \ {obj.id} ELSE v \cup {obj.id}

Deliver(w) ==
  /\ B!Yield(w)
  /\ view' = [view EXCEPT ![w] = Fold(@, Head(batch[w]).obj)]
  /\ known' = [known EXCEPT ![w] = Head(batch[w]).rev]
  /\ UNCHANGED <<lifeVars, snapshotVars, table, shifted, inserts>>

Watch(w) ==
  /\ B!Start(w) \/ B!Resume(w) \/ B!Again(w)
  /\ UNCHANGED <<lifeVars, snapshotVars, view, known, table, shifted, inserts>>

Notify ==
  /\ B!Notify
  /\ UNCHANGED <<lifeVars, snapshotVars, view, known, table, shifted, inserts>>

(* The connection is lost.  A client that has read a live event can resume
   from it; another forgets what it has listed. *)
Disconnect(w) ==
  /\ B!Disconnect(w)
  /\ at' = [at EXCEPT ![w] = 1]
  /\ used' = [used EXCEPT ![w] = 0]
  /\ view' = [view EXCEPT ![w] = IF known[w] = 0 THEN {} ELSE @]
  /\ shifted' = IF known[w] = 0 THEN shifted \ {w} ELSE shifted
  /\ UNCHANGED <<lifeVars, known, table, inserts>>

(* A client asks for what came after the last event it read ... *)
Rejoin(w) ==
  /\ known[w] # 0
  /\ B!Subscribe(w, known[w])
  /\ UNCHANGED <<lifeVars, snapshotVars, view, known, table, shifted, inserts>>

(* ... or, told 410 GONE, starts afresh. *)
Forget(w) ==
  /\ pc[w] = "off"
  /\ known[w] # 0
  /\ known' = [known EXCEPT ![w] = 0]
  /\ view' = [view EXCEPT ![w] = {}]
  /\ shifted' = shifted \ {w}
  /\ UNCHANGED <<lifeVars, events, revision, notifies, pc, pos, batch, published, start, got,
                 snapshotVars, table, inserts>>

InitStream ==
  /\ Init
  /\ B!Init
  /\ table = <<>>
  /\ at = [w \in Clients |-> 1]
  /\ used = [w \in Clients |-> 0]
  /\ view = [w \in Clients |-> {}]
  /\ known = [w \in Clients |-> 0]
  /\ shifted = {}
  /\ inserts = 0

Step(w) == ListNext(w) \/ Deliver(w) \/ Watch(w)

NextStream ==
  \/ \E i \in Ids : CreateInstance(i) \/ StartFails(i) \/ InstanceStops(i) \/ DeleteInstance(i)
  \/ Notify
  \/ \E w \in Clients : Open(w) \/ Rejoin(w) \/ Forget(w) \/ Disconnect(w) \/ Step(w)

SafetyStream == InitStream /\ [][NextStream]_vars

(* asyncio runs its ready tasks, and a client reads the stream it has opened. *)
SpecStream ==
  /\ SafetyStream
  /\ WF_vars(Notify)
  /\ \A w \in Clients : WF_vars(Step(w))

----------------------------------------------------------------------------
Connected(w) == pc[w] \notin {"off", "gone"}

(* The dict's entries are the instances that exist, each once. *)
TableMatchesEvents ==
  /\ {table[k] : k \in DOMAIN table} \ {Hole} = Existing
  /\ \A j, k \in DOMAIN table : table[j] = table[k] /\ table[j] # Hole => j = k

(* The broadcaster derives the revision of every buffered event from the length
   of its buffer and the newest revision, so it relies on the manager to
   publish every revision it takes: under the manager's stamps, whatever
   creations fail, the buffer is the end of the history, and each stream its
   exact continuation from where it started, a snapshot's included. *)
StreamsHaveNoGap == newest.rev = revision /\ B!BufferIsSuffix /\ B!NoGapNoDuplicate

(* A client that has read everything knows exactly the instances that exist,
   whatever was created, stopped and deleted between the items of its snapshot
   and however often it resumed; unless the dict was packed under its
   snapshot. *)
ClientKnowsInstances ==
  \A w \in Clients :
    pc[w] = "waiting" /\ pos[w] = revision /\ w \notin shifted => view[w] = Existing

(* A client whose stream stays open comes to know them for good once the
   events have stopped. *)
ClientConverges ==
  \A w \in Clients :
    <>[](Connected(w) /\ w \notin shifted) => <>[](view[w] = Existing)

(* The documented content of a stream without `since`: it "begins with CREATED
   events for every instance that currently exists, followed by live events".
   An instance about which nothing was published since the stream began has
   been listed when the snapshot is over. *)
Untouched(w) == {i \in Existing : \A n \in start[w] + 1 .. revision : published[n].id # i}

SnapshotIsComplete ==
  [][\A w \in Clients :
       Listing(w) /\ ~ Listing(w)' /\ pc'[w] # "off" => Untouched(w) \subseteq view'[w]]_vars
=============================================================================
