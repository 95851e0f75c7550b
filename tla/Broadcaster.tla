----------------------------- MODULE Broadcaster ----------------------------
(***************************************************************************)
(* EventBroadcaster of scripts/launcher/launcher.py: a bounded buffer of   *)
(* instance lifecycle events and the watch() coroutines that read it, one  *)
(* per connected client.                                                   *)
(*                                                                         *)
(* Everything runs on one asyncio loop, so a step of a coroutine is        *)
(* everything it does up to its next suspension.  The condition's lock is  *)
(* never held across a suspension (watch suspends under it only in         *)
(* wait(), which releases it, and _notify does not suspend under it), so   *)
(* acquiring it never blocks and the lock itself needs no variable: what   *)
(* is left of the condition is the set of coroutines parked in wait().     *)
(* _append runs synchronously inside a manager call; the wake-up is a task *)
(* created after it, so any number of coroutine steps may come between.    *)
(***************************************************************************)
EXTENDS Integers, Sequences

CONSTANTS
  Watchers,    \* clients of GET /v2/vllm/instances/watch
  Payload,     \* event bodies (type and object of a WatchEvent), abstracted
  Since,       \* values of the query parameter `since`
  MaxEvents,   \* _MAX_BROADCASTER_EVENTS
  MaxRevision  \* bound of the model: how many events are ever published

ASSUME MaxEventsAssumption == MaxEvents \in Nat \ {0}
ASSUME MaxRevisionAssumption == MaxRevision \in Nat
ASSUME SinceAssumption == Since \subseteq Int

VARIABLES
  events,      \* _events, the buffer: a sequence of stamped events
  revision,    \* _revision, that of the newest event
  notifies,    \* _notify tasks created and not yet run
  pc,          \* per watcher: where its coroutine stands
  pos,         \* per watcher: the cursor `pos` (`since_revision` before watch starts)
  batch,       \* per watcher: the rest of `new_events`, taken but not yet yielded
  published,   \* history: the body of every event, by revision
  start,       \* history, per watcher: the revision it asked to resume from
  got          \* history, per watcher: the events its stream has yielded

bufferVars == <<events, revision, notifies>>
watchVars == <<pc, pos, batch>>
vars == <<events, revision, notifies, pc, pos, batch, published, start, got>>

Event == [rev : Nat, obj : Payload]

(* off: no stream; starting: the response exists, its generator has not run;
   waiting: in wait(); woken: notified, not yet resumed; sending: at a yield;
   gone: 410 or the end of the stream after RevisionTooOld. *)
Stages == {"off", "starting", "waiting", "woken", "sending", "gone"}

----------------------------------------------------------------------------
(* The buffer. *)

(* An off-by-one reading of "exclusive lower bound". *)
OldestInclusive == revision - Len(events) + 1

(* oldest_revision: every buffered event has a revision above it. *)
OldestRevision == revision - Len(events)

(* Mutated forms: the buffer is cut at the wrong end, or never. *)
TrimKeepsHead(q) == IF Len(q) > MaxEvents THEN SubSeq(q, 1, MaxEvents) ELSE q
TrimNever(q) == q

(* Keep the last MaxEvents events. *)
Trim(q) == IF Len(q) > MaxEvents THEN SubSeq(q, Len(q) - MaxEvents + 1, Len(q)) ELSE q

(* _append, with the _notify task its callers create right after it. *)
AppendEvent(ev) ==
  /\ revision' = ev.rev
  /\ events' = Trim(Append(events, ev))
  /\ notifies' = notifies + 1

(* A manager call publishes the next event; the manager stamps revisions.
   MaxRevision bounds how many times. *)
Publish(obj) ==
  /\ revision < MaxRevision
  /\ AppendEvent([rev |-> revision + 1, obj |-> obj])
  /\ published' = Append(published, obj)
  /\ UNCHANGED <<pc, pos, batch, start, got>>

(* Mutated form: notify() for notify_all(). *)
NotifyOne ==
  /\ notifies > 0
  /\ notifies' = notifies - 1
  /\ IF \E w \in Watchers : pc[w] = "waiting"
       THEN \E w \in Watchers : pc[w] = "waiting" /\ pc' = [pc EXCEPT ![w] = "woken"]
       ELSE UNCHANGED pc
  /\ UNCHANGED <<events, revision, pos, batch, published, start, got>>

(* A _notify task runs: every coroutine in wait() becomes runnable. *)
Notify ==
  /\ notifies > 0
  /\ notifies' = notifies - 1
  /\ pc' = [w \in Watchers |-> IF pc[w] = "waiting" THEN "woken" ELSE pc[w]]
  /\ UNCHANGED <<events, revision, pos, batch, published, start, got>>

----------------------------------------------------------------------------
(* A watcher. *)

(* Mutated form: the cursor is moved by the length of the batch counted from
   the buffer's start, and the re-check of the buffer's end after wait() is
   dropped. *)
AdvanceUnchecked(w, p) ==
  \/ /\ p >= revision
     /\ pc' = [pc EXCEPT ![w] = "waiting"]
     /\ pos' = [pos EXCEPT ![w] = p]
     /\ UNCHANGED batch
  \/ /\ p < revision
     /\ pc' = [pc EXCEPT ![w] = "sending"]
     /\ pos' = [pos EXCEPT ![w] = revision]
     /\ batch' = [batch EXCEPT ![w] =
          SubSeq(events, IF p < OldestRevision THEN 1 ELSE p - OldestRevision + 1, Len(events))]

(* The body of watch()'s loop, from position p: wait when there is nothing
   newer, give up when the next event has left the buffer, else take the
   rest of the buffer and start yielding it. *)
Advance(w, p) ==
  \/ /\ p >= revision
     /\ pc' = [pc EXCEPT ![w] = "waiting"]
     /\ pos' = [pos EXCEPT ![w] = p]
     /\ UNCHANGED batch
  \/ /\ p < revision
     /\ p < OldestRevision
     /\ pc' = [pc EXCEPT ![w] = "gone"]
     /\ UNCHANGED <<pos, batch>>
  \/ /\ p < revision
     /\ p >= OldestRevision
     /\ pc' = [pc EXCEPT ![w] = "sending"]
     /\ pos' = [pos EXCEPT ![w] = revision]
     /\ batch' = [batch EXCEPT ![w] = SubSeq(events, p - OldestRevision + 1, Len(events))]

(* watch_instances with `since`: 410 GONE, or a response whose generator
   runs later. *)
Subscribe(w, s) ==
  /\ pc[w] = "off"
  /\ pc' = [pc EXCEPT ![w] = IF s < OldestRevision THEN "gone" ELSE "starting"]
  /\ pos' = [pos EXCEPT ![w] = s]
  /\ start' = [start EXCEPT ![w] = s]
  /\ UNCHANGED <<events, revision, notifies, batch, published, got>>

(* watch() begins at position p: it repeats the check, since events may have
   left the buffer meanwhile, and enters its loop. *)
Enter(w, p) ==
  \/ /\ p < OldestRevision
     /\ pc' = [pc EXCEPT ![w] = "gone"]
     /\ UNCHANGED <<pos, batch>>
  \/ /\ p >= OldestRevision
     /\ Advance(w, p)

(* The generator of a stream with `since` runs for the first time. *)
Start(w) ==
  /\ pc[w] = "starting"
  /\ Enter(w, pos[w])
  /\ UNCHANGED <<events, revision, notifies, published, start, got>>

(* A notified coroutine resumes in wait() and tests the loop's condition. *)
Resume(w) ==
  /\ pc[w] = "woken"
  /\ Advance(w, pos[w])
  /\ UNCHANGED <<events, revision, notifies, published, start, got>>

(* One event is sent to the client, outside the lock. *)
Yield(w) ==
  /\ pc[w] = "sending"
  /\ batch[w] # <<>>
  /\ got' = [got EXCEPT ![w] = Append(@, Head(batch[w]))]
  /\ batch' = [batch EXCEPT ![w] = Tail(@)]
  /\ UNCHANGED <<events, revision, notifies, pc, pos, published, start>>

(* The client has taken the last event of the batch: round the loop again. *)
Again(w) ==
  /\ pc[w] = "sending"
  /\ batch[w] = <<>>
  /\ Advance(w, pos[w])
  /\ UNCHANGED <<events, revision, notifies, published, start, got>>

(* The client closes the connection (or has read the refusal); the stream's
   task is cancelled wherever it stands. *)
Disconnect(w) ==
  /\ pc[w] # "off"
  /\ pc' = [pc EXCEPT ![w] = "off"]
  /\ pos' = [pos EXCEPT ![w] = 0]
  /\ batch' = [batch EXCEPT ![w] = <<>>]
  /\ start' = [start EXCEPT ![w] = 0]
  /\ got' = [got EXCEPT ![w] = <<>>]
  /\ UNCHANGED <<events, revision, notifies, published>>

Init ==
  /\ events = <<>>
  /\ revision = 0
  /\ notifies = 0
  /\ pc = [w \in Watchers |-> "off"]
  /\ pos = [w \in Watchers |-> 0]
  /\ batch = [w \in Watchers |-> <<>>]
  /\ published = <<>>
  /\ start = [w \in Watchers |-> 0]
  /\ got = [w \in Watchers |-> <<>>]

Next ==
  \/ \E obj \in Payload : Publish(obj)
  \/ Notify
  \/ \E w \in Watchers :
       \/ \E s \in Since : Subscribe(w, s)
       \/ Start(w)
       \/ Resume(w)
       \/ Yield(w)
       \/ Again(w)
       \/ Disconnect(w)

Step(w) == Start(w) \/ Resume(w) \/ Yield(w) \/ Again(w)

Safety == Init /\ [][Next]_vars

(* asyncio runs every ready task: the _notify tasks and each stream's
   coroutine.  That a yield returns is the client reading its stream. *)
Spec ==
  /\ Safety
  /\ WF_vars(Notify)
  /\ \A w \in Watchers : WF_vars(Step(w))

----------------------------------------------------------------------------
(* The revision of the last event the watcher's stream has yielded. *)
Cursor(w) == pos[w] - Len(batch[w])

Connected(w) == pc[w] \notin {"off", "gone"}

(* The variables have their types, and the buffer never outgrows its limit. *)
TypeOK ==
  /\ revision \in Nat
  /\ notifies \in Nat
  /\ events \in Seq(Event)
  /\ Len(events) <= MaxEvents
  /\ pc \in [Watchers -> Stages]
  /\ pos \in [Watchers -> Int]
  /\ batch \in [Watchers -> Seq(Event)]
  /\ published \in Seq(Payload)
  /\ start \in [Watchers -> Int]
  /\ got \in [Watchers -> Seq(Event)]

(* oldest_revision is computed from a length, so it is right only while the
   buffer holds exactly the newest events with consecutive revisions: the
   event at index i is the one published with revision oldest + i. *)
BufferIsSuffix ==
  /\ revision = Len(published)
  /\ Len(events) <= revision
  /\ Len(events) < MaxEvents => Len(events) = revision
  /\ \A i \in 1 .. Len(events) :
       events[i] = [rev |-> OldestRevision + i, obj |-> published[OldestRevision + i]]

(* A stream that resumed from revision s has yielded exactly the events
   s+1, s+2, ... so far, each once, in order, with the body they were
   published with; nothing is skipped while the batch is sent outside the
   lock and the buffer moves on. *)
NoGapNoDuplicate ==
  \A w \in Watchers :
    /\ Cursor(w) = start[w] + Len(got[w])
    /\ \A i \in 1 .. Len(got[w]) :
         got[w][i] = [rev |-> start[w] + i, obj |-> published[start[w] + i]]

(* No wake-up is lost although _append does not notify by itself: an event a
   connected watcher has not been handed is eventually yielded to it, unless
   its stream ends first. *)
EveryEventReachesEveryWatcher ==
  \A w \in Watchers : \A n \in 1 .. MaxRevision :
    (Connected(w) /\ Cursor(w) < n /\ n <= revision)
      ~> (Cursor(w) >= n \/ ~ Connected(w))

(* The broadcaster implements the log it stands for: watchers see it in
   order, and are turned away only when they lag behind the buffer. *)
Log == INSTANCE WatchLog WITH
  Retained <- MaxEvents,
  log <- published,
  status <- [w \in Watchers |-> IF pc[w] \in {"off", "gone"} THEN pc[w] ELSE "on"],
  cursor <- [w \in Watchers |-> Cursor(w)]

ImplementsWatchLog == Log!Spec
=============================================================================
