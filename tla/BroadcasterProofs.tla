-------------------------- MODULE BroadcasterProofs -------------------------
(***************************************************************************)
(* Theorems about Broadcaster, for every set of watchers and payloads and  *)
(* every buffer size.  The invariants TLC checks are not inductive alone:  *)
(* what a stream has yielded stays right because of what its batch holds,  *)
(* and the batch is right because of the buffer it was cut from.           *)
(***************************************************************************)
EXTENDS Broadcaster, SequenceTheorems, TLAPS

(* Every event of a batch taken under the lock is still the published event
   that follows the cursor, however far the buffer has moved since. *)
BatchFollowsCursor ==
  \A w \in Watchers :
    /\ pc[w] # "sending" => batch[w] = <<>>
    /\ batch[w] # <<>> => Cursor(w) >= 0 /\ pos[w] <= revision
    /\ \A i \in 1 .. Len(batch[w]) :
         batch[w][i] = [rev |-> Cursor(w) + i, obj |-> published[Cursor(w) + i]]

(* What a stream has yielded was published, so later events leave it alone. *)
YieldedWasPublished ==
  \A w \in Watchers :
    /\ pc[w] \in {"off", "starting"} => got[w] = <<>>
    /\ got[w] # <<>> => start[w] >= 0 /\ start[w] + Len(got[w]) <= revision

IInv ==
  /\ TypeOK
  /\ BufferIsSuffix
  /\ BatchFollowsCursor
  /\ YieldedWasPublished
  /\ NoGapNoDuplicate

----------------------------------------------------------------------------
(* Trim keeps the newest MaxEvents elements. *)
LEMMA TrimKeepsTail ==
  ASSUME NEW S, NEW q \in Seq(S)
  PROVE  /\ Trim(q) \in Seq(S)
         /\ Len(Trim(q)) = IF Len(q) > MaxEvents THEN MaxEvents ELSE Len(q)
         /\ \A i \in 1 .. Len(Trim(q)) : Trim(q)[i] = q[Len(q) - Len(Trim(q)) + i]
<1>1. CASE Len(q) > MaxEvents
  <2> DEFINE m == Len(q) - MaxEvents + 1
  <2>1. /\ Len(q) \in Nat
        /\ m \in 1 .. Len(q)
    BY <1>1, LenProperties, MaxEventsAssumption
  <2>2. \A i \in m .. Len(q) : q[i] \in S
    BY <2>1, ElementOfSeq
  <2>3. /\ SubSeq(q, m, Len(q)) \in Seq(S)
        /\ Len(SubSeq(q, m, Len(q))) = IF m <= Len(q) THEN Len(q) - m + 1 ELSE 0
        /\ \A i \in 1 .. Len(q) - m + 1 : SubSeq(q, m, Len(q))[i] = q[m + i - 1]
    BY <2>1, <2>2, SubSeqProperties
  <2>4. Trim(q) = SubSeq(q, m, Len(q))
    BY <1>1 DEF Trim
  <2>5. Len(Trim(q)) = MaxEvents
    BY <2>1, <2>3, <2>4, MaxEventsAssumption
  <2> QED
    BY <1>1, <2>1, <2>3, <2>4, <2>5, MaxEventsAssumption
<1>2. CASE ~ (Len(q) > MaxEvents)
  BY <1>2, LenProperties DEF Trim
<1> QED
  BY <1>1, <1>2

(* _append keeps the buffer the suffix of the published events. *)
LEMMA AppendKeepsSuffix ==
  ASSUME TypeOK, BufferIsSuffix, NEW obj \in Payload,
         AppendEvent([rev |-> revision + 1, obj |-> obj]),
         published' = Append(published, obj)
  PROVE  /\ events' \in Seq(Event)
         /\ Len(events') <= MaxEvents
         /\ BufferIsSuffix'
<1> DEFINE ev == [rev |-> revision + 1, obj |-> obj]
           q  == Append(events, ev)
<1>1. /\ ev \in Event
      /\ revision' = revision + 1
      /\ events' = Trim(q)
  BY DEF TypeOK, Event, AppendEvent
<1>2. /\ q \in Seq(Event)
      /\ Len(q) = Len(events) + 1
      /\ \A i \in 1 .. Len(events) : q[i] = events[i]
      /\ q[Len(events) + 1] = ev
  BY <1>1, AppendProperties DEF TypeOK
<1>3. /\ Len(published') = Len(published) + 1
      /\ \A i \in 1 .. Len(published) : published'[i] = published[i]
      /\ published'[Len(published) + 1] = obj
  BY AppendProperties DEF TypeOK
<1>4. /\ events' \in Seq(Event)
      /\ Len(events') = IF Len(q) > MaxEvents THEN MaxEvents ELSE Len(q)
      /\ \A i \in 1 .. Len(events') : events'[i] = q[Len(q) - Len(events') + i]
  BY <1>1, <1>2, TrimKeepsTail
<1>5. /\ Len(events) \in Nat
      /\ Len(published) \in Nat
      /\ revision = Len(published)
      /\ Len(events) <= revision
      /\ Len(events) <= MaxEvents
      /\ MaxEvents \in Nat \ {0}
      /\ Len(events) < MaxEvents => Len(events) = revision
      /\ OldestRevision = revision - Len(events)
      /\ OldestRevision' = revision' - Len(events')
  BY LenProperties, MaxEventsAssumption DEF TypeOK, BufferIsSuffix, OldestRevision
<1> HIDE DEF q
<1>6. \A i \in 1 .. Len(q) :
        q[i] = [rev |-> OldestRevision + i, obj |-> published'[OldestRevision + i]]
  <2> SUFFICES ASSUME NEW i \in 1 .. Len(q)
               PROVE  q[i] = [rev |-> OldestRevision + i, obj |-> published'[OldestRevision + i]]
    OBVIOUS
  <2>1. CASE i \in 1 .. Len(events)
    <3>1. events[i] = [rev |-> OldestRevision + i, obj |-> published[OldestRevision + i]]
      BY <2>1 DEF BufferIsSuffix
    <3>2. OldestRevision + i \in 1 .. Len(published)
      BY <2>1, <1>5
    <3> QED
      BY <3>1, <3>2, <2>1, <1>2, <1>3
  <2>2. CASE i = Len(events) + 1
    BY <2>2, <1>2, <1>3, <1>5
  <2>3. i \in 1 .. Len(events) \/ i = Len(events) + 1
    <3>1. Len(q) = Len(events) + 1 /\ Len(events) \in Nat
      BY <1>2, <1>5
    <3> QED
      BY <3>1
  <2> QED
    BY <2>1, <2>2, <2>3
<1>7. \A i \in 1 .. Len(events') :
        events'[i] = [rev |-> OldestRevision' + i, obj |-> published'[OldestRevision' + i]]
  <2> SUFFICES ASSUME NEW i \in 1 .. Len(events')
               PROVE  events'[i] = [rev |-> OldestRevision' + i, obj |-> published'[OldestRevision' + i]]
    OBVIOUS
  <2> DEFINE k == Len(q) - Len(events') + i
  <2>1. /\ k \in 1 .. Len(q)
        /\ OldestRevision + k = OldestRevision' + i
    <3>1. /\ Len(q) = Len(events) + 1
          /\ Len(events) \in Nat
          /\ revision \in Nat
          /\ revision' = revision + 1
          /\ OldestRevision = revision - Len(events)
          /\ OldestRevision' = revision' - Len(events')
          /\ Len(events') \in Nat
          /\ Len(events') <= Len(q)
      <4>1. revision' = revision + 1 /\ revision \in Nat
        BY <1>1, <1>5
      <4>2. Len(q) = Len(events) + 1 /\ Len(events) \in Nat
        BY <1>2, <1>5
      <4>3. Len(events') = IF Len(q) > MaxEvents THEN MaxEvents ELSE Len(q)
        BY <1>4
      <4> QED
        BY <4>1, <4>2, <4>3, <1>5
    <3> QED
      BY <3>1
  <2>2. events'[i] = q[k]
    BY <1>4
  <2> HIDE DEF k
  <2> QED
    BY <2>1, <2>2, <1>6
<1>8. /\ revision' = Len(published')
      /\ Len(events') <= revision'
      /\ Len(events') <= MaxEvents
      /\ Len(events') < MaxEvents => Len(events') = revision'
  BY <1>1, <1>2, <1>3, <1>4, <1>5
<1> QED
  BY <1>4, <1>7, <1>8 DEF BufferIsSuffix

(* A watcher's step leaves the buffer and the log alone, and every other
   watcher too. *)
BufferUntouched == UNCHANGED <<events, revision, published>>

OthersUntouched(w) ==
  \A v \in Watchers \ {w} :
    /\ pc'[v] = pc[v]
    /\ pos'[v] = pos[v]
    /\ batch'[v] = batch[v]
    /\ start'[v] = start[v]
    /\ got'[v] = got[v]

(* A watcher's step leaves the buffer, and so BufferIsSuffix, as it was. *)
LEMMA BufferUntouchedKeepsSuffix ==
  BufferIsSuffix /\ BufferUntouched => BufferIsSuffix'
BY DEF BufferIsSuffix, BufferUntouched, OldestRevision

(* Cutting the rest of the buffer at a position the buffer still covers
   gives the published events that follow the position. *)
LEMMA CutFollowsPosition ==
  ASSUME TypeOK, BufferIsSuffix, NEW p \in Int, p < revision, p >= OldestRevision
  PROVE  LET cut == SubSeq(events, p - OldestRevision + 1, Len(events))
         IN  /\ cut \in Seq(Event)
             /\ Len(cut) = revision - p
             /\ \A i \in 1 .. Len(cut) : cut[i] = [rev |-> p + i, obj |-> published[p + i]]
<1> DEFINE m == p - OldestRevision + 1
           cut == SubSeq(events, m, Len(events))
<1>1. /\ Len(events) \in Nat
      /\ revision \in Nat
      /\ OldestRevision = revision - Len(events)
      /\ m \in 1 .. Len(events)
  BY LenProperties DEF TypeOK, OldestRevision
<1>2. \A i \in m .. Len(events) : events[i] \in Event
  BY <1>1, ElementOfSeq DEF TypeOK
<1>3. /\ cut \in Seq(Event)
      /\ Len(cut) = IF m <= Len(events) THEN Len(events) - m + 1 ELSE 0
      /\ \A i \in 1 .. Len(events) - m + 1 : cut[i] = events[m + i - 1]
  BY <1>1, <1>2, SubSeqProperties
<1> HIDE DEF cut
<1>4. Len(cut) = revision - p
  BY <1>1, <1>3
<1>5. ASSUME NEW i \in 1 .. Len(cut)
      PROVE  cut[i] = [rev |-> p + i, obj |-> published[p + i]]
  <2>1. /\ m + i - 1 \in 1 .. Len(events)
        /\ OldestRevision + (m + i - 1) = p + i
        /\ i \in 1 .. Len(events) - m + 1
    BY <1>1, <1>4
  <2>2. events[m + i - 1] = [rev |-> OldestRevision + (m + i - 1),
                             obj |-> published[OldestRevision + (m + i - 1)]]
    BY <2>1 DEF BufferIsSuffix
  <2> QED
    BY <1>3, <2>1, <2>2
<1> QED
  BY <1>3, <1>4, <1>5 DEF cut

(* The parts of the invariant that speak of one watcher. *)
WatcherInv(w) ==
  /\ pc[w] # "sending" => batch[w] = <<>>
  /\ batch[w] # <<>> => Cursor(w) >= 0 /\ pos[w] <= revision
  /\ \A i \in 1 .. Len(batch[w]) :
       batch[w][i] = [rev |-> Cursor(w) + i, obj |-> published[Cursor(w) + i]]
  /\ pc[w] \in {"off", "starting"} => got[w] = <<>>
  /\ got[w] # <<>> => start[w] >= 0 /\ start[w] + Len(got[w]) <= revision
  /\ Cursor(w) = start[w] + Len(got[w])
  /\ \A i \in 1 .. Len(got[w]) :
       got[w][i] = [rev |-> start[w] + i, obj |-> published[start[w] + i]]

(* The invariant, taken apart by watcher: a step of one leaves the others'
   part alone. *)
LEMMA IInvByWatcher ==
  IInv <=> TypeOK /\ BufferIsSuffix /\ \A w \in Watchers : WatcherInv(w)
BY DEF IInv, BatchFollowsCursor, YieldedWasPublished, NoGapNoDuplicate, WatcherInv

(* The same of the next state. *)
LEMMA IInvByWatcherNext ==
  TypeOK' /\ BufferIsSuffix' /\ (\A w \in Watchers : WatcherInv(w)') => IInv'
BY DEF IInv, BatchFollowsCursor, YieldedWasPublished, NoGapNoDuplicate, WatcherInv

(* Going round the loop from its cursor keeps a watcher's invariant. *)
LEMMA AdvanceKeepsWatcher ==
  ASSUME TypeOK, BufferIsSuffix, NEW w \in Watchers, WatcherInv(w),
         batch[w] = <<>>, Advance(w, pos[w]), BufferUntouched, UNCHANGED <<start, got>>,
         pc[w] = "starting" => pos[w] = start[w] /\ got[w] = <<>>
  PROVE  /\ pc' \in [Watchers -> Stages]
         /\ pos' \in [Watchers -> Int]
         /\ batch' \in [Watchers -> Seq(Event)]
         /\ OthersUntouched(w)
         /\ WatcherInv(w)'
<1> USE DEF BufferUntouched
<1>0. /\ pos[w] \in Int
      /\ Cursor(w) = pos[w]
      /\ got[w] \in Seq(Event)
      /\ Len(got[w]) \in Nat
      /\ start[w] \in Int
      /\ revision \in Nat
  BY LenProperties, EmptySeq DEF TypeOK, Cursor
<1>1. CASE /\ pos[w] >= revision
           /\ pc' = [pc EXCEPT ![w] = "waiting"]
           /\ pos' = [pos EXCEPT ![w] = pos[w]]
           /\ UNCHANGED batch
  <2>1. pc'[w] = "waiting" /\ pos'[w] = pos[w] /\ batch'[w] = <<>> /\ got'[w] = got[w]
    BY <1>1 DEF TypeOK
  <2>2. /\ Cursor(w)' = Cursor(w)
        /\ \A i \in 1 .. Len(batch'[w]) : FALSE
    BY <2>1, <1>0, EmptySeq DEF Cursor
  <2>3. /\ got'[w] # <<>> => start'[w] >= 0 /\ start'[w] + Len(got'[w]) <= revision'
        /\ Cursor(w)' = start'[w] + Len(got'[w])
        /\ \A i \in 1 .. Len(got'[w]) :
             got'[w][i] = [rev |-> start'[w] + i, obj |-> published'[start'[w] + i]]
    BY <2>1, <2>2, <1>0 DEF WatcherInv
  <2>4. WatcherInv(w)'
    BY <2>1, <2>2, <2>3 DEF WatcherInv
  <2> QED
    BY <1>1, <2>4, <1>0 DEF TypeOK, Stages, OthersUntouched
<1>2. CASE /\ pos[w] < revision
           /\ pos[w] < OldestRevision
           /\ pc' = [pc EXCEPT ![w] = "gone"]
           /\ UNCHANGED <<pos, batch>>
  <2>1. pc'[w] = "gone" /\ pos'[w] = pos[w] /\ batch'[w] = <<>> /\ got'[w] = got[w]
    BY <1>2 DEF TypeOK
  <2>2. /\ Cursor(w)' = Cursor(w)
        /\ \A i \in 1 .. Len(batch'[w]) : FALSE
    BY <2>1, <1>0, EmptySeq DEF Cursor
  <2>3. /\ got'[w] # <<>> => start'[w] >= 0 /\ start'[w] + Len(got'[w]) <= revision'
        /\ Cursor(w)' = start'[w] + Len(got'[w])
        /\ \A i \in 1 .. Len(got'[w]) :
             got'[w][i] = [rev |-> start'[w] + i, obj |-> published'[start'[w] + i]]
    BY <2>1, <2>2, <1>0 DEF WatcherInv
  <2>4. WatcherInv(w)'
    BY <2>1, <2>2, <2>3 DEF WatcherInv
  <2> QED
    BY <1>2, <2>4, <1>0 DEF TypeOK, Stages, OthersUntouched
<1>3. CASE /\ pos[w] < revision
           /\ pos[w] >= OldestRevision
           /\ pc' = [pc EXCEPT ![w] = "sending"]
           /\ pos' = [pos EXCEPT ![w] = revision]
           /\ batch' = [batch EXCEPT ![w] =
                SubSeq(events, pos[w] - OldestRevision + 1, Len(events))]
  <2> DEFINE cut == SubSeq(events, pos[w] - OldestRevision + 1, Len(events))
  <2>1. /\ cut \in Seq(Event)
        /\ Len(cut) = revision - pos[w]
        /\ \A i \in 1 .. Len(cut) : cut[i] = [rev |-> pos[w] + i, obj |-> published[pos[w] + i]]
    BY <1>0, <1>3, CutFollowsPosition
  <2>2. /\ pc'[w] = "sending"
        /\ pos'[w] = revision
        /\ batch'[w] = cut
    BY <1>3 DEF TypeOK
  <2> HIDE DEF cut
  <2>3. Cursor(w)' = pos[w]
    <3>1. Cursor(w)' = pos'[w] - Len(batch'[w])
      BY DEF Cursor
    <3>2. pos'[w] = revision /\ Len(batch'[w]) = revision - pos[w]
      BY <2>1, <2>2
    <3> QED
      BY <3>1, <3>2, <1>0
  <2>4. pos[w] >= 0
    <3>1. OldestRevision >= 0
      BY LenProperties, <1>0 DEF BufferIsSuffix, OldestRevision, TypeOK
    <3> QED
      BY <3>1, <1>3, <1>0 DEF OldestRevision, TypeOK
  <2>5. WatcherInv(w)'
    BY <2>1, <2>2, <2>3, <2>4, <1>0 DEF WatcherInv
  <2>6. /\ pc' \in [Watchers -> Stages]
        /\ pos' \in [Watchers -> Int]
        /\ batch' \in [Watchers -> Seq(Event)]
    BY <1>3, <2>1, <1>0, SMTT(20) DEF TypeOK, Stages, cut
  <2>7. OthersUntouched(w)
    BY <1>3 DEF OthersUntouched, TypeOK
  <2> QED
    BY <2>5, <2>6, <2>7
<1> QED
  BY <1>1, <1>2, <1>3 DEF Advance

(* Publishing changes the end of the log only: what streams hold is below it. *)
LEMMA PublishKeepsWatchers ==
  ASSUME TypeOK, BufferIsSuffix, NEW obj \in Payload, Publish(obj),
         NEW w \in Watchers, WatcherInv(w)
  PROVE  WatcherInv(w)'
<1>1. /\ pc' = pc /\ pos' = pos /\ batch' = batch /\ start' = start /\ got' = got
      /\ revision' = revision + 1
      /\ Cursor(w)' = Cursor(w)
  BY DEF Publish, AppendEvent, Cursor
<1>2. /\ revision \in Nat
      /\ revision = Len(published)
      /\ \A i \in 1 .. Len(published) : published'[i] = published[i]
  BY AppendProperties DEF TypeOK, BufferIsSuffix, Publish
<1>3. /\ Len(batch[w]) \in Nat /\ Len(got[w]) \in Nat
      /\ pos[w] \in Int /\ start[w] \in Int
      /\ Cursor(w) \in Int
      /\ pos[w] = Cursor(w) + Len(batch[w])
  BY LenProperties DEF TypeOK, Cursor
<1>4. ASSUME NEW i \in 1 .. Len(batch[w])
      PROVE  batch[w][i] = [rev |-> Cursor(w) + i, obj |-> published'[Cursor(w) + i]]
  <2>1. batch[w] # <<>>
    BY <1>4, EmptySeq, <1>3
  <2>2. Cursor(w) + i \in 1 .. Len(published)
    BY <2>1, <1>2, <1>3, SMTT(20) DEF WatcherInv
  <2> QED
    BY <2>2, <1>2 DEF WatcherInv
<1>5. ASSUME NEW i \in 1 .. Len(got[w])
      PROVE  got[w][i] = [rev |-> start[w] + i, obj |-> published'[start[w] + i]]
  <2>1. got[w] # <<>>
    BY <1>5, EmptySeq, <1>3
  <2>2. start[w] >= 0 /\ start[w] + Len(got[w]) <= revision
    BY <2>1 DEF WatcherInv
  <2>3. start[w] + i \in 1 .. Len(published)
    BY <2>2, <1>2, <1>3
  <2> QED
    BY <2>3, <1>2 DEF WatcherInv
<1>6. /\ batch[w] # <<>> => Cursor(w) >= 0 /\ pos[w] <= revision + 1
      /\ got[w] # <<>> => start[w] >= 0 /\ start[w] + Len(got[w]) <= revision + 1
  BY <1>2, <1>3 DEF WatcherInv
<1>7. /\ pc[w] # "sending" => batch[w] = <<>>
      /\ pc[w] \in {"off", "starting"} => got[w] = <<>>
      /\ Cursor(w) = start[w] + Len(got[w])
  BY DEF WatcherInv
<1> QED
  BY <1>1, <1>4, <1>5, <1>6, <1>7 DEF WatcherInv

(* Yielding moves the head of the batch to the end of what was yielded. *)
LEMMA YieldKeepsWatcher ==
  ASSUME TypeOK, NEW w \in Watchers, WatcherInv(w), Yield(w)
  PROVE  /\ batch' \in [Watchers -> Seq(Event)]
         /\ got' \in [Watchers -> Seq(Event)]
         /\ WatcherInv(w)'
<1>1. /\ pc[w] = "sending" /\ batch[w] # <<>>
      /\ batch[w] \in Seq(Event) /\ got[w] \in Seq(Event)
      /\ batch'[w] = Tail(batch[w])
      /\ got'[w] = Append(got[w], Head(batch[w]))
      /\ UNCHANGED <<pc, pos, start, published, revision>>
  BY DEF TypeOK, Yield
<1>2. /\ Head(batch[w]) \in Event
      /\ Tail(batch[w]) \in Seq(Event)
      /\ Len(Tail(batch[w])) = Len(batch[w]) - 1
      /\ \A i \in 1 .. Len(Tail(batch[w])) : Tail(batch[w])[i] = batch[w][i + 1]
  BY <1>1, HeadTailProperties
<1>3. /\ Append(got[w], Head(batch[w])) \in Seq(Event)
      /\ Len(got'[w]) = Len(got[w]) + 1
      /\ \A i \in 1 .. Len(got[w]) : got'[w][i] = got[w][i]
      /\ got'[w][Len(got[w]) + 1] = Head(batch[w])
  BY <1>1, <1>2, AppendProperties
<1>4. /\ Len(batch[w]) \in Nat \ {0}
      /\ Len(got[w]) \in Nat
      /\ pos[w] \in Int /\ start[w] \in Int /\ revision \in Nat
      /\ Cursor(w) = pos[w] - Len(batch[w])
      /\ Cursor(w)' = pos[w] - Len(batch'[w])
  BY <1>1, EmptySeq, LenProperties DEF TypeOK, Cursor
<1>5. /\ Cursor(w) >= 0
      /\ pos[w] <= revision
      /\ Cursor(w) = start[w] + Len(got[w])
      /\ Head(batch[w]) = [rev |-> Cursor(w) + 1, obj |-> published[Cursor(w) + 1]]
      /\ got[w] # <<>> => start[w] >= 0
  <2>1. Head(batch[w]) = batch[w][1] /\ 1 \in 1 .. Len(batch[w])
    BY <1>1, <1>4
  <2> QED
    BY <1>1, <2>1 DEF WatcherInv
<1>6. Cursor(w)' = Cursor(w) + 1
  <2>1. Len(batch'[w]) = Len(batch[w]) - 1
    BY <1>1, <1>2
  <2> QED
    BY <1>4, <2>1
<1>7. start[w] >= 0
  <2>1. CASE got[w] = <<>>
    BY <2>1, <1>4, <1>5, EmptySeq
  <2>2. CASE got[w] # <<>>
    BY <2>2, <1>5
  <2> QED
    BY <2>1, <2>2
<1>8. ASSUME NEW i \in 1 .. Len(batch'[w])
      PROVE  batch'[w][i] = [rev |-> Cursor(w)' + i, obj |-> published[Cursor(w)' + i]]
  <2>1. /\ i + 1 \in 1 .. Len(batch[w])
        /\ batch'[w][i] = batch[w][i + 1]
        /\ Cursor(w)' + i = Cursor(w) + (i + 1)
    <3>1. Len(batch'[w]) = Len(batch[w]) - 1 /\ Len(batch[w]) \in Nat /\ Cursor(w) \in Int
      BY <1>1, <1>2, <1>4
    <3>2. batch'[w][i] = batch[w][i + 1]
      BY <1>1, <1>2
    <3> QED
      BY <3>1, <3>2, <1>6
  <2>2. batch[w][i + 1] = [rev |-> Cursor(w) + (i + 1), obj |-> published[Cursor(w) + (i + 1)]]
    BY <2>1 DEF WatcherInv
  <2> QED
    BY <2>1, <2>2
<1>9. ASSUME NEW i \in 1 .. Len(got'[w])
      PROVE  got'[w][i] = [rev |-> start[w] + i, obj |-> published[start[w] + i]]
  <2>1. i \in 1 .. Len(got[w]) \/ i = Len(got[w]) + 1
    BY <1>3, <1>4
  <2>2. CASE i \in 1 .. Len(got[w])
    BY <2>2, <1>3 DEF WatcherInv
  <2>3. CASE i = Len(got[w]) + 1
    <3>1. Cursor(w) + 1 = start[w] + i
      BY <2>3, <1>4, <1>5
    <3>2. got'[w][i] = [rev |-> Cursor(w) + 1, obj |-> published[Cursor(w) + 1]]
      BY <2>3, <1>3, <1>5
    <3> QED
      BY <3>1, <3>2
  <2> QED
    BY <2>1, <2>2, <2>3
<1>10. /\ Cursor(w)' = start[w] + Len(got'[w])
       /\ Cursor(w)' >= 0
       /\ start[w] + Len(got'[w]) <= revision
  <2>1. /\ Len(got'[w]) = Len(got[w]) + 1
        /\ Cursor(w) = start[w] + Len(got[w])
        /\ Cursor(w) = pos[w] - Len(batch[w])
        /\ Cursor(w) >= 0
        /\ pos[w] <= revision
    BY <1>3, <1>4, <1>5
  <2>2. /\ Len(batch[w]) \in Nat \ {0}
        /\ Len(got[w]) \in Nat
        /\ pos[w] \in Int /\ start[w] \in Int /\ revision \in Nat
    BY <1>4
  <2>3. Cursor(w)' = Cursor(w) + 1
    BY <1>6
  <2> QED
    BY <2>1, <2>2, <2>3
<1>11. WatcherInv(w)'
  BY <1>1, <1>5, <1>7, <1>8, <1>9, <1>10 DEF WatcherInv
<1>12. /\ batch' \in [Watchers -> Seq(Event)]
       /\ got' \in [Watchers -> Seq(Event)]
  BY <1>2, <1>3 DEF Yield, TypeOK
<1> QED
  BY <1>11, <1>12

(* A watcher none of whose variables changed keeps its invariant. *)
LEMMA UntouchedKeepsWatcher ==
  ASSUME NEW w \in Watchers, WatcherInv(w), BufferUntouched,
         pc'[w] = pc[w] \/ (pc[w] = "waiting" /\ pc'[w] = "woken"),
         pos'[w] = pos[w], batch'[w] = batch[w], start'[w] = start[w], got'[w] = got[w]
  PROVE  WatcherInv(w)'
<1>1. /\ Cursor(w)' = Cursor(w)
      /\ revision' = revision
      /\ published' = published
  BY DEF BufferUntouched, Cursor
<1> QED
  BY <1>1 DEF WatcherInv

(* The invariant holds before the first event and the first watcher. *)
LEMMA InitEstablishesIInv == Init => IInv
<1> SUFFICES ASSUME Init PROVE IInv
  OBVIOUS
<1>1. /\ Len(events) = 0
      /\ Len(published) = 0
      /\ \A w \in Watchers : Len(batch[w]) = 0 /\ Len(got[w]) = 0
  BY EmptySeq DEF Init
<1>2. TypeOK
  BY EmptySeq, MaxEventsAssumption DEF Init, TypeOK, Stages
<1>3. BufferIsSuffix
  BY <1>1 DEF Init, BufferIsSuffix
<1>4. ASSUME NEW w \in Watchers PROVE WatcherInv(w)
  <2>1. pos[w] = 0 /\ start[w] = 0 /\ batch[w] = <<>> /\ got[w] = <<>> /\ pc[w] = "off"
    BY DEF Init
  <2>2. Cursor(w) = start[w] + Len(got[w])
    <3>1. Cursor(w) = pos[w] - Len(batch[w]) /\ Len(batch[w]) = 0 /\ Len(got[w]) = 0
      BY <1>1 DEF Cursor
    <3>2. pos[w] = 0 /\ start[w] = 0
      BY <2>1
    <3> QED
      BY <3>1, <3>2
  <2> QED
    BY <1>1, <2>1, <2>2 DEF WatcherInv
<1> QED
  BY <1>2, <1>3, <1>4, IInvByWatcher

(* The invariant is inductive: one case per action of Next. *)
LEMMA NextPreservesIInv == IInv /\ [Next]_vars => IInv'
<1> SUFFICES ASSUME IInv, [Next]_vars PROVE IInv'
  OBVIOUS
<1>0. /\ TypeOK
      /\ BufferIsSuffix
      /\ \A w \in Watchers : WatcherInv(w)
  BY IInvByWatcher
<1>1. ASSUME NEW obj \in Payload, Publish(obj) PROVE IInv'
  <2>1. /\ events' \in Seq(Event)
        /\ Len(events') <= MaxEvents
        /\ BufferIsSuffix'
    BY <1>0, <1>1, AppendKeepsSuffix DEF Publish
  <2>2. \A w \in Watchers : WatcherInv(w)'
    BY <1>0, <1>1, PublishKeepsWatchers
  <2>3. published' \in Seq(Payload)
    BY <1>0, <1>1, AppendProperties DEF Publish, TypeOK
  <2>4. TypeOK'
    BY <1>0, <1>1, <2>1, <2>3 DEF Publish, AppendEvent, TypeOK
  <2> QED
    BY <2>1, <2>2, <2>4, IInvByWatcherNext
<1>2. CASE Notify
  <2>1. BufferUntouched
    BY <1>2 DEF Notify, BufferUntouched
  <2>2. \A w \in Watchers : WatcherInv(w)'
    <3> SUFFICES ASSUME NEW w \in Watchers PROVE WatcherInv(w)'
      OBVIOUS
    <3>1. pc'[w] = pc[w] \/ (pc[w] = "waiting" /\ pc'[w] = "woken")
      BY <1>2 DEF Notify
    <3>2. pos'[w] = pos[w] /\ batch'[w] = batch[w] /\ start'[w] = start[w] /\ got'[w] = got[w]
      BY <1>2 DEF Notify
    <3> QED
      BY <1>0, <2>1, <3>1, <3>2, UntouchedKeepsWatcher
  <2>3. TypeOK'
    BY <1>0, <1>2 DEF Notify, TypeOK, Stages
  <2> QED
    BY <1>0, <2>1, <2>2, <2>3, BufferUntouchedKeepsSuffix, IInvByWatcherNext
<1>3. ASSUME NEW w \in Watchers,
             \/ \E s \in Since : Subscribe(w, s)
             \/ Start(w) \/ Resume(w) \/ Yield(w) \/ Again(w) \/ Disconnect(w)
      PROVE  IInv'
  <2> DEFINE Good == BufferUntouched /\ OthersUntouched(w) /\ WatcherInv(w)' /\ TypeOK'
  <2>0. WatcherInv(w)
    BY <1>0
  <2>1. ASSUME NEW s \in Since, Subscribe(w, s) PROVE Good
    <3>1. /\ pc[w] = "off" /\ batch[w] = <<>> /\ got[w] = <<>>
          /\ pc'[w] \in {"gone", "starting"}
          /\ pos'[w] = s /\ start'[w] = s
          /\ batch' = batch /\ got' = got
          /\ s \in Int
      BY <1>0, <2>0, <2>1, SinceAssumption DEF Subscribe, TypeOK, WatcherInv
    <3>2. Len(batch'[w]) = 0 /\ Len(got'[w]) = 0
      BY <3>1, EmptySeq
    <3>3. Cursor(w)' = start'[w] + Len(got'[w])
      <4>1. Cursor(w)' = pos'[w] - Len(batch'[w])
        BY DEF Cursor
      <4> QED
        BY <3>1, <3>2, <4>1
    <3>4. WatcherInv(w)'
      BY <3>1, <3>2, <3>3 DEF WatcherInv
    <3>5. TypeOK'
      BY <1>0, <2>1, <3>1 DEF Subscribe, TypeOK, Stages
    <3> QED
      BY <2>1, <3>4, <3>5 DEF Subscribe, BufferUntouched, OthersUntouched, TypeOK
  <2>2. ASSUME Start(w) PROVE Good
    <3>1. /\ pc[w] = "starting" /\ batch[w] = <<>> /\ got[w] = <<>>
          /\ pos[w] = start[w]
      BY <1>0, <2>0, <2>2, EmptySeq DEF Start, Enter, WatcherInv, Cursor, TypeOK
    <3>2. BufferUntouched /\ UNCHANGED <<start, got>>
      BY <2>2 DEF Start, Enter, BufferUntouched
    <3>3. CASE Advance(w, pos[w])
      <4>1. /\ pc' \in [Watchers -> Stages] /\ pos' \in [Watchers -> Int]
            /\ batch' \in [Watchers -> Seq(Event)]
            /\ OthersUntouched(w) /\ WatcherInv(w)'
        BY <1>0, <2>0, <3>1, <3>2, <3>3, AdvanceKeepsWatcher
      <4> QED
        BY <1>0, <2>2, <3>2, <4>1 DEF Start, Enter, TypeOK
    <3>4. CASE /\ pos[w] < OldestRevision
               /\ pc' = [pc EXCEPT ![w] = "gone"]
               /\ UNCHANGED <<pos, batch>>
      <4>1. /\ pc'[w] = "gone" /\ pos'[w] = pos[w] /\ batch'[w] = <<>>
            /\ got'[w] = <<>> /\ start'[w] = start[w]
        BY <1>0, <3>1, <3>2, <3>4 DEF TypeOK
      <4>2. Len(batch'[w]) = 0 /\ Len(got'[w]) = 0
        BY <4>1, EmptySeq
      <4>3. Cursor(w)' = start'[w] + Len(got'[w])
        BY <1>0, <3>1, <4>1, <4>2 DEF Cursor, TypeOK
      <4>4. WatcherInv(w)'
        BY <4>1, <4>2, <4>3 DEF WatcherInv
      <4> QED
        BY <1>0, <2>2, <3>2, <3>4, <4>4 DEF Start, Enter, TypeOK, Stages, OthersUntouched
    <3> QED
      BY <2>2, <3>3, <3>4 DEF Start, Enter
  <2>3. ASSUME Resume(w) \/ Again(w) PROVE Good
    <3>1. /\ pc[w] # "starting" /\ batch[w] = <<>>
          /\ Advance(w, pos[w])
          /\ BufferUntouched /\ UNCHANGED <<start, got, notifies>>
      BY <2>0, <2>3 DEF Resume, Again, WatcherInv, BufferUntouched
    <3>2. /\ pc' \in [Watchers -> Stages] /\ pos' \in [Watchers -> Int]
          /\ batch' \in [Watchers -> Seq(Event)]
          /\ OthersUntouched(w) /\ WatcherInv(w)'
      BY <1>0, <2>0, <3>1, AdvanceKeepsWatcher
    <3> QED
      BY <1>0, <3>1, <3>2 DEF TypeOK, BufferUntouched
  <2>4. ASSUME Yield(w) PROVE Good
    <3>1. /\ batch' \in [Watchers -> Seq(Event)]
          /\ got' \in [Watchers -> Seq(Event)]
          /\ WatcherInv(w)'
      BY <1>0, <2>0, <2>4, YieldKeepsWatcher
    <3>2. BufferUntouched /\ OthersUntouched(w)
      BY <1>0, <2>4 DEF Yield, BufferUntouched, OthersUntouched, TypeOK
    <3> QED
      BY <1>0, <2>4, <3>1, <3>2 DEF Yield, TypeOK
  <2>5. ASSUME Disconnect(w) PROVE Good
    <3>1. /\ pc'[w] = "off" /\ pos'[w] = 0 /\ batch'[w] = <<>>
          /\ start'[w] = 0 /\ got'[w] = <<>>
      BY <1>0, <2>5 DEF Disconnect, TypeOK
    <3>2. Len(batch'[w]) = 0 /\ Len(got'[w]) = 0
      BY <3>1, EmptySeq
    <3>3. Cursor(w)' = start'[w] + Len(got'[w])
      <4>1. Cursor(w)' = pos'[w] - Len(batch'[w])
        BY DEF Cursor
      <4> QED
        BY <3>1, <3>2, <4>1
    <3>4. WatcherInv(w)'
      BY <3>1, <3>2, <3>3 DEF WatcherInv
    <3>5. TypeOK'
      BY <1>0, <2>5, EmptySeq DEF Disconnect, TypeOK, Stages
    <3> QED
      BY <1>0, <2>5, <3>4, <3>5 DEF Disconnect, BufferUntouched, OthersUntouched, TypeOK
  <2>6. Good
    BY <1>3, <2>1, <2>2, <2>3, <2>4, <2>5
  <2>7. \A v \in Watchers : WatcherInv(v)'
    <3> SUFFICES ASSUME NEW v \in Watchers, v # w PROVE WatcherInv(v)'
      BY <2>6
    <3>1. pc'[v] = pc[v] /\ pos'[v] = pos[v] /\ batch'[v] = batch[v]
          /\ start'[v] = start[v] /\ got'[v] = got[v]
      BY <2>6 DEF OthersUntouched
    <3> QED
      BY <1>0, <2>6, <3>1, UntouchedKeepsWatcher
  <2> QED
    BY <1>0, <2>6, <2>7, BufferUntouchedKeepsSuffix, IInvByWatcherNext
<1>4. CASE UNCHANGED vars
  <2>1. BufferUntouched /\ UNCHANGED <<pc, pos, batch, start, got>>
    BY <1>4 DEF vars, BufferUntouched
  <2>2. \A w \in Watchers : WatcherInv(w)'
    BY <1>0, <2>1, UntouchedKeepsWatcher
  <2>3. TypeOK'
    BY <1>0, <1>4 DEF vars, TypeOK
  <2> QED
    BY <1>0, <2>1, <2>2, <2>3, BufferUntouchedKeepsSuffix, IInvByWatcherNext
<1> QED
  BY <1>1, <1>2, <1>3, <1>4 DEF Next

(* The invariant behind the results below holds in every behaviour. *)
THEOREM InductiveInvariant == Safety => []IInv
BY InitEstablishesIInv, NextPreservesIInv, PTL DEF Safety

(* The buffer is always the newest events with consecutive revisions, so that
   oldest_revision, which the code computes from the buffer's length alone,
   is always right. *)
THEOREM BufferCorrect == Safety => []BufferIsSuffix
BY InductiveInvariant, PTL DEF IInv

(* The variables have their types and the buffer respects its limit. *)
THEOREM TypeCorrect == Safety => []TypeOK
BY InductiveInvariant, PTL DEF IInv

(* No watcher ever misses, repeats or reorders an event, for any buffer size,
   any number of watchers, and any revision it asked to resume from. *)
THEOREM DeliveryCorrect == Safety => []NoGapNoDuplicate
BY InductiveInvariant, PTL DEF IInv

----------------------------------------------------------------------------
(* The broadcaster implements the log of WatchLog (the safety part: what a
   watcher may be handed and when it may be turned away). *)

(* An empty buffer without watchers maps to an empty log. *)
LEMMA InitImplementsLog == Init => Log!Init
<1> SUFFICES ASSUME Init PROVE Log!Init
  OBVIOUS
<1>1. \A w \in Watchers : pc[w] = "off" /\ Cursor(w) = 0
  <2> SUFFICES ASSUME NEW w \in Watchers PROVE pc[w] = "off" /\ Cursor(w) = 0
    OBVIOUS
  <2>1. pos[w] = 0 /\ Len(batch[w]) = 0 /\ pc[w] = "off"
    BY EmptySeq DEF Init
  <2>2. Cursor(w) = pos[w] - Len(batch[w])
    BY DEF Cursor
  <2> QED
    BY <2>1, <2>2
<1> QED
  BY <1>1 DEF Init, Log!Init

(* The two functions a watcher's state is mapped to. *)
StatusOf == [w \in Watchers |-> IF pc[w] \in {"off", "gone"} THEN pc[w] ELSE "on"]
CursorOf == [w \in Watchers |-> Cursor(w)]

(* A step of one watcher changes the two functions at that watcher only. *)
LEMMA OneWatcherMoves ==
  ASSUME NEW w \in Watchers, OthersUntouched(w)
  PROVE  /\ StatusOf' = [StatusOf EXCEPT ![w] = StatusOf'[w]]
         /\ CursorOf' = [CursorOf EXCEPT ![w] = CursorOf'[w]]
BY DEF OthersUntouched, StatusOf, CursorOf, Cursor

(* Going round watch()'s loop moves no cursor: what has been taken from the
   buffer has not been yielded. *)
LEMMA AdvanceKeepsCursor ==
  ASSUME TypeOK, BufferIsSuffix, NEW w \in Watchers, batch[w] = <<>>, Advance(w, pos[w])
  PROVE  /\ OthersUntouched(w) \/ start' # start \/ got' # got
         /\ Cursor(w)' = Cursor(w)
         /\ pc'[w] \in {"waiting", "sending"} \/ (pc'[w] = "gone" /\ pos[w] < OldestRevision)
<1>1. pos[w] \in Int /\ Len(batch[w]) = 0 /\ Cursor(w) = pos[w]
  BY EmptySeq DEF TypeOK, Cursor
<1>2. CASE /\ pc' = [pc EXCEPT ![w] = "waiting"]
           /\ pos' = [pos EXCEPT ![w] = pos[w]]
           /\ UNCHANGED batch
  BY <1>1, <1>2 DEF TypeOK, Cursor, OthersUntouched
<1>3. CASE /\ pos[w] < OldestRevision
           /\ pc' = [pc EXCEPT ![w] = "gone"]
           /\ UNCHANGED <<pos, batch>>
  BY <1>1, <1>3 DEF TypeOK, Cursor, OthersUntouched
<1>4. CASE /\ pos[w] < revision
           /\ pos[w] >= OldestRevision
           /\ pc' = [pc EXCEPT ![w] = "sending"]
           /\ pos' = [pos EXCEPT ![w] = revision]
           /\ batch' = [batch EXCEPT ![w] =
                SubSeq(events, pos[w] - OldestRevision + 1, Len(events))]
  <2>1. /\ pos'[w] = revision
        /\ batch'[w] = SubSeq(events, pos[w] - OldestRevision + 1, Len(events))
        /\ pc'[w] = "sending"
    BY <1>4 DEF TypeOK
  <2>2. Len(batch'[w]) = revision - pos[w]
    BY <1>1, <1>4, <2>1, CutFollowsPosition
  <2>3. Cursor(w)' = pos'[w] - Len(batch'[w])
    BY DEF Cursor
  <2>4. Cursor(w)' = Cursor(w)
    BY <1>1, <2>1, <2>2, <2>3 DEF TypeOK
  <2>5. OthersUntouched(w) \/ start' # start \/ got' # got
    BY <1>4 DEF TypeOK, OthersUntouched
  <2> QED
    BY <2>1, <2>4, <2>5
<1> QED
  BY <1>2, <1>3, <1>4 DEF Advance

(* Behind the buffer and behind the log by more than its length are the same. *)
LEMMA OldestIsLagging ==
  ASSUME TypeOK, BufferIsSuffix, NEW p \in Int
  PROVE  p < OldestRevision <=> (p < 0 \/ p < Len(published) - MaxEvents)
<1>1. /\ Len(events) \in Nat /\ revision \in Nat
      /\ OldestRevision = revision - Len(events)
      /\ revision = Len(published)
      /\ Len(events) <= MaxEvents
      /\ Len(events) <= revision
      /\ Len(events) < MaxEvents => Len(events) = revision
  BY LenProperties DEF TypeOK, BufferIsSuffix, OldestRevision
<1> QED
  BY <1>1, MaxEventsAssumption

(* A watcher's step that moves neither its cursor nor its status is a stutter. *)
LEMMA StutterOfLog ==
  ASSUME published' = published, StatusOf' = StatusOf, CursorOf' = CursorOf
  PROVE  UNCHANGED Log!vars
BY DEF Log!vars, StatusOf, CursorOf

(* Every step of the broadcaster is a step of the log or a stutter. *)
LEMMA StepImplementsLog ==
  ASSUME IInv, [Next]_vars
  PROVE  [Log!Next]_(Log!vars)
<1>0. /\ TypeOK
      /\ BufferIsSuffix
      /\ \A w \in Watchers : WatcherInv(w)
  BY IInvByWatcher
<1>1. ASSUME NEW obj \in Payload, Publish(obj) PROVE Log!Next
  <2>1. UNCHANGED <<pc, pos, batch>> /\ published' = Append(published, obj)
    BY <1>1 DEF Publish
  <2>2. StatusOf' = StatusOf /\ CursorOf' = CursorOf
    BY <2>1 DEF StatusOf, CursorOf, Cursor
  <2>3. Log!Publish(obj)
    BY <2>1, <2>2 DEF Log!Publish, StatusOf, CursorOf
  <2> QED
    BY <2>3 DEF Log!Next
<1>2. CASE Notify
  <2>1. UNCHANGED <<pos, batch, published>>
    BY <1>2 DEF Notify
  <2>2. StatusOf' = StatusOf /\ CursorOf' = CursorOf
    BY <1>2, <2>1 DEF Notify, StatusOf, CursorOf, Cursor
  <2> QED
    BY <2>1, <2>2, StutterOfLog
<1>3. ASSUME NEW w \in Watchers, NEW s \in Since, Subscribe(w, s) PROVE Log!Next
  <2>1. /\ pc[w] = "off" /\ batch[w] = <<>>
        /\ pos'[w] = s /\ batch' = batch /\ published' = published
        /\ pc'[w] = IF s < OldestRevision THEN "gone" ELSE "starting"
        /\ s \in Int
    BY <1>0, <1>3, SinceAssumption DEF Subscribe, TypeOK, WatcherInv
  <2>2. OthersUntouched(w)
    BY <1>0, <1>3 DEF Subscribe, OthersUntouched, TypeOK
  <2>3. StatusOf[w] = "off"
    BY <2>1 DEF StatusOf
  <2>4. CursorOf'[w] = s
    <3>1. CursorOf'[w] = pos'[w] - Len(batch'[w])
      BY DEF CursorOf, Cursor
    <3>2. Len(batch'[w]) = 0
      BY <2>1, EmptySeq
    <3> QED
      BY <2>1, <3>1, <3>2
  <2>5. CursorOf' = [CursorOf EXCEPT ![w] = s]
    BY <2>2, <2>4, OneWatcherMoves
  <2>6. CASE s < OldestRevision
    <3>1. StatusOf'[w] = "gone"
      BY <2>1, <2>6 DEF StatusOf
    <3>2. StatusOf' = [StatusOf EXCEPT ![w] = "gone"]
      BY <2>2, <3>1, OneWatcherMoves
    <3>3. Log!Lagging(s)
      BY <1>0, <2>1, <2>6, OldestIsLagging DEF Log!Lagging
    <3>4. Log!Refuse(w, s)
      BY <2>1, <2>3, <2>5, <3>2, <3>3 DEF Log!Refuse, StatusOf, CursorOf
    <3> QED
      BY <3>4 DEF Log!Next
  <2>7. CASE ~ (s < OldestRevision)
    <3>1. StatusOf'[w] = "on"
      BY <2>1, <2>7 DEF StatusOf
    <3>2. StatusOf' = [StatusOf EXCEPT ![w] = "on"]
      BY <2>2, <3>1, OneWatcherMoves
    <3>3. ~ Log!Lagging(s)
      BY <1>0, <2>1, <2>7, OldestIsLagging DEF Log!Lagging
    <3>4. Log!Connect(w, s)
      BY <2>1, <2>3, <2>5, <3>2, <3>3 DEF Log!Connect, StatusOf, CursorOf
    <3> QED
      BY <3>4 DEF Log!Next
  <2> QED
    BY <2>6, <2>7
<1>4. ASSUME NEW w \in Watchers, Start(w) \/ Resume(w) \/ Again(w)
      PROVE  [Log!Next]_(Log!vars)
  <2>1. /\ pc[w] \in {"starting", "woken", "sending"}
        /\ batch[w] = <<>>
        /\ published' = published /\ start' = start /\ got' = got
    BY <1>0, <1>4 DEF Start, Enter, Resume, Again, WatcherInv
  <2>2. /\ StatusOf[w] = "on"
        /\ pos[w] \in Int
        /\ Cursor(w) = pos[w]
    <3>1. Cursor(w) = pos[w] - Len(batch[w]) /\ Len(batch[w]) = 0
      BY <2>1, EmptySeq DEF Cursor
    <3> QED
      BY <1>0, <2>1, <3>1 DEF StatusOf, TypeOK
  <2>3. \/ Advance(w, pos[w])
        \/ /\ pos[w] < OldestRevision
           /\ pc' = [pc EXCEPT ![w] = "gone"]
           /\ UNCHANGED <<pos, batch>>
    BY <1>4 DEF Start, Enter, Resume, Again
  <2>4. /\ OthersUntouched(w)
        /\ Cursor(w)' = Cursor(w)
        /\ pc'[w] \in {"waiting", "sending"} \/ (pc'[w] = "gone" /\ pos[w] < OldestRevision)
    <3>1. CASE Advance(w, pos[w])
      BY <1>0, <2>1, <3>1, AdvanceKeepsCursor
    <3>2. CASE /\ pos[w] < OldestRevision
               /\ pc' = [pc EXCEPT ![w] = "gone"]
               /\ UNCHANGED <<pos, batch>>
      BY <1>0, <2>1, <3>2 DEF TypeOK, Cursor, OthersUntouched
    <3> QED
      BY <2>3, <3>1, <3>2
  <2>5. CursorOf' = CursorOf
    BY <2>4 DEF OthersUntouched, CursorOf, Cursor
  <2>6. CASE pc'[w] \in {"waiting", "sending"}
    <3>1. StatusOf' = StatusOf
      BY <2>1, <2>4, <2>6 DEF StatusOf, OthersUntouched
    <3> QED
      BY <2>1, <2>5, <3>1, StutterOfLog
  <2>7. CASE pc'[w] = "gone" /\ pos[w] < OldestRevision
    <3>1. StatusOf'[w] = "gone"
      BY <2>7 DEF StatusOf
    <3>2. StatusOf' = [StatusOf EXCEPT ![w] = "gone"]
      BY <2>4, <3>1, OneWatcherMoves
    <3>3. Log!Lagging(CursorOf[w])
      BY <1>0, <2>2, <2>7, OldestIsLagging DEF Log!Lagging, CursorOf
    <3>4. Log!Expire(w)
      BY <2>1, <2>2, <2>5, <3>2, <3>3 DEF Log!Expire, StatusOf, CursorOf
    <3> QED
      BY <3>4 DEF Log!Next
  <2> QED
    BY <2>4, <2>6, <2>7
<1>5. ASSUME NEW w \in Watchers, Yield(w) PROVE Log!Next
  <2>1. /\ pc[w] = "sending" /\ batch[w] # <<>> /\ batch[w] \in Seq(Event)
        /\ batch'[w] = Tail(batch[w])
        /\ pc' = pc /\ pos' = pos /\ published' = published
    BY <1>0, <1>5 DEF Yield, TypeOK
  <2>2. OthersUntouched(w)
    BY <1>0, <1>5 DEF Yield, OthersUntouched, TypeOK
  <2>3. Len(batch'[w]) = Len(batch[w]) - 1 /\ Len(batch[w]) \in Nat \ {0}
    BY <2>1, HeadTailProperties, EmptySeq
  <2>4. /\ CursorOf[w] = pos[w] - Len(batch[w])
        /\ CursorOf'[w] = pos[w] - Len(batch'[w])
    BY <2>1 DEF CursorOf, Cursor
  <2>5. pos[w] \in Int /\ pos[w] <= revision /\ revision \in Nat /\ revision = Len(published)
    BY <1>0, <2>1 DEF WatcherInv, TypeOK, BufferIsSuffix
  <2>6. CursorOf[w] < Len(published) /\ CursorOf'[w] = CursorOf[w] + 1
    BY <2>3, <2>4, <2>5
  <2>7. CursorOf' = [CursorOf EXCEPT ![w] = CursorOf[w] + 1]
    BY <2>2, <2>6, OneWatcherMoves
  <2>8. StatusOf' = StatusOf /\ StatusOf[w] = "on"
    BY <2>1 DEF StatusOf
  <2>9. Log!Deliver(w)
    BY <2>1, <2>6, <2>7, <2>8 DEF Log!Deliver, StatusOf, CursorOf
  <2> QED
    BY <2>9 DEF Log!Next
<1>6. ASSUME NEW w \in Watchers, Disconnect(w) PROVE Log!Next
  <2>1. /\ pc[w] # "off" /\ pc[w] \in Stages
        /\ pc'[w] = "off" /\ pos'[w] = 0 /\ batch'[w] = <<>> /\ published' = published
    BY <1>0, <1>6 DEF Disconnect, TypeOK
  <2>2. OthersUntouched(w)
    BY <1>0, <1>6 DEF Disconnect, OthersUntouched, TypeOK
  <2>3. CursorOf'[w] = 0
    <3>1. CursorOf'[w] = pos'[w] - Len(batch'[w]) /\ Len(batch'[w]) = 0
      BY <2>1, EmptySeq DEF CursorOf, Cursor
    <3>2. pos'[w] = 0
      BY <2>1
    <3> QED
      BY <3>1, <3>2
  <2>4. StatusOf'[w] = "off" /\ StatusOf[w] # "off"
    BY <2>1 DEF StatusOf
  <2>5. /\ StatusOf' = [StatusOf EXCEPT ![w] = "off"]
        /\ CursorOf' = [CursorOf EXCEPT ![w] = 0]
    BY <2>2, <2>3, <2>4, OneWatcherMoves
  <2>6. Log!Leave(w)
    BY <2>1, <2>4, <2>5 DEF Log!Leave, StatusOf, CursorOf
  <2> QED
    BY <2>6 DEF Log!Next
<1>7. CASE UNCHANGED vars
  <2>1. UNCHANGED <<pc, pos, batch, published>>
    BY <1>7 DEF vars
  <2>2. StatusOf' = StatusOf /\ CursorOf' = CursorOf
    BY <2>1 DEF StatusOf, CursorOf, Cursor
  <2> QED
    BY <2>1, <2>2, StutterOfLog
<1> QED
  BY <1>1, <1>2, <1>3, <1>4, <1>5, <1>6, <1>7 DEF Next

(* The broadcaster with its bounded buffer, its batches and its condition
   variable implements the log: watchers see the published events in order
   from the revision they named, and are turned away only when the next event
   has left the buffer. *)
THEOREM ImplementsLogSafety == Safety => Log!Safety
<1>1. IInv /\ [Next]_vars => [Log!Next]_(Log!vars)
  BY StepImplementsLog
<1> QED
  BY <1>1, InitImplementsLog, InductiveInvariant, PTL DEF Safety, Log!Safety
=============================================================================
