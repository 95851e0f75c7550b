------------------------------ MODULE WatchLog ------------------------------
(***************************************************************************)
(* What the launcher's event broadcaster promises to a watcher, with no    *)
(* buffer, no condition variable and no batches: one log that only grows,  *)
(* and for every watcher a cursor that moves over it one event at a time,  *)
(* in order, from the revision the watcher named.  A watcher may be turned *)
(* away only when the next event it needs is more than Retained events     *)
(* behind the end of the log.                                              *)
(***************************************************************************)
EXTENDS Integers, Sequences

CONSTANTS
  Watchers,   \* the clients of the watch endpoint
  Payload,    \* what an event says, abstracted
  Since,      \* the revisions a client may ask to resume from
  Retained    \* how many events the log is bound to keep available

VARIABLES
  log,        \* every event ever published; the n-th has revision n
  status,     \* per watcher: off (not connected), on, or gone (turned away)
  cursor      \* per watcher: the revision of the last event it was handed

vars == <<log, status, cursor>>

(* The events after position p are no longer all available, or p is no
   revision at all (a client may send a negative one). *)
Lagging(p) == p < 0 \/ p < Len(log) - Retained

Init ==
  /\ log = <<>>
  /\ status = [w \in Watchers |-> "off"]
  /\ cursor = [w \in Watchers |-> 0]

Publish(obj) ==
  /\ log' = Append(log, obj)
  /\ UNCHANGED <<status, cursor>>

Connect(w, s) ==
  /\ status[w] = "off"
  /\ status' = [status EXCEPT ![w] = "on"]
  /\ cursor' = [cursor EXCEPT ![w] = s]
  /\ ~ Lagging(s)
  /\ UNCHANGED log

Refuse(w, s) ==
  /\ status[w] = "off"
  /\ Lagging(s)
  /\ status' = [status EXCEPT ![w] = "gone"]
  /\ cursor' = [cursor EXCEPT ![w] = s]
  /\ UNCHANGED log

Deliver(w) ==
  /\ status[w] = "on"
  /\ cursor[w] < Len(log)
  /\ cursor' = [cursor EXCEPT ![w] = @ + 1]
  /\ UNCHANGED <<log, status>>

Expire(w) ==
  /\ status[w] = "on"
  /\ Lagging(cursor[w])
  /\ status' = [status EXCEPT ![w] = "gone"]
  /\ UNCHANGED <<log, cursor>>

Leave(w) ==
  /\ status[w] # "off"
  /\ status' = [status EXCEPT ![w] = "off"]
  /\ cursor' = [cursor EXCEPT ![w] = 0]
  /\ UNCHANGED log

Next ==
  \/ \E obj \in Payload : Publish(obj)
  \/ \E w \in Watchers :
       \/ \E s \in Since : Connect(w, s) \/ Refuse(w, s)
       \/ Deliver(w)
       \/ Expire(w)
       \/ Leave(w)

(* A connected watcher that has not seen everything is handed the next     *)
(* event or is turned away; it never waits for ever.                       *)
Fairness == \A w \in Watchers : WF_vars(Deliver(w) \/ Expire(w))

Safety == Init /\ [][Next]_vars

Spec == Safety /\ Fairness
=============================================================================
