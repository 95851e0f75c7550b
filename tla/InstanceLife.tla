---------------------------- MODULE InstanceLife ----------------------------
(***************************************************************************)
(* What VllmMultiProcessManager promises to those who read its events: the *)
(* events of an id tell its life in order, are numbered without gaps over  *)
(* all ids, and the instances that exist are those whose last event does   *)
(* not say DELETED.  Processes, signals and the asyncio loop are left out; *)
(* Launcher implements this module, WatchStream builds on it.              *)
(***************************************************************************)
EXTENDS Integers

CONSTANT Ids  \* instance ids

VARIABLES
  last,   \* per id: the type of its last event, or none
  newest  \* the newest event of all: its revision, type and id

lifeVars == <<last, newest>>

NoEvent == [rev |-> 0]

(* An event of id i, with the next revision. *)
Announce(type, i) ==
  /\ last' = [last EXCEPT ![i] = type]
  /\ newest' = [rev |-> newest.rev + 1, type |-> type, id |-> i]

(* An id is used, for the first time or again. *)
Create(i) == last[i] \in {"none", "DELETED"} /\ Announce("CREATED", i)

(* Its process is found to have ended. *)
End(i) == last[i] = "CREATED" /\ Announce("STOPPED", i)

(* It is deleted, whether its end was found or not. *)
Delete(i) == last[i] \in {"CREATED", "STOPPED"} /\ Announce("DELETED", i)

Init ==
  /\ last = [i \in Ids |-> "none"]
  /\ newest = NoEvent

Next == \E i \in Ids : Create(i) \/ End(i) \/ Delete(i)

Spec == Init /\ [][Next]_lifeVars

(* The instances that exist. *)
Existing == {i \in Ids : last[i] \in {"CREATED", "STOPPED"}}
=============================================================================
