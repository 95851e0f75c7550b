---------------------------- MODULE MCBroadcaster ---------------------------
(* A small launcher for TLC: two watchers, a buffer of two events, enough   *)
(* revisions for a slow watcher to fall out of it, and resume points below, *)
(* inside and above the buffer.                                             *)
EXTENDS Broadcaster

CONSTANTS created, deleted

MCPayload == {created, deleted}
MCSince == {-1, 0, 2, 4}
=============================================================================
