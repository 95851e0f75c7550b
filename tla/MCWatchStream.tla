---------------------------- MODULE MCWatchStream ---------------------------
(* Two instance ids, one client, a buffer of two events, and a dict as       *)
(* CPython makes it for so few keys: an entry array of five.                 *)
EXTENDS WatchStream
=============================================================================
