----------------------------- MODULE MCLogRange -----------------------------
(* A response limit of three bytes, and a log that outgrows it three times.  *)
EXTENDS LogRange
=============================================================================
