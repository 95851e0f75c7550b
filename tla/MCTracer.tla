------------------------------ MODULE MCTracer ------------------------------
(* Two events, signals or faults beyond what the processes do by themselves, *)
(* under a cap of one line, which every thread meets, and of four, which the *)
(* end of a process may or may not meet: a main thread, a worker and a       *)
(* forked child that exits or is signalled at any point, twice if need be.   *)
EXTENDS Tracer
=============================================================================
