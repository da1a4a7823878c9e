----------------------------- MODULE MCThreads -----------------------------
(* The blocking primitives with three threads, one of a higher priority,   *)
(* and the killer.                                                         *)
EXTENDS Threads

CONSTANTS t1, t2, t3

MCPrio == [t \in Thread \cup {Killer} |-> IF t = t2 THEN 2 ELSE 1]
=============================================================================
