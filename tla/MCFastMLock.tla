---------------------------- MODULE MCFastMLock ----------------------------
(* Two tasks, one on each processor.                                       *)
EXTENDS FastMLock

CONSTANTS t1, t2

OneEach == [t \in Task |-> IF t = t1 THEN {0} ELSE {1}]
=============================================================================
