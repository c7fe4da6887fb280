------------------------- MODULE MCIterativeExecutor -------------------------
(* Instances of IterativeExecutor for TLC. *)
EXTENDS IterativeExecutor

\* The first story by priority depends on the second one.
Reversed == [s \in Stories |-> IF s = 1 THEN {2} ELSE {}]
=============================================================================
