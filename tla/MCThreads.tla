----------------------------- MODULE MCThreads -----------------------------
(* Instances of Threads for TLC: an urgent thread and two equal ones. *)
EXTENDS Threads

CONSTANTS urgent, left, right

MCPrio == [t \in All |-> CASE t = Idle -> 3 [] t = urgent -> 1 [] OTHER -> 2]
MCSlice == [t \in All |-> IF t = right THEN 2 ELSE 1]
=============================================================================
