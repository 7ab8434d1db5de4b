------------------------------ MODULE MCEvent ------------------------------
(* An instance of Event for TLC: one urgent thread and two equal ones. *)
EXTENDS Event

CONSTANTS t1, t2, t3, a, b

MCPrio == [t \in Thread |-> IF t = t1 THEN 1 ELSE 2]

\* Both bits taken away, either taken away, one taken away, either looked at.
MCRequest ==
    { [want |-> {a, b}, all |-> TRUE, clear |-> TRUE],
      [want |-> {a, b}, all |-> FALSE, clear |-> TRUE],
      [want |-> {a}, all |-> FALSE, clear |-> TRUE],
      [want |-> {a, b}, all |-> FALSE, clear |-> FALSE] }
=============================================================================
