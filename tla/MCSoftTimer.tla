---------------------------- MODULE MCSoftTimer ----------------------------
(***************************************************************************)
(* A periodic timer and one-shot timers, often due together; 16 ticks      *)
(* before the counter wraps, so that half of it exceeds every timeout and  *)
(* the lag together.                                                       *)
(***************************************************************************)
EXTENDS SoftTimer

CONSTANTS p, o

MCInitTick == [x \in Timers |-> IF x = p THEN 2 ELSE 1]

\* Every caller starts every timer, or each timer has one starter: a thread
\* below, a callback, a thread above.
MCAny == [x \in Timers |-> Callers]
MCOne == [x \in Timers |-> IF x = p THEN {"below"} ELSE IF x = o THEN {"callback"} ELSE {"preempting"}]
============================================================================
