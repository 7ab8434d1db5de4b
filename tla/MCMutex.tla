------------------------------ MODULE MCMutex ------------------------------
(***************************************************************************)
(* Threads of three priorities.  Two mutexes and three threads for what    *)
(* holds of nested takes too; one mutex and two threads of one priority    *)
(* for what inheritance promises; one mutex of flag FIFO or two mutexes    *)
(* where the code breaks it.                                               *)
(***************************************************************************)
EXTENDS Mutex

CONSTANTS high, middle, low

MCBase == [t \in Threads |-> CASE t = high -> 1 [] t = middle -> 2 [] OTHER -> 3]
============================================================================
