--------------------------- MODULE MCMessageQueue ---------------------------
(* Instances of MessageQueue for TLC. *)
EXTENDS MessageQueue, TLC

CONSTANTS t1, t2, t3

\* One urgent caller and two of equal, lower priority.
MCPrio == t1 :> 1 @@ t2 :> 2 @@ t3 :> 2

\* Forever, not at all, and long enough to be woken in vain before it expires.
MCTimeout == {-1, 0, 2}

\* Without the calls that never wait; one tick is enough to be robbed before
\* and after it, and keeps a detach at any moment within reach.
MCWait == {-1, 1}

\* Callers are interchangeable in FIFO mode; only for runs without liveness.
Symmetry == Permutations(Thread) \union Permutations(Slot) \union Permutations(Msg)
=============================================================================
