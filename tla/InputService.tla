---------------------------- MODULE InputService ----------------------------
(***************************************************************************)
(* What the console promises to those who read it: the characters that     *)
(* came and were not read yet, in the order they came, and of too many the *)
(* latest.  A read returns what is there, at least one character and no    *)
(* more than asked for.                                                    *)
(***************************************************************************)
EXTENDS Integers, Sequences

CONSTANTS Reader, Char, Capacity, MaxCount

VARIABLES
    queue,       \* characters not read yet
    want,        \* how many a reader asked for; 0: it is in no call
    got          \* what its call has read, or its last call returned

vars == <<queue, want, got>>

Init ==
    /\ queue = <<>>
    /\ want = [r \in Reader |-> 0]
    /\ got = [r \in Reader |-> <<>>]

Arrive(ch) ==
    /\ queue' = Append(IF Len(queue) = Capacity THEN Tail(queue) ELSE queue, ch)
    /\ UNCHANGED <<want, got>>

Call(r, n) ==
    /\ want[r] = 0
    /\ want' = [want EXCEPT ![r] = n]
    /\ got' = [got EXCEPT ![r] = <<>>]
    /\ UNCHANGED queue

Read(r) ==
    /\ Len(got[r]) < want[r] /\ queue # <<>>
    /\ got' = [got EXCEPT ![r] = Append(@, Head(queue))]
    /\ queue' = Tail(queue)
    /\ UNCHANGED want

Return(r) ==
    /\ want[r] # 0 /\ got[r] # <<>>
    /\ queue = <<>> \/ Len(got[r]) = want[r]
    /\ want' = [want EXCEPT ![r] = 0]
    /\ UNCHANGED <<queue, got>>

Flush == queue' = <<>> /\ UNCHANGED <<want, got>>

Next ==
    \/ \E ch \in Char : Arrive(ch)
    \/ \E r \in Reader : Read(r) \/ Return(r) \/ \E n \in 1..MaxCount : Call(r, n)
    \/ Flush

Spec == Init /\ [][Next]_vars
=============================================================================
