------------------------------ MODULE Console ------------------------------
(***************************************************************************)
(* The console's input: the interrupt that puts characters into the ring   *)
(* of the serial device (rt_hw_serial_isr in serial.c), the read of the    *)
(* device file that takes them out (serial_fops_read, _serial_int_rx), and *)
(* the wait queue of the device (waitqueue.c) between the two.  getchar of *)
(* the shell ends up here: the build has RT_USING_POSIX.                   *)
(*                                                                         *)
(* An action of a reader is a region with interrupts disabled.  The        *)
(* interrupt handler is above all readers: while it runs none of them      *)
(* moves.  Which characters come, and when, is up to the line.             *)
(***************************************************************************)
EXTENDS Integers, Sequences

CONSTANTS
    Reader,      \* the threads that read the device: the shell
    Char,        \* what the line brings
    Nul,         \* what the ring is cleared with
    Size,        \* bufsz, RT_SERIAL_RB_BUFSZ
    MaxCount     \* bound on the characters one read asks for

ASSUME ConsoleAssumption ==
    /\ Nul \notin Char
    /\ Size \in Nat /\ Size > 1
    /\ MaxCount \in Nat

VARIABLES
    rx,          \* the struct rt_serial_rx_fifo
    isr,         \* the interrupt handler runs
    flag,        \* RT_WQ_FLAG_WAKEUP of the wait queue
    waiting,     \* waiting_list of the wait queue
    pc,          \* where a reader is in serial_fops_read
    want,        \* count of its call; 0: it is in no call
    got          \* what the call has put into buf

vars == <<rx, isr, flag, waiting, pc, want, got>>

Index == 0..(Size - 1)

-----------------------------------------------------------------------------
(* The ring. *)

Cleared == [buffer |-> [i \in Index |-> Nul], put |-> 0, get |-> 0, full |-> FALSE]

Wrap(i) == IF i >= Size THEN 0 ELSE i

Empty(f) == f.get = f.put /\ ~f.full

\* Mutant: the character that was overwritten stays.
KeepsOldest(f) == [f EXCEPT !.full = TRUE]

Discard(f) == [f EXCEPT !.get = Wrap(@ + 1), !.full = TRUE]

\* A character from the line; the oldest makes room.
Store(f, ch) ==
    LET g == [f EXCEPT !.buffer[f.put] = ch, !.put = Wrap(@ + 1)]
    IN  IF g.put = g.get THEN Discard(g) ELSE g

Taken(f) == [f EXCEPT !.get = Wrap(@ + 1), !.full = FALSE]

\* rx_length in the interrupt handler.
Length(f) == IF f.put >= f.get THEN f.put - f.get ELSE Size - (f.get - f.put)

-----------------------------------------------------------------------------
Init ==
    /\ rx = Cleared
    /\ isr = FALSE
    /\ flag = FALSE /\ waiting = <<>>
    /\ pc = [r \in Reader |-> "out"]
    /\ want = [r \in Reader |-> 0]
    /\ got = [r \in Reader |-> <<>>]

\* The handler finds a character in the receiver.
Receive(ch) ==
    /\ isr' = TRUE
    /\ rx' = Store(rx, ch)
    /\ UNCHANGED <<flag, waiting, pc, want, got>>

\* Mutant: the wait queue forgets a wake-up that finds nobody.
WakeListed == flag' = flag

Wake == flag' = TRUE

\* rt_wqueue_wakeup
Wakeup ==
    /\ Wake
    /\ IF waiting # <<>>
       THEN /\ pc' = [pc EXCEPT ![Head(waiting)] = "woken"]
            /\ waiting' = Tail(waiting)
       ELSE UNCHANGED <<pc, waiting>>

\* The handler finds no more, calls serial_fops_rx_ind and returns.
Indicate ==
    /\ isr
    /\ isr' = FALSE
    /\ IF Length(rx) # 0 THEN Wakeup ELSE UNCHANGED <<flag, pc, waiting>>
    /\ UNCHANGED <<rx, want, got>>

At(r, where) == pc[r] = where /\ ~isr
Goto(r, where) == pc' = [pc EXCEPT ![r] = where]

\* serial_fops_read is called.
Call(r, n) ==
    /\ At(r, "out")
    /\ want' = [want EXCEPT ![r] = n]
    /\ got' = [got EXCEPT ![r] = <<>>]
    /\ Goto(r, "read")
    /\ UNCHANGED <<rx, isr, flag, waiting>>

\* _serial_int_rx takes a character ...
Take(r) ==
    /\ At(r, "read") /\ Len(got[r]) < want[r] /\ ~Empty(rx)
    /\ got' = [got EXCEPT ![r] = Append(@, rx.buffer[rx.get])]
    /\ rx' = Taken(rx)
    /\ UNCHANGED <<isr, flag, waiting, pc, want>>

\* ... or finds none, or has enough.
Stops(r) ==
    /\ At(r, "read")
    /\ Len(got[r]) = want[r] \/ Empty(rx)

Return(r) ==
    /\ Stops(r) /\ got[r] # <<>>
    /\ want' = [want EXCEPT ![r] = 0]
    /\ Goto(r, "out")
    /\ UNCHANGED <<rx, isr, flag, waiting, got>>

Fail(r) ==
    /\ Stops(r) /\ got[r] = <<>>
    /\ Goto(r, "wait")
    /\ UNCHANGED <<rx, isr, flag, waiting, want, got>>

\* rt_wqueue_wait, up to its rt_schedule: nobody sleeps who was just woken.
WaitNot(r) ==
    /\ At(r, "wait") /\ flag
    /\ flag' = FALSE
    /\ Goto(r, "read")
    /\ UNCHANGED <<rx, isr, waiting, want, got>>

Wait(r) ==
    /\ At(r, "wait") /\ ~flag
    /\ waiting' = Append(waiting, r)
    /\ Goto(r, "asleep")
    /\ UNCHANGED <<rx, isr, flag, want, got>>

\* rt_wqueue_wait after its rt_schedule.
Woken(r) ==
    /\ At(r, "woken")
    /\ flag' = FALSE
    /\ Goto(r, "read")
    /\ UNCHANGED <<rx, isr, waiting, want, got>>

\* tcflush of the input, by any thread.
Flush ==
    /\ ~isr
    /\ rx' = Cleared
    /\ UNCHANGED <<isr, flag, waiting, pc, want, got>>

Goes(r) == Take(r) \/ Return(r) \/ Fail(r) \/ WaitNot(r) \/ Wait(r) \/ Woken(r)

Next ==
    \/ \E ch \in Char : Receive(ch)
    \/ Indicate
    \/ \E r \in Reader : Goes(r) \/ \E n \in 1..MaxCount : Call(r, n)
    \/ Flush

Spec == Init /\ [][Next]_vars

\* The handler returns, and a character takes longer to come than a thread
\* needs for a step: an interrupt does not keep a reader from moving for ever.
Fairness ==
    /\ WF_vars(Indicate)
    /\ \A r \in Reader : SF_vars(Goes(r))

FairSpec == Spec /\ Fairness

-----------------------------------------------------------------------------
Ring == [buffer : [Index -> Char \cup {Nul}], put : Index, get : Index, full : BOOLEAN]

TypeOK ==
    /\ rx \in Ring
    /\ isr \in BOOLEAN /\ flag \in BOOLEAN
    /\ waiting \in Seq(Reader)
    /\ pc \in [Reader -> {"out", "read", "wait", "asleep", "woken"}]
    /\ want \in [Reader -> 0..MaxCount]
    /\ got \in [Reader -> Seq(Char)]

\* Nobody sleeps on a character that is there, unless somebody who has been
\* told of it has yet to look.
NobodySleepsOnInput ==
    \A r \in Reader :
        pc[r] = "asleep" /\ ~Empty(rx) => isr \/ \E q \in Reader : pc[q] \in {"read", "woken"}

\* A read that finds a character, or has one, returns; only a flush that takes
\* the character before the read has it can leave the read waiting.
InputIsRead ==
    \A r \in Reader :
        pc[r] # "out" /\ (~Empty(rx) \/ got[r] # <<>>)
            ~> pc[r] = "out" \/ (Empty(rx) /\ got[r] = <<>>)

Slot(f, i) == IF f.get + i - 1 >= Size THEN f.get + i - 1 - Size ELSE f.get + i - 1

\* The characters in the ring, the oldest first.
Content(f) == [i \in 1..Length(f) |-> f.buffer[Slot(f, i)]]

Service == INSTANCE InputService WITH queue <- Content(rx), Capacity <- Size - 1

\* To its readers the ring, its flag of fullness and the wait queue are a line
\* of at most Size - 1 characters, of which the oldest are lost.
ServesReaders == Service!Spec
=============================================================================
