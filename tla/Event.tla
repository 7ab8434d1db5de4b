------------------------------- MODULE Event -------------------------------
(***************************************************************************)
(* Events (src/ipc.c): sets of bits that threads wait for, all or any of   *)
(* them, and take away or leave.  Each action runs with interrupts         *)
(* disabled.  Any ready thread may take the next step, and a send may come *)
(* from a thread or from an interrupt.                                     *)
(*                                                                         *)
(* Calls with an empty set return at once and are left out.                *)
(***************************************************************************)
EXTENDS Integers, Sequences, FiniteSets

CONSTANTS
    Thread,
    Bit,         \* the bits of event->set that anybody uses
    Request,     \* sets and options that callers of rt_event_recv pass
    Prio,        \* current_priority, a smaller number is more urgent
    Flag,        \* RT_IPC_FLAG_PRIO or RT_IPC_FLAG_FIFO
    MayDetach    \* does anyone call rt_event_detach

ASSUME EventAssumption ==
    /\ Request \subseteq [want : (SUBSET Bit) \ {{}}, all : BOOLEAN, clear : BOOLEAN]
    /\ Prio \in [Thread -> Nat]
    /\ Flag \in {"PRIO", "FIFO"} /\ MayDetach \in BOOLEAN

VARIABLES
    set,         \* event->set
    waiting,     \* parent.suspend_thread
    life,        \* progress of rt_event_detach, or halted
    pc,          \* idle, waiting on the list, woken and not yet back
    info,        \* thread->event_set and thread->event_info
    error,       \* a waiter's thread->error is not RT_EOK
    timed,       \* the thread timer runs
    got          \* what rt_event_recv last returned, {} if it failed or waits

vars == <<set, waiting, life, pc, info, error, timed, got>>

Stage == {"up", "looking", "waking", "leaving", "gone", "halted"}
Nothing == [want |-> {}, all |-> FALSE, clear |-> FALSE]

Init ==
    /\ set = {} /\ waiting = <<>> /\ life = "up"
    /\ pc = [t \in Thread |-> "idle"]
    /\ info = [t \in Thread |-> Nothing]
    /\ error = [t \in Thread |-> FALSE] /\ timed = [t \in Thread |-> FALSE]
    /\ got = [t \in Thread |-> {}]

\* RT_ASSERT stops who calls after rt_object_detach.
InUse == life \notin {"gone", "halted"}

-----------------------------------------------------------------------------
\* Mutant: one bit is enough for a waiter that wants them all.
MetByAny(s, r) == r.want \cap s # {}

\* RT_EVENT_FLAG_AND wants all of the bits, RT_EVENT_FLAG_OR any of them.
Met(s, r) == IF r.all THEN r.want \subseteq s ELSE r.want \cap s # {}

\* Mutant: every list is filled in order of arrival.
AtTail(t) == {Len(waiting) + 1}

\* Where rt_ipc_list_suspend inserts: before the first less urgent waiter.
Places(t) ==
    {i \in 1..Len(waiting) + 1 :
        IF Flag = "FIFO" THEN i = Len(waiting) + 1
        ELSE /\ \A j \in 1..i - 1 : Prio[waiting[j]] <= Prio[t]
             /\ i <= Len(waiting) => Prio[t] < Prio[waiting[i]]}

Inserted(i, t) ==
    [j \in 1..Len(waiting) + 1 |->
        IF j < i THEN waiting[j] ELSE IF j = i THEN t ELSE waiting[j - 1]]

\* The list without the waiters at the places S, the others in their order.
Kept(S) ==
    LET n == Cardinality(DOMAIN waiting \ S)
    IN  {[j \in 1..n |-> waiting[f[j]]] :
            f \in {g \in [1..n -> DOMAIN waiting \ S] :
                      /\ \A i, j \in 1..n : i < j => g[i] < g[j]
                      /\ \A k \in DOMAIN waiting \ S : \E i \in 1..n : g[i] = k}}

-----------------------------------------------------------------------------
\* rt_event_recv finds what it wants.
RecvNow(t, r) ==
    /\ Met(set, r)
    /\ got' = [got EXCEPT ![t] = r.want \cap set]
    /\ set' = IF r.clear THEN set \ r.want ELSE set
    /\ UNCHANGED <<waiting, pc, info, error, timed>>

\* rt_event_recv with time-out 0.
RecvNothing(t, r) ==
    /\ ~Met(set, r)
    /\ got' = [got EXCEPT ![t] = {}]
    /\ UNCHANGED <<set, waiting, pc, info, error, timed>>

\* rt_event_recv, for ever or with a time-out, up to its rt_schedule.
RecvWait(t, r) ==
    /\ ~Met(set, r)
    /\ info' = [info EXCEPT ![t] = r]
    /\ pc' = [pc EXCEPT ![t] = "waiting"]
    /\ \E i \in Places(t) : waiting' = Inserted(i, t)
    /\ \E b \in BOOLEAN : timed' = [timed EXCEPT ![t] = b]
    /\ got' = [got EXCEPT ![t] = {}]
    /\ UNCHANGED <<set, error>>

Recv(t, r) ==
    /\ pc[t] = "idle" /\ InUse
    /\ RecvNow(t, r) \/ RecvNothing(t, r) \/ RecvWait(t, r)
    /\ UNCHANGED life

\* Mutant: a thread whose wait failed takes the bits it asked for as received.
ErrorIgnored(t) == got' = [got EXCEPT ![t] = info[t].want]

Outcome(t) == got' = [got EXCEPT ![t] = IF error[t] THEN {} ELSE info[t].want]

\* The woken thread runs again and returns from rt_event_recv.  Nothing reads
\* its event_set, event_info and error before its next call writes them.
Return(t) ==
    /\ pc[t] = "woken" /\ life # "halted"
    /\ Outcome(t)
    /\ pc' = [pc EXCEPT ![t] = "idle"]
    /\ info' = [info EXCEPT ![t] = Nothing]
    /\ error' = [error EXCEPT ![t] = FALSE]
    /\ UNCHANGED <<set, waiting, life, timed>>

-----------------------------------------------------------------------------
\* Mutant: a CLEAR takes effect after the walk, so all see the same bits.
LeftForAll(there, S, i) ==
    IF i \in DOMAIN waiting THEN there
    ELSE there \ UNION {info[waiting[j]].want : j \in {k \in S : info[waiting[k]].clear}}

\* The bits the walk of rt_event_send still has at place i: those of CLEAR
\* waiters served at earlier places S are gone.
Left(there, S, i) ==
    there \ UNION {info[waiting[j]].want : j \in {k \in S : k < i /\ info[waiting[k]].clear}}

\* Mutant: the walk ends with the first waiter it serves.
ServesFirst(there, S) ==
    S = {i \in DOMAIN waiting :
            /\ Met(there, info[waiting[i]])
            /\ \A j \in 1..i - 1 : ~Met(there, info[waiting[j]])}

\* The places the walk serves, in one pass from the head of the list.
Serves(there, S) ==
    S = {i \in DOMAIN waiting : Met(Left(there, S, i), info[waiting[i]])}

\* Mutant: a thread that was woken early keeps its timer.
TimersRun(woken) == UNCHANGED timed

TimersStop(woken) == timed' = [t \in Thread |-> t \notin woken /\ timed[t]]

\* rt_thread_resume for the waiters at places S.
Resume(S) ==
    LET woken == {waiting[i] : i \in S}
    IN  /\ pc' = [t \in Thread |-> IF t \in woken THEN "woken" ELSE pc[t]]
        /\ TimersStop(woken)
        /\ waiting' \in Kept(S)

\* event_set of a waiter served at a place i becomes what it receives there.
Receives(there, S) ==
    info' = [t \in Thread |->
        [info[t] EXCEPT !.want =
            {b \in @ : \A i \in S : waiting[i] = t => b \in Left(there, S, i)}]]

\* rt_event_send.
Send(s) ==
    /\ InUse
    /\ \E S \in SUBSET DOMAIN waiting :
          /\ Serves(set \cup s, S)
          /\ set' = Left(set \cup s, S, Len(waiting) + 1)
          /\ Receives(set \cup s, S)
          /\ Resume(S)
    /\ UNCHANGED <<life, error, got>>

-----------------------------------------------------------------------------
\* The waiters at places S are woken with an error.
Expel(S) ==
    /\ error' = [t \in Thread |-> error[t] \/ t \in {waiting[i] : i \in S}]
    /\ Resume(S)

\* rt_thread_timeout, in the tick interrupt.
Timeout(t) ==
    /\ timed[t] /\ life # "halted"
    /\ Expel({i \in DOMAIN waiting : waiting[i] = t})
    /\ UNCHANGED <<set, life, info, got>>

\* Mutant: the bits survive.
BitsKept == UNCHANGED set

BitsDropped == set' = {}

\* rt_event_control(RT_IPC_CMD_RESET).
Reset ==
    /\ InUse
    /\ Expel(DOMAIN waiting)
    /\ BitsDropped
    /\ UNCHANGED <<life, info, got>>

\* rt_event_detach looks at the list, with interrupts enabled ...
DetachLook ==
    /\ MayDetach /\ life \in {"up", "looking"}
    /\ life' = IF waiting = <<>> THEN "leaving" ELSE "waking"
    /\ UNCHANGED <<set, waiting, pc, info, error, timed, got>>

\* ... and wakes the first waiter, without a second look: if the list is empty by
\* now, it takes the event for a thread, and the assertion in rt_thread_resume
\* halts the machine with interrupts disabled.
DetachWake ==
    /\ life = "waking"
    /\ IF waiting # <<>> THEN life' = "looking" /\ Expel({1})
       ELSE life' = "halted" /\ UNCHANGED <<waiting, pc, error, timed>>
    /\ UNCHANGED <<set, info, got>>

\* rt_object_detach, whoever has come to wait since the last look.
DetachObject ==
    /\ life = "leaving"
    /\ life' = "gone"
    /\ UNCHANGED <<set, waiting, pc, info, error, timed, got>>

Detach == DetachLook \/ DetachWake \/ DetachObject

Next ==
    \/ \E t \in Thread, r \in Request : Recv(t, r)
    \/ \E t \in Thread : Return(t) \/ Timeout(t)
    \/ \E s \in (SUBSET Bit) \ {{}} : Send(s)
    \/ Reset \/ Detach

Spec == Init /\ [][Next]_vars

-----------------------------------------------------------------------------
\* Types; who is in rt_event_recv has asked for something, and a waiter has not
\* failed yet.
TypeOK ==
    /\ set \subseteq Bit
    /\ waiting \in Seq(Thread)
    /\ life \in Stage
    /\ pc \in [Thread -> {"idle", "waiting", "woken"}]
    /\ info \in [Thread -> [want : SUBSET Bit, all : BOOLEAN, clear : BOOLEAN]]
    /\ error \in [Thread -> BOOLEAN] /\ timed \in [Thread -> BOOLEAN]
    /\ got \in [Thread -> SUBSET Bit]
    /\ \A t \in Thread : pc[t] # "idle" => info[t].want # {}
    /\ \A t \in Thread : pc[t] # "woken" => ~error[t]

\* No lost wake-up: nobody waits for bits that are there, whichever of several
\* waiters took which bits on the way.
NoLostWakeup == \A t \in Thread : pc[t] = "waiting" => ~Met(set, info[t])

\* A thread waits exactly when it is in one place of the list, and only a
\* waiting thread's timer runs.
WaitersAreListed ==
    /\ \A t \in Thread :
          pc[t] = "waiting" <=> \E i \in DOMAIN waiting : waiting[i] = t
    /\ \A i, j \in DOMAIN waiting : i # j => waiting[i] # waiting[j]
    /\ \A t \in Thread : timed[t] => pc[t] = "waiting"

\* With RT_IPC_FLAG_PRIO no send serves a thread and leaves a more urgent one
\* waiting that asked for the same.
UrgentFirst ==
    [][\A t, u \in Thread :
          /\ Flag = "PRIO" /\ Prio[t] < Prio[u] /\ info[t] = info[u]
          /\ pc[t] = "waiting" /\ pc[u] = "waiting"
          /\ pc'[u] = "woken" /\ ~error'[u]
          => pc'[t] = "woken"]_vars

\* A thread as its callers see it: how far its receive is, what it asked for
\* and what it was told.
Phase == [t \in Thread |-> IF pc[t] = "waiting" THEN "asked"
                           ELSE IF pc[t] = "woken" THEN "answered" ELSE "idle"]
Asks == [t \in Thread |-> IF pc[t] = "waiting" THEN info[t] ELSE Nothing]
Answer == [t \in Thread |-> IF pc[t] # "woken" THEN got[t]
                            ELSE IF error[t] THEN {} ELSE info[t].want]

Service == INSTANCE EventService WITH phase <- Phase, asks <- Asks, answer <- Answer

\* The event does what its callers may rely on, however the walk of a send,
\* time-outs, resets, immediate receives and the regions of a detach interleave;
\* what it does, that is, while it does something: it promises no answer to a
\* call that meets a detach.
ServesCallers == Service!SSpec

\* Nobody is asleep on an event that is gone.  Who comes between the last look
\* of the detach and rt_object_detach is.  (EventDetach.cfg)
NobodyLeftBehind == life = "gone" => \A t \in Thread : pc[t] = "waiting" => timed[t]

\* A detach does not halt the machine.  It does if the only waiter's time is out
\* between the look and the wake.  (EventDetach.cfg)
NeverHalts == life # "halted"
=============================================================================
