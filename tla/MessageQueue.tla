---------------------------- MODULE MessageQueue ----------------------------
(***************************************************************************)
(* The RT-Thread message queue of ipc.c at the granularity at which other  *)
(* contexts can get in: one action per region that runs with interrupts    *)
(* disabled, and one per memory copy between two such regions.  A thread   *)
(* may be preempted between any two actions.  Which ready thread runs is   *)
(* left open: every priority assignment the scheduler could follow is a    *)
(* subset of these interleavings, and a call from an interrupt handler is  *)
(* a thread whose timeout is 0 and whose steps happen not to be preempted. *)
(***************************************************************************)
EXTENDS Integers, SequencesExt

CONSTANTS
    Thread,      \* callers of the queue
    Slot,        \* the rt_mq_message blocks of msg_pool; max_msgs of them
    Msg,         \* message contents
    Timeout,     \* timeouts callers pass: -1 (RT_WAITING_FOREVER), 0 or ticks
    Flag,        \* "FIFO" or "PRIO": parent.flag, the order of the wait lists
    Prio,        \* thread priorities, a smaller number runs first
    MayReset,    \* does anyone call rt_mq_control(RT_IPC_CMD_RESET)
    MayDetach,   \* does anyone call rt_mq_detach
    NoSlot,      \* RT_NULL
    NoMsg        \* a buffer nothing was copied into yet

ASSUME SlotAssumption == NoSlot \notin Slot
ASSUME MsgAssumption == NoMsg \notin Msg
ASSUME TimeoutAssumption == Timeout \subseteq Int
ASSUME FiniteAssumption == IsFiniteSet(Thread) /\ IsFiniteSet(Slot)
ASSUME FlagAssumption == /\ Flag \in {"FIFO", "PRIO"}
                         /\ Prio \in [Thread -> Nat]

VARIABLES
    free,        \* msg_queue_free; its order cannot be observed
    queue,       \* msg_queue_head .. msg_queue_tail along next
    entry,       \* mq->entry
    buf,         \* the bytes behind each block
    receivers,   \* parent.suspend_thread
    senders,     \* suspend_sender_thread
    pc,          \* where in its call a thread is
    call,        \* arguments and locals of that call
    held,        \* the block taken off a list and not yet put on the other
    out,         \* the caller's receive buffer
    err,         \* thread->error
    life         \* progress of rt_mq_detach

vars == <<free, queue, entry, buf, receivers, senders, pc, call, held, out,
          err, life>>

\* The queue is an object of the kernel; the assertions stop later calls.
Open == life \notin {"detached", "halted"}

NoCall == [op |-> "none", msg |-> NoMsg, timeout |-> 0, elapsed |-> 0]

Init ==
    /\ free = Slot
    /\ queue = <<>>
    /\ entry = 0
    /\ buf = [s \in Slot |-> NoMsg]
    /\ receivers = <<>>
    /\ senders = <<>>
    /\ pc = [t \in Thread |-> "idle"]
    /\ call = [t \in Thread |-> NoCall]
    /\ held = [t \in Thread |-> NoSlot]
    /\ out = [t \in Thread |-> NoMsg]
    /\ err = [t \in Thread |-> "EOK"]
    /\ life = "up"

(***************************************************************************)
(* Waiting and waking.                                                     *)
(***************************************************************************)
\* Mutant: a PRIO list filled like a FIFO one.
SuspendedAtTail(list, t) == Append(list, t)

\* A FIFO list appends; a PRIO list inserts before the first less urgent.
Suspended(list, t) ==
    LET behind == {i \in DOMAIN list : Flag = "PRIO" /\ Prio[t] < Prio[list[i]]}
    IN  InsertAt(list, Min(behind \union {Len(list) + 1}), t)

Woken == [sendWait |-> "sendWoken", recvWait |-> "recvWoken"]
Waiting(t) == pc[t] \in DOMAIN Woken

\* rt_thread_resume for each thread of a set; it ignores one not suspended.
Resumed(T) ==
    [t \in Thread |-> IF t \in T /\ Waiting(t) THEN Woken[pc[t]] ELSE pc[t]]

\* Mutant: wake a waiter only when the queue was empty.
FirstIfEmpty(list) == IF list = <<>> \/ queue # <<>> THEN {} ELSE {Head(list)}

\* The thread rt_ipc_list_resume wakes, and the list without it.
First(list) == IF list = <<>> THEN {} ELSE {Head(list)}
Rest(list) == IF First(list) = {} THEN list ELSE Tail(list)

\* The lists, one, that are left of a list without the threads of a set.
Kept(list, T) ==
    LET rest == {i \in DOMAIN list : list[i] \notin T}
        n == Cardinality(rest)
    IN  {[i \in 1..n |-> list[at[i]]] :
            at \in {f \in [1..n -> rest] :
                       /\ \A i, j \in 1..n : i < j => f[i] < f[j]
                       /\ \A k \in rest : \E i \in 1..n : f[i] = k}}

\* Mutant: every turn waits for the whole timeout again.
RemainingForgotten(c) == c.timeout

\* The timeout left when a woken thread starts another turn of its loop.
Remaining(c) ==
    CASE c.timeout <= 0 -> c.timeout
      [] c.timeout > c.elapsed -> c.timeout - c.elapsed
      [] OTHER -> 0

Return(t) ==
    /\ pc' = [pc EXCEPT ![t] = "idle"]
    /\ call' = [call EXCEPT ![t] = NoCall]
    /\ out' = [out EXCEPT ![t] = NoMsg]

\* Mutant: the error of an earlier wait is not reset.
WaitStaleError(t, where, c) ==
    /\ pc' = [pc EXCEPT ![t] = where]
    /\ call' = [call EXCEPT ![t] = c]
    /\ UNCHANGED err

Wait(t, where, c) ==
    /\ pc' = [pc EXCEPT ![t] = where]
    /\ call' = [call EXCEPT ![t] = c]
    /\ err' = [err EXCEPT ![t] = "EOK"]

(***************************************************************************)
(* rt_mq_send_wait, rt_mq_send and rt_mq_urgent.                           *)
(***************************************************************************)
TakeFree(t, c) ==
    /\ \E s \in free : /\ free' = free \ {s}
                       /\ held' = [held EXCEPT ![t] = s]
    /\ pc' = [pc EXCEPT ![t] = "sendCopy"]
    /\ call' = [call EXCEPT ![t] = c]
    /\ UNCHANGED <<senders, out, err>>

\* One turn of "while ((msg = mq->msg_queue_free) == RT_NULL)".
SendTurn(t, c) ==
    /\ \/ free # {} /\ TakeFree(t, c)
       \/ /\ free = {} /\ c.timeout = 0
          /\ Return(t)
          /\ UNCHANGED <<free, held, senders, err>>
       \/ /\ free = {} /\ c.timeout # 0
          /\ senders' = Suspended(senders, t)
          /\ Wait(t, "sendWait", c)
          /\ UNCHANGED <<free, held, out>>
    /\ UNCHANGED <<queue, entry, buf, receivers, life>>

SendCall(t, m, timeout) ==
    /\ pc[t] = "idle" /\ Open
    /\ SendTurn(t, [NoCall EXCEPT !.op = "send", !.msg = m, !.timeout = timeout])

UrgentCall(t, m) ==
    /\ pc[t] = "idle" /\ Open /\ free # {}
    /\ TakeFree(t, [NoCall EXCEPT !.op = "urgent", !.msg = m])
    /\ UNCHANGED <<queue, entry, buf, receivers, life>>

\* Back from rt_schedule: an error ends the call, else the loop turns again.
SendResume(t) ==
    /\ pc[t] = "sendWoken"
    /\ \/ /\ err[t] # "EOK"
          /\ Return(t)
          /\ UNCHANGED <<free, queue, entry, buf, receivers, senders, held, err, life>>
       \/ /\ err[t] = "EOK"
          /\ SendTurn(t, [call[t] EXCEPT !.timeout = Remaining(call[t]), !.elapsed = 0])

\* rt_memcpy(msg + 1, buffer, size), interrupts enabled.
SendCopy(t) ==
    /\ pc[t] = "sendCopy"
    /\ buf' = [buf EXCEPT ![held[t]] = call[t].msg]
    /\ pc' = [pc EXCEPT ![t] = "sendLink"]
    /\ UNCHANGED <<free, queue, entry, receivers, senders, call, held, out, err, life>>

\* Mutant: urgent messages queue like any other.
PlacedLast(t) == Append(queue, held[t])

Placed(t) == IF call[t].op = "urgent" THEN Cons(held[t], queue)
                                      ELSE Append(queue, held[t])

Release(t) == held' = [held EXCEPT ![t] = NoSlot]

\* Link at the tail (send) or the head (urgent); wake the first receiver.
SendLink(t) ==
    /\ pc[t] = "sendLink"
    /\ queue' = Placed(t)
    /\ entry' = entry + 1
    /\ Release(t)
    /\ receivers' = Rest(receivers)
    /\ pc' = [Resumed(First(receivers)) EXCEPT ![t] = "idle"]
    /\ call' = [call EXCEPT ![t] = NoCall]
    /\ UNCHANGED <<free, buf, senders, out, err, life>>

(***************************************************************************)
(* rt_mq_recv.                                                             *)
(***************************************************************************)
\* One turn of "while (mq->entry == 0)", then unlink the head.
RecvTurn(t, c) ==
    /\ \/ /\ entry # 0
          /\ held' = [held EXCEPT ![t] = Head(queue)]
          /\ queue' = Tail(queue)
          /\ entry' = entry - 1
          /\ pc' = [pc EXCEPT ![t] = "recvCopy"]
          /\ call' = [call EXCEPT ![t] = c]
          /\ UNCHANGED <<receivers, out, err>>
       \/ /\ entry = 0 /\ c.timeout = 0
          /\ Return(t)
          /\ UNCHANGED <<queue, entry, held, receivers, err>>
       \/ /\ entry = 0 /\ c.timeout # 0
          /\ receivers' = Suspended(receivers, t)
          /\ Wait(t, "recvWait", c)
          /\ UNCHANGED <<queue, entry, held, out>>
    /\ UNCHANGED <<free, buf, senders, life>>

RecvCall(t, timeout) ==
    /\ pc[t] = "idle" /\ Open
    /\ RecvTurn(t, [NoCall EXCEPT !.op = "recv", !.timeout = timeout])

RecvResume(t) ==
    /\ pc[t] = "recvWoken"
    /\ \/ /\ err[t] # "EOK"
          /\ Return(t)
          /\ UNCHANGED <<free, queue, entry, buf, receivers, senders, held, err, life>>
       \/ /\ err[t] = "EOK"
          /\ RecvTurn(t, [call[t] EXCEPT !.timeout = Remaining(call[t]), !.elapsed = 0])

\* rt_memcpy(buffer, msg + 1, ...), interrupts enabled.
RecvCopy(t) ==
    /\ pc[t] = "recvCopy"
    /\ out' = [out EXCEPT ![t] = buf[held[t]]]
    /\ pc' = [pc EXCEPT ![t] = "recvFree"]
    /\ UNCHANGED <<free, queue, entry, buf, receivers, senders, call, held, err, life>>

\* Give the block back; wake the first sender.
RecvFree(t) ==
    /\ pc[t] = "recvFree"
    /\ free' = free \union {held[t]}
    /\ Release(t)
    /\ senders' = Rest(senders)
    /\ pc' = [Resumed(First(senders)) EXCEPT ![t] = "idle"]
    /\ call' = [call EXCEPT ![t] = NoCall]
    /\ out' = [out EXCEPT ![t] = NoMsg]
    /\ UNCHANGED <<queue, entry, buf, receivers, err, life>>

(***************************************************************************)
(* The tick interrupt, reset and detach.                                   *)
(***************************************************************************)
\* The thread's call has a timeout that is still running.
Timed(t) ==
    /\ pc[t] \in {"sendWait", "recvWait", "sendWoken", "recvWoken"}
    /\ call[t].elapsed < call[t].timeout

\* A tick passes; rt_thread_timeout runs for every waiter whose timer is due.
\* elapsed stops at the timeout: beyond it Remaining is 0 whatever it says.
Tick ==
    LET due == {t \in Thread : /\ Waiting(t) /\ Timed(t)
                               /\ call[t].elapsed + 1 = call[t].timeout}
    IN  /\ life # "halted"
        /\ \E t \in Thread : Timed(t)
        /\ call' = [t \in Thread |->
                      IF Timed(t) THEN [call[t] EXCEPT !.elapsed = @ + 1]
                                  ELSE call[t]]
        /\ pc' = Resumed(due)
        /\ err' = [t \in Thread |-> IF t \in due THEN "ETIMEOUT" ELSE err[t]]
        /\ receivers' \in Kept(receivers, due)
        /\ senders' \in Kept(senders, due)
        /\ UNCHANGED <<free, queue, entry, buf, held, out, life>>

\* rt_ipc_list_resume_all for the threads of a set.
WakeWithError(T) ==
    /\ pc' = Resumed(T)
    /\ err' = [t \in Thread |-> IF t \in T THEN "ERROR" ELSE err[t]]

\* Mutant: a reset forgets the blocks of the messages it drops.
ReclaimedNone == free

Reclaimed == free \union ToSet(queue)

Reset ==
    /\ MayReset /\ Open
    /\ WakeWithError(ToSet(receivers) \union ToSet(senders))
    /\ receivers' = <<>>
    /\ senders' = <<>>
    /\ free' = Reclaimed
    /\ queue' = <<>>
    /\ entry' = 0
    /\ UNCHANGED <<buf, call, held, out, life>>

\* rt_mq_detach, called once, looks at a list with interrupts enabled, at the
\* receivers' before the senders' ...
DetachLook ==
    /\ \/ life \in {"up", "receivers"}
          /\ life' = IF receivers = <<>> THEN "senders" ELSE "wakeReceiver"
       \/ life = "senders"
          /\ life' = IF senders = <<>> THEN "leaving" ELSE "wakeSender"
    /\ UNCHANGED <<free, queue, entry, buf, receivers, senders, pc, call, held, out, err>>

\* ... and wakes the first waiter in a region of its own ...
DetachWake ==
    /\ \/ life = "wakeReceiver" /\ receivers # <<>>
          /\ life' = "receivers"
          /\ WakeWithError({Head(receivers)})
          /\ receivers' = Tail(receivers)
          /\ UNCHANGED senders
       \/ life = "wakeSender" /\ senders # <<>>
          /\ life' = "senders"
          /\ WakeWithError({Head(senders)})
          /\ senders' = Tail(senders)
          /\ UNCHANGED receivers
    /\ UNCHANGED <<free, queue, entry, buf, call, held, out>>

\* ... without a second look: of a list that is empty by now it takes the head
\* for a thread, and the assertion in rt_thread_resume halts the machine with
\* interrupts disabled.
DetachHalt ==
    /\ \/ life = "wakeReceiver" /\ receivers = <<>>
       \/ life = "wakeSender" /\ senders = <<>>
    /\ life' = "halted"
    /\ UNCHANGED <<free, queue, entry, buf, receivers, senders, pc, call, held, out, err>>

\* rt_object_detach, whoever has come to wait since the last look.
DetachObject ==
    /\ life = "leaving" /\ life' = "detached"
    /\ UNCHANGED <<free, queue, entry, buf, receivers, senders, pc, call, held, out, err>>

Detach == MayDetach /\ (DetachLook \/ DetachWake \/ DetachHalt \/ DetachObject)

-----------------------------------------------------------------------------
\* What a thread does inside a call once it is ready to run.
Continue(t) ==
    /\ life # "halted"
    /\ \/ SendResume(t) \/ SendCopy(t) \/ SendLink(t)
       \/ RecvResume(t) \/ RecvCopy(t) \/ RecvFree(t)

Begin(t) ==
    \/ \E m \in Msg, n \in Timeout : SendCall(t, m, n)
    \/ \E m \in Msg : UrgentCall(t, m)
    \/ \E n \in Timeout : RecvCall(t, n)

Next ==
    \/ \E t \in Thread : Begin(t) \/ Continue(t)
    \/ Tick
    \/ Reset
    \/ Detach

Spec == Init /\ [][Next]_vars

\* Ready threads get the processor (equal priorities rotate on the tick) and
\* the tick interrupt keeps coming.  Nobody is obliged to start a call.
Fairness == WF_vars(Tick) /\ \A t \in Thread : WF_vars(Continue(t))

FairSpec == Spec /\ Fairness

-----------------------------------------------------------------------------
(***************************************************************************)
(* Properties.                                                             *)
(***************************************************************************)
InCopy(t) == pc[t] \in {"sendCopy", "sendLink", "recvCopy", "recvFree"}

Call == [op : {"none", "send", "urgent", "recv"}, msg : Msg \union {NoMsg},
         timeout : Int, elapsed : Nat]

\* Every variable has its type; a block is held exactly inside a copy.
TypeOK ==
    /\ free \subseteq Slot
    /\ queue \in Seq(Slot)
    /\ entry \in Nat
    /\ buf \in [Slot -> Msg \union {NoMsg}]
    /\ pc \in [Thread -> {"idle", "sendCopy", "sendLink", "sendWait", "sendWoken",
                          "recvCopy", "recvFree", "recvWait", "recvWoken"}]
    /\ call \in [Thread -> Call]
    /\ held \in [Thread -> Slot \union {NoSlot}]
    /\ \A t \in Thread : held[t] # NoSlot <=> InCopy(t)
    /\ out \in [Thread -> Msg \union {NoMsg}]
    /\ err \in [Thread -> {"EOK", "ETIMEOUT", "ERROR"}]
    /\ life \in {"up", "receivers", "wakeReceiver", "senders", "wakeSender",
                 "leaving", "detached", "halted"}

Linked(s) == \E i \in DOMAIN queue : queue[i] = s
Holds(t, s) == held[t] = s

\* No message block is lost or shared: each is free, linked once, or in the
\* hands of one thread, although rt_mq_send_wait, rt_mq_urgent and rt_mq_recv
\* copy with interrupts enabled and a reset may run between their regions;
\* and mq->entry counts the linked ones.
PoolConserved ==
    /\ \A s \in Slot : s \in free \/ Linked(s) \/ \E t \in Thread : Holds(t, s)
    /\ \A s \in free : ~Linked(s) /\ \A t \in Thread : ~Holds(t, s)
    /\ \A i, j \in DOMAIN queue : queue[i] = queue[j] => i = j
    /\ \A s \in Slot : Linked(s) => \A t \in Thread : ~Holds(t, s)
    /\ \A t, u \in Thread : Holds(t, held[u]) /\ held[u] # NoSlot => t = u
    /\ entry = Len(queue)

WokenWell(at) == {t \in Thread : pc[t] = at /\ err[t] = "EOK"}

\* No lost wake-up: while receivers sleep, every message they could take has
\* an awakened receiver on its way to it, although awakened receivers may be
\* robbed and time out; likewise for senders and free blocks.
NoLostWakeup ==
    /\ receivers # <<>> => Len(queue) <= Cardinality(WokenWell("recvWoken"))
    /\ senders # <<>> => Cardinality(free) <= Cardinality(WokenWell("sendWoken"))

\* Senders and receivers never sleep on each other: if both lists are filled,
\* some thread is awake inside a call and will wake one of them.
NoMutualWait ==
    receivers # <<>> /\ senders # <<>> => \E t \in Thread : InCopy(t) \/ pc[t] \in {"sendWoken", "recvWoken"}

ListOf(list, at) ==
    /\ list \in Seq(Thread)
    /\ \A t \in Thread : pc[t] = at <=> Contains(list, t)
    /\ \A i, j \in DOMAIN list :
          i < j => list[i] # list[j] /\ (Flag = "PRIO" => Prio[list[i]] <= Prio[list[j]])

\* A wait list holds the suspended threads, each once, and in PRIO mode the
\* most urgent first, whatever wakes, expires or is robbed in between.
WaitLists == ListOf(receivers, "recvWait") /\ ListOf(senders, "sendWait")

\* A receiver or sender leaves its wait list early only for what it waited
\* for, and an expired one no sooner than its timeout: stale errors or timers
\* of an earlier turn are never acted upon.
WakesForReason ==
    [][\A t \in Thread : pc[t] \in {"sendWoken", "recvWoken"} /\ pc'[t] = "idle" =>
          \/ err[t] = "ETIMEOUT" /\ call[t].elapsed = call[t].timeout
          \/ err[t] = "ERROR" /\ (MayReset \/ MayDetach)
          \/ err[t] = "EOK" /\ Remaining(call[t]) = 0
             /\ (IF call[t].op = "recv" THEN queue = <<>> ELSE free = {})]_vars

\* How far each call has come, and what a get can find, as QueueService sees it.
Stage(t) ==
    CASE pc[t] = "idle" -> [at |-> "idle"]
      [] pc[t] \in {"sendCopy", "sendLink"} ->
            [at |-> "putting", msg |-> call[t].msg, urgent |-> call[t].op = "urgent"]
      [] pc[t] = "recvCopy" -> [at |-> "getting", msg |-> buf[held[t]]]
      [] pc[t] = "recvFree" -> [at |-> "delivered", msg |-> out[t]]
      [] OTHER -> [at |-> "blocked"]

Stages == [t \in Thread |-> Stage(t)]
Visible == [i \in DOMAIN queue |-> buf[queue[i]]]

Service == INSTANCE QueueService WITH
    Capacity <- Cardinality(Slot), visible <- Visible, stage <- Stages

\* The queue is a bounded sequence of messages: nothing is lost, duplicated,
\* reordered or corrupted between a put and the get that delivers it.
ImplementsQueueService == Service!SSpec

\* A call with a timeout returns, however often its message or block is taken
\* by another thread between the wake-up and the thread's next turn, and also
\* if it comes to wait while the queue is detached, unless the machine halts.
TimedCallReturns ==
    \A t \in Thread : pc[t] # "idle" /\ call[t].timeout >= 0
                         ~> pc[t] = "idle" \/ life = "halted"

\* After rt_mq_detach has run ("resume all suspended thread") no thread is
\* left asleep on the queue, once those it woke have settled.  Who began to wait
\* after the last look, or turns again after it, is.  (MessageQueueDetach.cfg)
DetachLeavesNobody ==
    life = "detached" /\ (\A t \in Thread : pc[t] \notin {"sendWoken", "recvWoken"} /\ ~InCopy(t))
        => receivers = <<>> /\ senders = <<>>

\* A detach does not halt the machine.  It does if the time of the only waiter
\* is out between the look and the wake.  (MessageQueueHalt.cfg)
NeverHalts == life # "halted"
=============================================================================
