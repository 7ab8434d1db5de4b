------------------------------ MODULE Threads ------------------------------
(***************************************************************************)
(* Threads of one processor: the ready queues and rt_schedule              *)
(* (src/scheduler.c), the tick (src/clock.c), sleeps and waits with their  *)
(* time-outs (src/timer.c), start, exit and deletion (src/thread.c), and   *)
(* the idle thread that frees what is dead (src/idle.c).                   *)
(*                                                                         *)
(* An action is a region with interrupts disabled, or a read or write of   *)
(* shared state between two of them: a call that enables interrupts and    *)
(* then calls rt_schedule does so in a step of its own, Switch, and        *)
(* rt_thread_startup and rt_thread_delete have a step for each check, each *)
(* write and each region.  A tick and the time-outs due at it come before  *)
(* any thread's next step.  A lower number is a more urgent priority.      *)
(*                                                                         *)
(* Callers follow rules the kernel does not check: nobody sleeps or exits  *)
(* while the scheduler is locked, a thread ends itself with rt_thread_exit *)
(* and not with rt_thread_delete.  Races lists the rules of start and      *)
(* deletion that are not followed.                                         *)
(***************************************************************************)
EXTENDS Integers, Sequences

CONSTANTS
    Thread,      \* the threads of the application
    Idle,        \* the idle thread: always able to run
    Static,      \* threads from rt_thread_init: no memory to free
    Prio,        \* current_priority
    Slice,       \* init_tick
    MaxSleep,    \* bound on the ticks a thread sleeps or waits
    MaxLock,     \* bound on how deep rt_enter_critical is nested
    Races        \* of the rules of Allowed and Startup, those that are broken

ASSUME ThreadAssumption ==
    /\ Idle \notin Thread /\ Static \subseteq Thread
    /\ Prio \in [Thread \cup {Idle} -> Nat]
    /\ \A t \in Thread : Prio[t] < Prio[Idle]
    /\ Slice \in [Thread \cup {Idle} -> Nat \ {0}]
    /\ MaxSleep \in Nat \ {0} /\ MaxLock \in Nat
    /\ Races \subseteq {"asleep", "running", "busy"}

All == Thread \cup {Idle}
Priority == {Prio[t] : t \in All}

VARIABLES
    cpu,         \* cur, rt_current_thread; stat and STAT_YIELD of each thread;
                 \* rt_thread_priority_table and rt_thread_ready_priority_group
    lock,        \* rt_scheduler_lock_nest
    slice,       \* remaining_tick
    timers,      \* threads whose timer runs: their timers are in rt_timer_list
    wait,        \* ticks until the timer of such a thread is due
    listed,      \* suspended threads that are on the list of some IPC object
    pc,          \* run, or what the thread still has to do in its call
    victim,      \* whom it is deleting; itself: nobody
    starts,      \* whom it is starting; itself: nobody
    defunct,     \* rt_thread_defunct
    reaping      \* whom the idle thread has taken off it; Idle: nobody

clock == <<slice, timers, wait, listed>>
calls == <<victim, starts>>
grave == <<calls, defunct, reaping>>
vars == <<cpu, lock, clock, pc, grave>>

-----------------------------------------------------------------------------
OnList(q, t) == \E i \in 1..Len(q) : q[i] = t

\* rt_list_remove, of a thread that may be elsewhere.
Without(q, t) ==
    IF ~OnList(q, t) THEN q
    ELSE LET k == CHOOSE i \in 1..Len(q) : q[i] = t
         IN  [i \in 1..Len(q) - 1 |-> IF i < k THEN q[i] ELSE q[i + 1]]

\* rt_schedule_insert_thread.
Insert(c, t) ==
    IF t = c.cur THEN [c EXCEPT !.stat[t] = "running"]
    ELSE [c EXCEPT !.stat[t] = "ready",
                   !.queue[Prio[t]] = Append(@, t),
                   !.group = @ \cup {Prio[t]}]

\* rt_schedule_remove_thread.
Remove(c, t) ==
    LET q == Without(c.queue[Prio[t]], t)
    IN  [c EXCEPT !.queue[Prio[t]] = q,
                  !.group = IF q = <<>> THEN @ \ {Prio[t]} ELSE @]

\* __rt_ffs of rt_thread_ready_priority_group.
Highest(c) == CHOOSE p \in c.group : \A q \in c.group : p <= q

\* Mutant: equals never take turns.
StaysAmongEquals(c) == c.stat[c.cur] = "running" /\ Prio[c.cur] <= Highest(c)

\* The current thread goes on: it can, and nobody is more urgent or an equal
\* whose turn it is.
Stays(c) ==
    /\ c.stat[c.cur] = "running"
    /\ \/ Prio[c.cur] < Highest(c)
       \/ Prio[c.cur] = Highest(c) /\ ~c.yield[c.cur]

\* The processor passes from the current thread to another.
SwitchTo(c, to) ==
    LET old == IF c.stat[c.cur] = "running"
               THEN Insert([c EXCEPT !.cur = to, !.yield[c.cur] = FALSE], c.cur)
               ELSE [c EXCEPT !.cur = to]
    IN  [Remove(old, to) EXCEPT !.stat[to] = "running"]

\* rt_schedule.
Schedule(c) ==
    IF lock # 0 \/ c.group = {} \/ Stays(c) THEN c
    ELSE SwitchTo(c, Head(c.queue[Highest(c)]))

-----------------------------------------------------------------------------
Boot(t) ==
    [cur |-> t,
     stat |-> [u \in All |-> IF u = t THEN "running" ELSE IF u = Idle THEN "ready" ELSE "init"],
     yield |-> [u \in All |-> FALSE],
     queue |-> [p \in Priority |-> IF p = Prio[Idle] THEN <<Idle>> ELSE <<>>],
     group |-> {Prio[Idle]}]

\* One thread, main, runs; the others are created and not started.
Init ==
    /\ cpu \in {Boot(t) : t \in Thread}
    /\ lock = 0
    /\ slice = Slice
    /\ timers = {} /\ wait = [t \in All |-> 0] /\ listed = {}
    /\ pc = [t \in All |-> "run"]
    /\ victim = [t \in All |-> t] /\ starts = [t \in All |-> t]
    /\ defunct = <<>> /\ reaping = Idle

\* A tick has come and not all of its time-outs have been served.
Due == \E t \in timers : wait[t] = 0

Runs(t) == cpu.cur = t /\ pc[t] = "run" /\ ~Due

\* Some thread is in the middle of deleting u, or of starting it.
Doomed(u) == \E d \in Thread : d # u /\ victim[d] = u
Begun(u) == \E d \in Thread : d # u /\ starts[d] = u

\* Where a thread is that deletes none and starts none.
Calm == {"run", "switch", "yield"}

\* The current thread goes on with the call it is in.
Goes(t, step) == cpu.cur = t /\ pc[t] = step /\ ~Due

Owing(t, what) == pc' = [pc EXCEPT ![t] = what]

-----------------------------------------------------------------------------
\* rt_thread_create or rt_thread_init.
Create(t, u) ==
    /\ Runs(t) /\ cpu.stat[u] = "none"
    /\ cpu' = [cpu EXCEPT !.stat[u] = "init", !.yield[u] = FALSE]
    /\ slice' = [slice EXCEPT ![u] = Slice[u]]
    /\ UNCHANGED <<lock, timers, wait, listed, pc, grave>>

\* rt_thread_startup asserts that the thread was not started ...
Startup(t, u) ==
    /\ Runs(t) /\ cpu.stat[u] = "init"
    /\ "busy" \in Races \/ ~(Doomed(u) \/ Begun(u))
    /\ starts' = [starts EXCEPT ![t] = u]
    /\ Owing(t, "mark")
    /\ UNCHANGED <<cpu, lock, clock, victim, defunct, reaping>>

\* ... makes it RT_THREAD_SUSPEND ...
StartMark(t) ==
    /\ Goes(t, "mark")
    /\ cpu' = [cpu EXCEPT !.stat[starts[t]] = "suspend"]
    /\ Owing(t, "check")
    /\ UNCHANGED <<lock, clock, grave>>

\* ... and resumes it, if it still is ...
StartCheck(t) ==
    LET goesOn == cpu.stat[starts[t]] = "suspend"
    IN  /\ Goes(t, "check")
        /\ Owing(t, IF goesOn THEN "unlink" ELSE "switch")
        /\ starts' = IF goesOn THEN starts ELSE [starts EXCEPT ![t] = t]
        /\ UNCHANGED <<cpu, lock, clock, victim, defunct, reaping>>

\* rt_thread_suspend by the thread itself, and the start of its timer.
Suspend(t, n) ==
    /\ Runs(t) /\ lock = 0
    /\ cpu' = [Remove(cpu, t) EXCEPT !.stat[t] = "suspend"]
    /\ timers' = IF n = 0 THEN timers ELSE timers \cup {t}
    /\ wait' = [wait EXCEPT ![t] = n]
    /\ Owing(t, "switch")
    /\ UNCHANGED <<lock, slice, grave>>

\* rt_thread_sleep, up to its rt_schedule.
Sleep(t, n) == n > 0 /\ Suspend(t, n) /\ UNCHANGED listed

\* A call that waits on an IPC object, with a time-out or for ever.
Wait(t, n) == Suspend(t, n) /\ listed' = listed \cup {t}

\* The rt_schedule at the end of a call.
Switch(t) ==
    /\ cpu.cur = t /\ pc[t] \in {"switch", "yield"} /\ ~Due
    /\ cpu' = Schedule(cpu)
    /\ Owing(t, "run")
    /\ UNCHANGED <<lock, clock, grave>>

\* Mutant: the timer of a thread that was woken goes on.
TimerRuns(u) == UNCHANGED timers

TimerStops(u) == timers' = timers \ {u}

\* ... which takes it off whatever list it is on, not looking at the bitmap ...
StartUnlink(t) ==
    LET u == starts[t]
    IN  /\ Goes(t, "unlink")
        /\ cpu' = [cpu EXCEPT !.queue[Prio[u]] = Without(@, u)]
        /\ listed' = listed \ {u} /\ defunct' = Without(defunct, u)
        /\ TimerStops(u)
        /\ Owing(t, "insert")
        /\ UNCHANGED <<lock, slice, wait, calls, reaping>>

\* ... and inserts it into the ready queue; rt_schedule is still to come.
StartInsert(t) ==
    /\ Goes(t, "insert")
    /\ cpu' = Insert(cpu, starts[t])
    /\ starts' = [starts EXCEPT ![t] = t]
    /\ Owing(t, "switch")
    /\ UNCHANGED <<lock, clock, victim, defunct, reaping>>

\* rt_thread_resume of a thread on the list of an IPC object.
Resume(u) ==
    /\ u \in listed
    /\ listed' = listed \ {u}
    /\ TimerStops(u)
    /\ wait' = [wait EXCEPT ![u] = 0]
    /\ UNCHANGED <<lock, slice, grave>>

WakeByThread(t, u) ==
    /\ Runs(t) /\ Resume(u)
    /\ cpu' = Insert(cpu, u)
    /\ Owing(t, "switch")

WakeByInterrupt(u) ==
    /\ ~Due /\ Resume(u)
    /\ cpu' = Schedule(Insert(cpu, u))
    /\ UNCHANGED pc

\* rt_thread_yield, up to its rt_schedule: there is nothing before it.
Yield(t) ==
    /\ Runs(t)
    /\ Owing(t, "yield")
    /\ UNCHANGED <<cpu, lock, clock, grave>>

\* rt_enter_critical.
EnterCritical(t) ==
    /\ Runs(t) /\ lock < MaxLock
    /\ lock' = lock + 1
    /\ UNCHANGED <<cpu, clock, pc, grave>>

\* Mutant: the scheduler is unlocked and not called.
LeaveQuietly(t) == UNCHANGED pc

Left(t) == IF lock = 1 THEN Owing(t, "switch") ELSE UNCHANGED pc

\* rt_exit_critical, up to its rt_schedule.
ExitCritical(t) ==
    /\ Runs(t) /\ lock > 0
    /\ lock' = lock - 1
    /\ Left(t)
    /\ UNCHANGED <<cpu, clock, grave>>

-----------------------------------------------------------------------------
\* A static thread without cleanup is done with; the others wait for idle.
Bury(u) == defunct' = IF u \in Static THEN defunct ELSE <<u>> \o defunct
Closed(u) == IF u \in Static THEN "none" ELSE "close"

\* rt_thread_exit, when the entry function of the thread returns.
Exit(t) ==
    /\ Runs(t) /\ lock = 0
    /\ cpu' = Schedule([Remove(cpu, t) EXCEPT !.stat[t] = Closed(t), !.yield[t] = FALSE])
    /\ Bury(t)
    /\ UNCHANGED <<lock, clock, pc, calls, reaping>>

\* What keeps a deletion out of harm's way: the victim does not sleep with a
\* time-out, cannot run before it is off its queue, and neither is in a start
\* or deletion nor subject to one.
Allowed(t, u) ==
    /\ "asleep" \in Races \/ u \notin timers
    /\ "running" \in Races \/ lock > 0 \/ cpu.stat[u] = "init" \/ Prio[t] < Prio[u]
    /\ "busy" \in Races \/ (pc[u] \in Calm /\ ~Doomed(u) /\ ~Begun(u))

\* rt_thread_delete, rt_thread_detach: not of a dead thread ...
Delete(t, u) ==
    /\ Runs(t) /\ u # t /\ cpu.stat[u] \notin {"close", "none"}
    /\ Allowed(t, u)
    /\ victim' = [victim EXCEPT ![t] = u]
    /\ Owing(t, "look")
    /\ UNCHANGED <<cpu, lock, clock, starts, defunct, reaping>>

\* ... and one that was not started is in no queue ...
DeleteLook(t) ==
    /\ Goes(t, "look")
    /\ Owing(t, IF cpu.stat[victim[t]] = "init" THEN "detach" ELSE "remove")
    /\ UNCHANGED <<cpu, lock, clock, grave>>

\* ... another is taken off the list it is on.
DeleteRemove(t) ==
    LET u == victim[t]
    IN  /\ Goes(t, "remove")
        /\ cpu' = Remove(cpu, u)
        /\ listed' = listed \ {u} /\ defunct' = Without(defunct, u)
        /\ Owing(t, "detach")
        /\ UNCHANGED <<lock, slice, timers, wait, calls, reaping>>

\* rt_timer_detach.
DeleteTimer(t) ==
    /\ Goes(t, "detach")
    /\ TimerStops(victim[t])
    /\ Owing(t, "bury")
    /\ UNCHANGED <<cpu, lock, slice, wait, listed, grave>>

\* RT_THREAD_CLOSE, and into rt_thread_defunct.
DeleteEnd(t) ==
    LET u == victim[t]
    IN  /\ Goes(t, "bury")
        /\ cpu' = [cpu EXCEPT !.stat[u] = Closed(u), !.yield[u] = FALSE]
        /\ Bury(u)
        /\ victim' = [victim EXCEPT ![t] = t]
        /\ pc' = [pc EXCEPT ![t] = "run", ![u] = "run"]
        /\ UNCHANGED <<lock, clock, starts, reaping>>

\* rt_thread_idle_excute takes a thread off the list ...
Reap ==
    /\ Runs(Idle) /\ reaping = Idle /\ defunct # <<>>
    /\ reaping' = Head(defunct) /\ defunct' = Tail(defunct)
    /\ cpu' = Schedule(cpu)
    /\ UNCHANGED <<lock, clock, pc, calls>>

\* ... and frees it.
Free ==
    /\ Runs(Idle) /\ reaping # Idle
    /\ cpu' = [cpu EXCEPT !.stat[reaping] = "none"]
    /\ reaping' = Idle
    /\ UNCHANGED <<lock, clock, pc, calls, defunct>>

-----------------------------------------------------------------------------
SliceOver(t) == slice[t] - 1 = 0

\* rt_tick_increase: the time slice of whoever runs, and the clock.
Tick ==
    LET t == cpu.cur
    IN  /\ ~Due
        /\ IF SliceOver(t)
           THEN /\ slice' = [slice EXCEPT ![t] = Slice[t]]
                /\ cpu' = Schedule([cpu EXCEPT !.yield[t] = TRUE])
           ELSE slice' = [slice EXCEPT ![t] = @ - 1] /\ UNCHANGED cpu
        /\ wait' = [u \in All |-> IF u \in timers THEN wait[u] - 1 ELSE wait[u]]
        /\ UNCHANGED <<lock, timers, listed, pc, grave>>

\* rt_timer_check calls rt_thread_timeout for a thread that is due.
Timeout(t) ==
    /\ t \in timers /\ wait[t] = 0
    /\ timers' = timers \ {t}
    /\ listed' = listed \ {t}
    /\ cpu' = Schedule(Insert(cpu, t))
    /\ UNCHANGED <<lock, slice, wait, pc, grave>>

\* The rest of a start, and of a deletion.
Starts(t) == StartMark(t) \/ StartCheck(t) \/ StartUnlink(t) \/ StartInsert(t)
Deletes(t) == DeleteLook(t) \/ DeleteRemove(t) \/ DeleteTimer(t) \/ DeleteEnd(t)

Kernel(t) ==
    \/ Switch(t) \/ Yield(t) \/ EnterCritical(t) \/ ExitCritical(t) \/ Exit(t)
    \/ Starts(t) \/ Deletes(t)
    \/ \E n \in 0..MaxSleep : Sleep(t, n) \/ Wait(t, n)
    \/ \E u \in Thread :
          Create(t, u) \/ Startup(t, u) \/ WakeByThread(t, u) \/ Delete(t, u)

Next ==
    \/ \E t \in Thread : Kernel(t)
    \/ Reap \/ Free
    \/ \E u \in Thread : WakeByInterrupt(u) \/ Timeout(u)
    \/ Tick

Spec == Init /\ [][Next]_vars

\* The clock goes on, a thread goes on with the call it is in, and one that
\* locked the scheduler unlocks it.
Fairness ==
    /\ WF_vars(Tick) /\ WF_vars(\E t \in Thread : Timeout(t))
    /\ \A t \in Thread :
          /\ WF_vars(Switch(t) \/ Starts(t) \/ Deletes(t))
          /\ SF_vars(ExitCritical(t))

FairSpec == Spec /\ Fairness

-----------------------------------------------------------------------------
Stats == {"none", "init", "ready", "running", "suspend", "close"}
Steps == Calm \cup {"mark", "check", "unlink", "insert", "look", "remove", "detach", "bury"}

\* Some thread has taken u off its list and is about to bury it.
TakenOff(u) == \E d \in Thread : d # u /\ victim[d] = u /\ pc[d] \in {"detach", "bury"}

TypeOK ==
    /\ cpu \in [cur : All, stat : [All -> Stats], yield : [All -> BOOLEAN],
                queue : [Priority -> Seq(All)], group : SUBSET Priority]
    /\ lock \in 0..MaxLock
    /\ slice \in [All -> Nat]
    /\ timers \subseteq Thread /\ wait \in [All -> 0..MaxSleep]
    /\ listed \subseteq Thread
    /\ pc \in [All -> Steps]
    /\ victim \in [All -> All] /\ starts \in [All -> All]
    /\ defunct \in Seq(Thread) /\ reaping \in All
    /\ \A t \in All : slice[t] \in 1..Slice[t]

Once(q) == \A i, j \in 1..Len(q) : i # j => q[i] # q[j]

\* Each thread is where its state says: its list node is in one list, once.
InPlace ==
    /\ \A p \in Priority :
          /\ p \in cpu.group <=> cpu.queue[p] # <<>>
          /\ Once(cpu.queue[p])
          /\ \A t \in All : OnList(cpu.queue[p], t) =>
                Prio[t] = p /\ cpu.stat[t] = "ready" /\ t # cpu.cur
    /\ \A t \in All : cpu.stat[t] = "ready" =>
          OnList(cpu.queue[Prio[t]], t) \/ TakenOff(t)
    /\ \A t \in All : cpu.stat[t] = "running" => t = cpu.cur
    /\ \A t \in timers \cup listed : cpu.stat[t] = "suspend"
    /\ Once(defunct) /\ ~OnList(defunct, reaping)
    /\ \A t \in Thread :
          /\ OnList(defunct, t) \/ reaping = t => cpu.stat[t] = "close"
          /\ cpu.stat[t] = "close" => OnList(defunct, t) \/ reaping = t \/ TakenOff(t)

\* The processor is with a thread that can run and none that can is more
\* urgent, unless the scheduler is locked or about to be called.
MostUrgentRuns ==
    lock = 0 /\ pc[cpu.cur] \notin {"switch", "yield"} =>
        /\ cpu.stat[cpu.cur] = "running"
        /\ \A p \in cpu.group : Prio[cpu.cur] <= p

\* A thread that can run and never gets the processor is kept from it by more
\* urgent ones, who run again and again: equals take turns.
EqualsTakeTurns ==
    \A t \in Thread :
        <>[](cpu.stat[t] = "ready" /\ ~Doomed(t)) => []<>(Prio[cpu.cur] < Prio[t])

\* rt_thread_yield gives the processor to an equal that can run.
YieldGivesWay ==
    [][\A t \in Thread :
          pc[t] = "yield" /\ pc'[t] = "run" /\ lock = 0 /\ cpu.queue[Prio[t]] # <<>>
             => cpu'.cur # t]_vars

\* Who is given the processor has a time slice before it.
FreshTurn == [][cpu'.cur # cpu.cur => ~cpu'.yield[cpu'.cur]]_vars
=============================================================================
