----------------------------- MODULE SoftTimer -----------------------------
(***************************************************************************)
(* Software timers (src/timer.c): the doubly linked list of started        *)
(* timers, the timer thread that sleeps until the first is due and calls   *)
(* back the due ones, and the callers of rt_timer_start and rt_timer_stop. *)
(*                                                                         *)
(* The list is kept as the code keeps it, in next and prev pointers with   *)
(* one level, because rt_soft_timer_check walks it with a saved pointer    *)
(* while callbacks and other threads change it.                            *)
(*                                                                         *)
(* A caller is a callback, a thread of a priority above the timer thread's *)
(* (RT_TIMER_THREAD_PRIO), which preempts it except where it has locked    *)
(* the scheduler, or one below, which runs only while it waits.            *)
(*                                                                         *)
(* rt_timer_start takes the timer off the list in one critical section,    *)
(* puts it in again in another and then resumes the timer thread;          *)
(* rt_timer_stop looks at the flag, takes the timer off the list in a      *)
(* critical section and then clears the flag.  Threads above come between  *)
(* these steps of a callback's call, and they and the timer thread between *)
(* those of a thread below.  The threads above make one call at a time.    *)
(***************************************************************************)
EXTENDS Integers

CONSTANTS
    Timers,     \* the timer objects
    Root,       \* the list head, rt_soft_timer_list
    Periodic,   \* those with RT_TIMER_FLAG_PERIODIC
    InitTick,   \* init_tick of each
    Ticks,      \* rt_tick counts modulo this: 2^32
    Lag,        \* ticks the timer thread may run behind the first timer
    Pause,      \* and between reading the tick and going to sleep
    Callers,    \* who starts and stops timers, of the three above
    Starters,   \* which of them start each timer
    MaxCalls    \* bound on how often they do

Half == (Ticks - 1) \div 2   \* RT_TICK_MAX / 2
TickMax == Ticks - 1

ASSUME TimerAssumption ==
    /\ Root \notin Timers /\ Periodic \subseteq Timers
    /\ Ticks \in Nat \ {0} /\ InitTick \in [Timers -> 0..Half - 1]
    /\ Lag \in Nat /\ Pause \in 0..Lag /\ MaxCalls \in Nat
    /\ Callers \subseteq {"callback", "preempting", "below"}
    /\ Starters \in [Timers -> SUBSET Callers]

VARIABLES
    tick,          \* rt_tick
    list,          \* row[0].next and row[0].prev of the head and every timer
    timeout,       \* timeout_tick
    activated,     \* RT_TIMER_FLAG_ACTIVATED
    pc,            \* the timer thread
    wake,          \* next_timeout, then the tick its delay ends
    cur, n, t,     \* current_tick, n and t
    subject,       \* the timer each call that can be interrupted is about, or Root
    phase,         \* how far the call is; none: there is no call
    wanted,        \* timers started and neither stopped nor, one-shot, fired;
                   \* not in the code
    order,         \* <<y, x>>: y was not started since x was; not in the code
    calls          \* rt_timer_start and rt_timer_stop calls so far

walk == <<cur, n, t>>
call == <<subject, phase>>
vars == <<tick, list, timeout, activated, pc, wake, walk, call, wanted, order, calls>>

\* Between the steps of whose calls others may come.
Interruptible == {"callback", "below"}

Nodes == Timers \cup {Root}

\* a - b < RT_TICK_MAX / 2 in unsigned arithmetic: b is not after a.
NotAfter(b, a) == (a - b) % Ticks < Half

\* b comes after a: the test that ends the search of rt_timer_start.
Later(b, a) == (b - a) % Ticks \in 1..Half - 1

\* The timers in a list; the others point to themselves.
LinkedIn(l) == {x \in Timers : l.next[x] # x}
Linked == LinkedIn(list)

Init ==
    /\ tick = 0 /\ calls = 0 /\ wake = 0 /\ cur = 0
    /\ list = [next |-> [x \in Nodes |-> x], prev |-> [x \in Nodes |-> x]]
    /\ timeout = [x \in Timers |-> 0]
    /\ activated = [x \in Timers |-> FALSE]
    /\ pc = "look" /\ n = Root /\ t = Root
    /\ subject = [c \in Interruptible |-> Root]
    /\ phase = [c \in Interruptible |-> "none"]
    /\ wanted = {} /\ order = {}

-----------------------------------------------------------------------------
\* rt_list_remove and rt_list_insert_after.
Without(l, x) ==
    [next |-> [l.next EXCEPT ![l.prev[x]] = l.next[x], ![x] = x],
     prev |-> [l.prev EXCEPT ![l.next[x]] = l.prev[x], ![x] = x]]

With(l, p, x) ==
    [next |-> [l.next EXCEPT ![p] = x, ![x] = l.next[p]],
     prev |-> [l.prev EXCEPT ![l.next[p]] = x, ![x] = p]]

\* Mutant: equal times end the search too.
PlacesFirst(l, at) ==
    {p \in LinkedIn(l) \cup {Root} :
        /\ p = Root \/ ~(Later(timeout[p], at) \/ timeout[p] = at)
        /\ l.next[p] = Root \/ Later(timeout[l.next[p]], at) \/ timeout[l.next[p]] = at}

\* Where rt_timer_start stops: behind the timers that are not later, before the
\* first that is.
Places(l, at) ==
    {p \in LinkedIn(l) \cup {Root} :
        /\ p = Root \/ ~Later(timeout[p], at)
        /\ l.next[p] = Root \/ Later(timeout[l.next[p]], at)}

\* Mutant: a started timer is not taken off the list first.
StillLinked(x) == list

Removed(x) == Without(list, x)

Deadline(x) == (tick + InitTick[x]) % Ticks

\* rt_timer_start: into the list, behind the timers that are not later.
PutIn(l, x, at) ==
    /\ \E p \in Places(l, at) : list' = With(l, p, x)
    /\ activated' = [activated EXCEPT ![x] = TRUE]
    /\ order' = {r \in order : r[1] # x} \cup ((Timers \ {x}) \X {x})

\* rt_timer_start, up to the timer thread, where nobody comes in between.
Started(x) ==
    /\ timeout' = [timeout EXCEPT ![x] = Deadline(x)]
    /\ PutIn(Removed(x), x, Deadline(x))

\* Who may go on, who may call now, and how often in all.
Waiting == pc \in {"suspended", "delay"}

Runs(c) ==
    CASE c = "callback" -> pc = "callback"
      [] c = "preempting" -> pc # "walk"
      [] c = "below" -> Waiting

MayCall(c) ==
    /\ c \in Callers /\ Runs(c)
    /\ c \in Interruptible => phase[c] = "none"
    /\ calls < MaxCalls /\ calls' = calls + 1

\* c's call is about x and gets as far as a step, goes on to one, and is over.
Begins(c, x, step) ==
    /\ subject' = [subject EXCEPT ![c] = x] /\ phase' = [phase EXCEPT ![c] = step]
    /\ MayCall(c)

At(c, step) == Runs(c) /\ phase[c] = step

GoesOn(c, step) == phase' = [phase EXCEPT ![c] = step] /\ UNCHANGED <<subject, calls>>

Ends(c) ==
    /\ subject' = [subject EXCEPT ![c] = Root] /\ phase' = [phase EXCEPT ![c] = "none"]
    /\ UNCHANGED calls

\* Mutant: the timer thread is left waiting.
NotResumed == UNCHANGED <<pc, wake>>

\* rt_thread_resume(&timer_thread) if it is suspended.
Resume ==
    /\ pc' = IF Waiting THEN "check" ELSE pc
    /\ wake' = IF Waiting THEN 0 ELSE wake

\* A thread above starts a timer.
Start(x) ==
    /\ "preempting" \in Starters[x] /\ MayCall("preempting")
    /\ Started(x)
    /\ Resume
    /\ wanted' = wanted \cup {x}
    /\ UNCHANGED <<tick, walk, call>>

\* Another caller does: off the list, then the new timeout_tick.
Withdraw(c, x) ==
    /\ c \in Starters[x] /\ Begins(c, x, "withdrawn")
    /\ list' = Removed(x)
    /\ activated' = [activated EXCEPT ![x] = FALSE]
    /\ timeout' = [timeout EXCEPT ![x] = Deadline(x)]
    /\ wanted' = wanted \ {x}
    /\ UNCHANGED <<tick, pc, wake, walk, order>>

\* Then into the list.
Insert(c) ==
    /\ At(c, "withdrawn") /\ GoesOn(c, "inserted")
    /\ PutIn(list, subject[c], timeout[subject[c]])
    /\ wanted' = wanted \cup {subject[c]}
    /\ UNCHANGED <<tick, timeout, pc, wake, walk>>

\* And it has the timer thread look.
Awaken(c) ==
    /\ At(c, "inserted") /\ Ends(c)
    /\ Resume
    /\ UNCHANGED <<tick, list, timeout, activated, walk, wanted, order>>

\* Mutant: rt_timer_stop forgets to change the state.
StaysActivated(x) == UNCHANGED activated

Deactivated(x) == activated' = [activated EXCEPT ![x] = FALSE]

\* A thread above stops a timer; one that is not activated is left alone.
Stop(x) ==
    /\ MayCall("preempting")
    /\ activated[x]
    /\ list' = Removed(x)
    /\ Deactivated(x)
    /\ wanted' = wanted \ {x}
    /\ UNCHANGED <<tick, timeout, pc, wake, walk, call, order>>

\* Another caller does: it looks at the flag ...
StopCheck(c, x) ==
    /\ activated[x]
    /\ Begins(c, x, "checked")
    /\ UNCHANGED <<tick, list, timeout, activated, pc, wake, walk, wanted, order>>

\* ... takes the timer off the list ...
StopRemove(c) ==
    /\ At(c, "checked") /\ GoesOn(c, "removed")
    /\ list' = Removed(subject[c])
    /\ wanted' = wanted \ {subject[c]}
    /\ UNCHANGED <<tick, timeout, activated, pc, wake, walk, order>>

\* ... and clears the flag, with interrupts enabled.
StopClear(c) ==
    /\ At(c, "removed") /\ Ends(c)
    /\ Deactivated(subject[c])
    /\ UNCHANGED <<tick, list, timeout, pc, wake, walk, wanted, order>>

-----------------------------------------------------------------------------
\* rt_thread_timer_entry: read the first timeout; then suspend, or read the tick
\* and sleep the difference or go on at once; rt_soft_timer_check follows.
Look ==
    /\ pc = "look"
    /\ pc' = "plan"
    /\ wake' = IF list.next[Root] = Root THEN TickMax ELSE timeout[list.next[Root]]
    /\ UNCHANGED <<tick, list, timeout, activated, walk, call, wanted, order, calls>>

Plan ==
    /\ pc = "plan"
    /\ IF wake = TickMax THEN pc' = "suspended" /\ wake' = 0 /\ UNCHANGED cur
       ELSE IF NotAfter(tick, wake)
            THEN pc' = "delta" /\ wake' = (wake - tick) % Ticks /\ cur' = tick
            ELSE pc' = "check" /\ wake' = 0 /\ UNCHANGED cur
    /\ UNCHANGED <<tick, list, timeout, activated, n, t, call, wanted, order, calls>>

\* rt_thread_delay of that many ticks, from the tick it is by then.
Delay ==
    /\ pc = "delta"
    /\ pc' = "delay" /\ wake' = (tick + wake) % Ticks /\ cur' = 0
    /\ UNCHANGED <<tick, list, timeout, activated, n, t, call, wanted, order, calls>>

Check ==
    /\ pc = "check"
    /\ pc' = "enter"
    /\ cur' = tick
    /\ UNCHANGED <<tick, list, timeout, activated, wake, n, t, call, wanted, order, calls>>

Enter ==
    /\ pc = "enter"
    /\ pc' = "walk"
    /\ n' = list.next[Root]
    /\ UNCHANGED <<tick, list, timeout, activated, wake, cur, t, call, wanted, order, calls>>

\* Mutant: the comparison with the current tick is the wrong way round.
DueBefore(x) == NotAfter(cur, timeout[x])

Due(x) == NotAfter(timeout[x], cur)

\* The scheduler is locked from Enter to Call and from Finish to Leave or Call.
Call ==
    /\ pc = "walk" /\ n # Root /\ Due(n)
    /\ t' = n
    /\ n' = list.next[n]
    /\ list' = Removed(n)
    /\ pc' = "callback"
    /\ wanted' = wanted \ ({n} \ Periodic)
    /\ UNCHANGED <<tick, timeout, activated, wake, cur, call, order, calls>>

Leave ==
    /\ pc = "walk" /\ ~(n # Root /\ Due(n))
    /\ pc' = "look"
    /\ n' = Root /\ t' = Root /\ cur' = 0
    /\ UNCHANGED <<tick, list, timeout, activated, wake, call, wanted, order, calls>>

Return ==
    /\ pc = "callback" /\ phase["callback"] = "none"
    /\ pc' = "finish"
    /\ cur' = tick
    /\ UNCHANGED <<tick, list, timeout, activated, wake, n, t, call, wanted, order, calls>>

Finish ==
    /\ pc = "finish"
    /\ pc' = "walk"
    /\ IF t \in Periodic /\ activated[t] THEN Started(t)
       ELSE Deactivated(t) /\ UNCHANGED <<list, timeout, order>>
    /\ UNCHANGED <<tick, wake, walk, call, wanted, calls>>

TimerThread ==
    \/ Look \/ Plan \/ Delay \/ Check \/ Enter \/ Call \/ Leave \/ Return \/ Finish

\* The tick interrupt; rt_thread_delay ends.  The timer thread is never more
\* than Lag ticks behind a timer of the list or the tick that it compares with,
\* nor a caller behind the timer it starts, and goes to sleep within Pause ticks
\* of reading the tick.
Tick ==
    /\ pc \in {"enter", "walk", "finish"} => (tick - cur) % Ticks < Lag
    /\ pc = "delta" => (tick - cur) % Ticks < Pause
    /\ \A x \in Linked : NotAfter(timeout[x], tick) => (tick - timeout[x]) % Ticks < Lag
    /\ \A c \in Interruptible :
          phase[c] = "withdrawn" /\ NotAfter(timeout[subject[c]], tick) =>
              (tick - timeout[subject[c]]) % Ticks < Lag
    /\ tick' = (tick + 1) % Ticks
    /\ IF pc = "delay" /\ NotAfter(wake, tick') THEN pc' = "check" /\ wake' = 0
                                                ELSE UNCHANGED <<pc, wake>>
    /\ UNCHANGED <<list, timeout, activated, walk, call, wanted, order, calls>>

\* The rest of a call.
Proceed(c) == Insert(c) \/ Awaken(c) \/ StopRemove(c) \/ StopClear(c)

Next ==
    \/ \E x \in Timers : Start(x) \/ Stop(x)
    \/ \E c \in Interruptible :
          \/ \E x \in Timers : Withdraw(c, x) \/ StopCheck(c, x)
          \/ Proceed(c)
    \/ TimerThread \/ Tick

Spec == Init /\ [][Next]_vars

\* The tick interrupt keeps coming and the timer thread, of nearly the highest
\* priority, runs when it is ready; a thread below gets on with its call while
\* the timer thread waits, and a callback returns.
FairSpec ==
    /\ Spec /\ WF_vars(TimerThread) /\ WF_vars(Tick)
    /\ \A c \in Interruptible : WF_vars(Proceed(c))

-----------------------------------------------------------------------------
\* The timers are divided among those who start them.
OneStarter == \A x \in Timers : \A c, d \in Starters[x] : c = d

TickRange == 0..Ticks - 1
Phases == {"none", "withdrawn", "inserted", "checked", "removed"}
Lists == [next : [Nodes -> Nodes], prev : [Nodes -> Nodes]]

\* Types; the thread waits, or sleeps until wake, or walks from n.
TypeOK ==
    /\ tick \in TickRange /\ wake \in TickRange /\ cur \in TickRange
    /\ list \in Lists
    /\ timeout \in [Timers -> TickRange]
    /\ activated \in [Timers -> BOOLEAN]
    /\ pc \in {"look", "plan", "delta", "suspended", "delay", "check", "enter", "walk",
               "callback", "finish"}
    /\ n \in Nodes /\ t \in Nodes
    /\ pc \in {"callback", "finish"} => t \in Timers
    /\ subject \in [Interruptible -> Nodes] /\ phase \in [Interruptible -> Phases]
    /\ wanted \subseteq Timers
    /\ calls \in 0..MaxCalls

\* The pointers of the list stay inverse to each other, whatever callbacks and
\* other threads do to it during the walk: no node is ever in the list twice,
\* half in it or in a ring of its own.
Sound(l) == \A x \in Nodes : l.prev[l.next[x]] = x /\ l.next[l.prev[x]] = x

ListIsSound == Sound(list)

\* Earlier timers come first, and of two that are due together the one started
\* first, also across the wrap of the tick.
StartedBefore(x, y) == <<x, y>> \in order

InOrder ==
    \A x \in Linked : LET y == list.next[x] IN
        y # Root => \/ Later(timeout[y], timeout[x])
                    \/ timeout[y] = timeout[x] /\ StartedBefore(x, y)

\* No callback before its time.
NeverEarly == [][Call => ~Later(timeout[n], tick)]_vars

\* A timer that was stopped, or never started, is not called.
StoppedStaysSilent == [][Call => n \in wanted]_vars

\* The stop of x has yet to clear its flag.
BeingStopped(x) == \E c \in Interruptible : phase[c] = "removed" /\ subject[c] = x

\* RT_TIMER_CTRL_GET_STATE tells the truth: a timer in the list is activated,
\* and an activated one is in the list, being called or being stopped.
StateIsTrue ==
    \A x \in Timers :
        /\ x \in Linked => activated[x]
        /\ activated[x] =>
              x \in Linked \/ BeingStopped(x) \/ (x = t /\ pc \in {"callback", "finish"})

\* The tick that also stands for "no timer" is nobody's timeout.
NobodyAtTickMax == \A x \in Timers : timeout[x] # TickMax

\* The timer thread is suspended only while there is no timer, and sleeps until
\* the first is due and no longer than the ticks that came before it went to
\* sleep, but for a timer whose starter is about to wake it.
SleepsInTime ==
    phase["below"] # "inserted" =>
        /\ pc = "suspended" => Linked = {}
        /\ pc = "delay" => \A x \in Linked : ~Later(wake, (timeout[x] + Pause) % Ticks)

\* What the thread read from the list and from the clock before it went to sleep
\* still holds when it sleeps, whatever is put in and taken out meanwhile, but
\* for the ticks in between.
NeverSleepsPast == []NobodyAtTickMax => []SleepsInTime

\* Every started timer is called or stopped.
TimersExpire ==
    []NobodyAtTickMax
        => \A x \in Timers : x \in wanted ~> (x \notin wanted \/ (pc = "callback" /\ t = x))
=============================================================================
