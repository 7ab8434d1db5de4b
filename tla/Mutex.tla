------------------------------- MODULE Mutex -------------------------------
(***************************************************************************)
(* Mutexes with priority inheritance (src/ipc.c) on one processor whose    *)
(* scheduler (src/scheduler.c) decides which thread takes the next step.   *)
(*                                                                         *)
(* Only the running thread calls rt_mutex_take and rt_mutex_release, each  *)
(* with interrupts disabled up to its end or to its rt_schedule; a thread  *)
(* woken in rt_mutex_take looks at thread->error when it runs again.       *)
(* Interrupts time out waiters, wake sleepers and end time slices.  A      *)
(* lower number is a more urgent priority.                                 *)
(*                                                                         *)
(* Calls that change nothing but the caller's error (a take with time-out  *)
(* 0 of a taken mutex, a release by another thread) are left out.          *)
(***************************************************************************)
EXTENDS Integers, Sequences

CONSTANTS
    Threads,
    Mutexes,
    Base,        \* the priority each thread is created with
    Flag,        \* RT_IPC_FLAG_PRIO or RT_IPC_FLAG_FIFO, for every mutex
    MaxHold,     \* bound on how deep an owner nests its takes: 255
    Sleepers,    \* the threads that may sleep
    Detachers,   \* the threads that may call rt_mutex_detach
    None         \* no thread, no mutex; the idle thread runs

ASSUME MutexAssumption ==
    /\ Base \in [Threads -> Nat] /\ MaxHold \in Nat \ {0}
    /\ Flag \in {"PRIO", "FIFO"}
    /\ Sleepers \subseteq Threads /\ Detachers \subseteq Threads
    /\ None \notin Threads /\ None \notin Mutexes

VARIABLES
    run,        \* rt_current_thread
    stat,       \* ready (running included), waiting, sleeping
    prio,       \* current_priority
    error,      \* thread->error is not RT_EOK
    timed,      \* the thread timer runs
    wants,      \* the mutex whose rt_mutex_take the thread is in
    has,        \* takes that returned RT_EOK minus releases; not in the code
    value, owner, original, hold, waiting,   \* of each mutex
    gone,       \* the detached mutexes
    closes, at  \* the mutex whose rt_mutex_detach the thread is in, and where

threads == <<run, stat, prio, error, timed, wants, has>>
mutexes == <<value, owner, original, hold, waiting>>
detaching == <<gone, closes, at>>
vars == <<threads, mutexes, detaching>>

Where == {"look", "wake", "leave", "halted"}

Init ==
    /\ stat = [t \in Threads |-> "ready"]
    /\ prio = Base
    /\ error = [t \in Threads |-> FALSE] /\ timed = [t \in Threads |-> FALSE]
    /\ wants = [t \in Threads |-> None]
    /\ has = [t \in Threads |-> [m \in Mutexes |-> 0]]
    /\ value = [m \in Mutexes |-> 1] /\ hold = [m \in Mutexes |-> 0]
    /\ owner = [m \in Mutexes |-> None] /\ original = [m \in Mutexes |-> 255]
    /\ waiting = [m \in Mutexes |-> <<>>]
    /\ gone = {}
    /\ closes = [t \in Threads |-> None] /\ at = [t \in Threads |-> "look"]
    /\ run \in {t \in Threads : \A u \in Threads : Base[t] <= Base[u]}

-----------------------------------------------------------------------------
\* The most urgent ready threads; those of one priority take turns.
Highest ==
    {t \in Threads : /\ stat'[t] = "ready"
                     /\ \A u \in Threads : stat'[u] = "ready" => prio'[t] <= prio'[u]}

\* rt_schedule: the running thread goes on unless another is more urgent.
Schedule ==
    run' \in IF Highest = {} THEN {None} ELSE IF run \in Highest THEN {run} ELSE Highest

\* Mutant: waiters queue up in order of arrival.
AtTail(s, t) == {Len(s) + 1}

\* Where rt_ipc_list_suspend inserts: before the first less urgent waiter.
Places(s, t) ==
    {i \in 1..Len(s) + 1 :
        IF Flag = "FIFO" THEN i = Len(s) + 1
        ELSE /\ \A j \in 1..i - 1 : prio[s[j]] <= prio[t]
             /\ i <= Len(s) => prio[t] < prio[s[i]]}

Inserted(s, i, t) ==
    [j \in 1..Len(s) + 1 |-> IF j < i THEN s[j] ELSE IF j = i THEN t ELSE s[j - 1]]

\* The running thread is in no call.
MayCall(t) == run = t /\ wants[t] = None /\ closes[t] = None

\* An assertion failed with interrupts disabled.
Halted == \E t \in Threads : at[t] = "halted"

On(t, s) == \E i \in 1..Len(s) : s[i] = t

Removed(s, i) == [j \in 1..Len(s) - 1 |-> IF j < i THEN s[j] ELSE s[j + 1]]

-----------------------------------------------------------------------------
\* rt_mutex_take by its owner.
TakeAgain(t, m) ==
    /\ owner[m] = t /\ hold[m] < MaxHold
    /\ hold' = [hold EXCEPT ![m] = @ + 1]
    /\ error' = [error EXCEPT ![t] = FALSE]
    /\ has' = [has EXCEPT ![t][m] = @ + 1]
    /\ UNCHANGED <<run, stat, prio, timed, wants, value, owner, original, waiting, detaching>>

\* rt_mutex_take of a free mutex.
TakeFree(t, m) ==
    /\ owner[m] # t /\ value[m] > 0
    /\ value' = [value EXCEPT ![m] = @ - 1]
    /\ owner' = [owner EXCEPT ![m] = t]
    /\ original' = [original EXCEPT ![m] = prio[t]]
    /\ hold' = [hold EXCEPT ![m] = @ + 1]
    /\ error' = [error EXCEPT ![t] = FALSE]
    /\ has' = [has EXCEPT ![t][m] = @ + 1]
    /\ UNCHANGED <<run, stat, prio, timed, wants, waiting, detaching>>

\* Mutant: the owner keeps its priority.
NotRaised(t, m) == UNCHANGED prio

\* The owner is at least as urgent as a thread that begins to wait for it.
Raised(t, m) ==
    prio' = IF prio[t] < prio[owner[m]] THEN [prio EXCEPT ![owner[m]] = prio[t]] ELSE prio

\* rt_mutex_take of a taken mutex, for ever or with a time-out, up to its
\* rt_schedule.
TakeWait(t, m) ==
    /\ owner[m] # t /\ value[m] = 0
    /\ Raised(t, m)
    /\ stat' = [stat EXCEPT ![t] = "waiting"]
    /\ error' = [error EXCEPT ![t] = FALSE]
    /\ wants' = [wants EXCEPT ![t] = m]
    /\ \E i \in Places(waiting[m], t) :
          waiting' = [waiting EXCEPT ![m] = Inserted(@, i, t)]
    /\ \E b \in BOOLEAN : timed' = [timed EXCEPT ![t] = b]
    /\ Schedule
    /\ UNCHANGED <<has, value, owner, original, hold, detaching>>

Take(t, m) ==
    /\ MayCall(t) /\ m \notin gone
    /\ TakeAgain(t, m) \/ TakeFree(t, m) \/ TakeWait(t, m)

\* Mutant: a thread whose wait failed believes it has the mutex.
ErrorIgnored(t) == has' = [has EXCEPT ![t][wants[t]] = @ + 1]

\* rt_mutex_take returns RT_EOK or the error.
Outcome(t) ==
    has' = IF error[t] THEN has ELSE [has EXCEPT ![t][wants[t]] = @ + 1]

\* The woken thread runs again and returns from rt_mutex_take.
Return(t) ==
    /\ run = t /\ wants[t] # None
    /\ Outcome(t)
    /\ wants' = [wants EXCEPT ![t] = None]
    /\ UNCHANGED <<run, stat, prio, error, timed, mutexes, detaching>>

-----------------------------------------------------------------------------
\* rt_mutex_release of a nested take.
ReleaseInner(t, m) ==
    /\ hold[m] > 1
    /\ hold' = [hold EXCEPT ![m] = @ - 1]
    /\ UNCHANGED <<run, stat, prio, error, timed, wants, value, owner, original, waiting, detaching>>

\* Mutant: the owner keeps the priority it inherited.
NotRestored(t, m) == UNCHANGED prio

\* The owner gets back the priority it had when it took the mutex.
Restored(t, m) == prio' = [prio EXCEPT ![t] = original[m]]

\* Mutant: the mutex is freed although threads wait for it.
ReleaseUnseen(t, m) ==
    /\ hold[m] = 1
    /\ Restored(t, m)
    /\ hold' = [hold EXCEPT ![m] = 0]
    /\ value' = [value EXCEPT ![m] = @ + 1]
    /\ owner' = [owner EXCEPT ![m] = None]
    /\ original' = [original EXCEPT ![m] = 255]
    /\ UNCHANGED <<run, stat, error, timed, wants, waiting, detaching>>

\* rt_mutex_release with nobody waiting: no rt_schedule.
ReleaseFree(t, m) ==
    /\ hold[m] = 1 /\ waiting[m] = <<>>
    /\ Restored(t, m)
    /\ hold' = [hold EXCEPT ![m] = 0]
    /\ value' = [value EXCEPT ![m] = @ + 1]
    /\ owner' = [owner EXCEPT ![m] = None]
    /\ original' = [original EXCEPT ![m] = 255]
    /\ UNCHANGED <<run, stat, error, timed, wants, waiting, detaching>>

\* Mutant: the new owner is made ready but stays on the wait list.
StillWaiting(m) == UNCHANGED waiting

FirstLeaves(m) == waiting' = [waiting EXCEPT ![m] = Removed(@, 1)]

\* rt_mutex_release: the first waiter becomes the owner.
HandOver(t, m) ==
    LET new == waiting[m][1]
    IN  /\ hold[m] = 1 /\ waiting[m] # <<>>
        /\ Restored(t, m)
        /\ owner' = [owner EXCEPT ![m] = new]
        /\ original' = [original EXCEPT ![m] = prio[new]]
        /\ FirstLeaves(m)
        /\ stat' = [stat EXCEPT ![new] = "ready"]
        /\ timed' = [timed EXCEPT ![new] = FALSE]
        /\ Schedule
        /\ UNCHANGED <<error, wants, value, hold, detaching>>

\* rt_mutex_release by the owner; RT_ASSERT stops who uses a detached mutex.
Release(t, m) ==
    /\ MayCall(t) /\ m \notin gone /\ owner[m] = t
    /\ ReleaseInner(t, m) \/ ReleaseFree(t, m) \/ HandOver(t, m)
    /\ has' = [has EXCEPT ![t][m] = @ - 1]

\* The waiter at place i is woken with an error.
Expel(m, i) ==
    LET u == waiting[m][i]
    IN  /\ waiting' = [waiting EXCEPT ![m] = Removed(@, i)]
        /\ stat' = [stat EXCEPT ![u] = "ready"]
        /\ error' = [error EXCEPT ![u] = TRUE]
        /\ timed' = [timed EXCEPT ![u] = FALSE]

\* rt_mutex_detach, which the callers do not call twice, looks at the list with
\* interrupts enabled ...
DetachLook(t, m) ==
    /\ run = t /\ wants[t] = None
    /\ \/ t \in Detachers /\ m \notin gone /\ \A u \in Threads : closes[u] # m
          /\ closes[t] = None
       \/ closes[t] = m /\ at[t] = "look"
    /\ closes' = [closes EXCEPT ![t] = m]
    /\ at' = [at EXCEPT ![t] = IF waiting[m] = <<>> THEN "leave" ELSE "wake"]
    /\ UNCHANGED <<threads, mutexes, gone>>

\* ... and wakes the first waiter with -RT_ERROR, without rt_schedule ...
DetachWake(t, m) ==
    /\ run = t /\ closes[t] = m /\ at[t] = "wake" /\ waiting[m] # <<>>
    /\ Expel(m, 1)
    /\ at' = [at EXCEPT ![t] = "look"]
    /\ UNCHANGED <<run, prio, wants, has, value, owner, original, hold, gone, closes>>

\* ... without a second look: if the list is empty by now, the mutex is taken for
\* a thread, and the assertion in rt_thread_resume halts the machine.
DetachHalt(t, m) ==
    /\ run = t /\ closes[t] = m /\ at[t] = "wake" /\ waiting[m] = <<>>
    /\ at' = [at EXCEPT ![t] = "halted"]
    /\ UNCHANGED <<threads, mutexes, gone, closes>>

\* rt_object_detach, whoever has come to wait since the last look.
DetachObject(t, m) ==
    /\ run = t /\ closes[t] = m /\ at[t] = "leave"
    /\ gone' = gone \cup {m}
    /\ closes' = [closes EXCEPT ![t] = None]
    /\ at' = [at EXCEPT ![t] = "look"]
    /\ UNCHANGED <<threads, mutexes>>

Detach(t, m) == DetachLook(t, m) \/ DetachWake(t, m) \/ DetachHalt(t, m) \/ DetachObject(t, m)

-----------------------------------------------------------------------------
\* rt_thread_timeout, in the tick interrupt.
Timeout(t) ==
    LET m == wants[t]
    IN  /\ timed[t] /\ ~Halted
        /\ \E i \in 1..Len(waiting[m]) : waiting[m][i] = t /\ Expel(m, i)
        /\ UNCHANGED <<prio, wants, has, value, owner, original, hold, detaching>>
        /\ Schedule

\* A thread suspends itself for something else, with or without a mutex.
Sleep(t) ==
    /\ t \in Sleepers /\ MayCall(t)
    /\ stat' = [stat EXCEPT ![t] = "sleeping"]
    /\ UNCHANGED <<prio, error, timed, wants, has, mutexes, detaching>>
    /\ Schedule

Wake(t) ==
    /\ stat[t] = "sleeping" /\ ~Halted
    /\ stat' = [stat EXCEPT ![t] = "ready"]
    /\ UNCHANGED <<prio, error, timed, wants, has, mutexes, detaching>>
    /\ Schedule

\* The time slice is over: rt_schedule may turn to an equal.
Slice ==
    /\ ~Halted
    /\ UNCHANGED <<stat, prio, error, timed, wants, has, mutexes, detaching>>
    /\ run' \in Highest

Next ==
    \/ \E t \in Threads, m \in Mutexes : Take(t, m) \/ Release(t, m) \/ Detach(t, m)
    \/ \E t \in Threads : Return(t) \/ Timeout(t) \/ Sleep(t) \/ Wake(t)
    \/ Slice

Spec == Init /\ [][Next]_vars

-----------------------------------------------------------------------------
\* Types; a waiting thread is in exactly one take.
TypeOK ==
    /\ run \in Threads \cup {None}
    /\ stat \in [Threads -> {"ready", "waiting", "sleeping"}]
    /\ prio \in [Threads -> Nat]
    /\ error \in [Threads -> BOOLEAN] /\ timed \in [Threads -> BOOLEAN]
    /\ wants \in [Threads -> Mutexes \cup {None}]
    /\ has \in [Threads -> [Mutexes -> 0..MaxHold]]
    /\ value \in [Mutexes -> {0, 1}]
    /\ owner \in [Mutexes -> Threads \cup {None}]
    /\ original \in [Mutexes -> Nat]
    /\ hold \in [Mutexes -> 0..MaxHold]
    /\ waiting \in [Mutexes -> Seq(Threads)]
    /\ gone \subseteq Mutexes
    /\ closes \in [Threads -> Mutexes \cup {None}]
    /\ at \in [Threads -> Where]

\* Mutual exclusion as the callers see it: who was told that it has the mutex
\* is the owner, as often as hold says, except for a new owner that has not
\* run since the mutex was handed to it.
HoldersAgree ==
    \A t \in Threads, m \in Mutexes :
        has[t][m] = IF owner[m] = t /\ wants[t] # m THEN hold[m] ELSE 0

\* Whoever waits, waits for an owner: a free mutex has no waiters.
WaitersHaveOwner ==
    \A m \in Mutexes : (value[m] = 1 <=> owner[m] = None) /\ (waiting[m] # <<>> => owner[m] # None)

\* A thread is waiting exactly when it is in one place of one wait list.
WaitersAreListed ==
    \A t \in Threads :
        stat[t] = "waiting" <=> \E m \in Mutexes : On(t, waiting[m])

\* Priority inheritance: an owner is at least as urgent as every waiter.
OwnerInherits ==
    \A m \in Mutexes : \A i \in 1..Len(waiting[m]) : prio[owner[m]] <= prio[waiting[m][i]]

\* No unbounded inversion: while a thread waits for an owner that can run, no
\* thread less urgent than the waiter runs in its place.
InversionIsBounded ==
    \A m \in Mutexes : \A i \in 1..Len(waiting[m]) :
        stat[owner[m]] = "ready" => run # None /\ prio[run] <= prio[waiting[m][i]]

\* What is inherited is given back: a thread that owns nothing has the
\* priority it was created with.
PriorityGivenBack ==
    \A t \in Threads : (\A m \in Mutexes : owner[m] # t) => prio[t] = Base[t]

-----------------------------------------------------------------------------
\* How far each thread's rt_mutex_take is.
Stage ==
    [t \in Threads |-> IF wants[t] = None THEN "idle"
                       ELSE IF stat[t] = "waiting" THEN "asking"
                       ELSE IF error[t] THEN "refused" ELSE "granted"]

Locks == INSTANCE LockService
         WITH Thread <- Threads, Mutex <- Mutexes, Nobody <- None, holder <- owner,
              depth <- hold, closed <- gone, asks <- wants, stage <- Stage, told <- has

\* The mutexes do what their callers may rely on, whichever thread the list and
\* the scheduler put first and whatever time-outs and regions of detaches come
\* between; what they do, that is, while they do something: they promise no
\* answer to a call that meets a detach.
ServesCallers == Locks!SSpec

\* Nobody waits for ever for a mutex that is gone.  Who comes between the last
\* look of the detach and rt_object_detach does.  (MutexDetach.cfg)
NobodyLeftBehind ==
    \A m \in gone : \A i \in 1..Len(waiting[m]) : timed[waiting[m][i]]

\* A detach does not halt the machine.  It does if the only waiter's time is out
\* between the look and the wake.  (MutexDetach.cfg)
NeverHalts == ~Halted
=============================================================================
