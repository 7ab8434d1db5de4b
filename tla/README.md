# Verification of the RT-Thread quadruped robot

TLA+ modules, TLC configurations and TLAPS proofs for the firmware in this
repository: the ART-Pi application that lets the Q1_lite robot see and walk, its
camera drivers, and the RT-Thread 4.0.3 kernel it is built with. Throughout, `A/`
is `src/art_pi_gc0328c/` and `K/` is `src/art_pi_gc0328c/rt-thread/src/`. The
configuration is that of `A/rtconfig.h`: one core, no signals, thread priorities
0 to 31 (a lower number is more urgent), a tick of 1 ms, one level of timer list.

## The system

### Parts

| Part | Where | State | Operations |
|---|---|---|---|
| Camera pipeline | `A/applications/control.c`, `A/libraries/drivers/drv_dcmi.c`, `drv_gc0328c.c` | capture on or off, the one framebuffer, event bit, counters `t`, `u`, `count`, sums of ten samples | frame interrupt, camera thread, `camera_sample` |
| Gait | `A/applications/gear_con.c`, `main.c` | `servoPos`, gait tables, PWM outputs | `thread_gear`, `cmdcon`, `gear_control`, `pwm_sample` |
| Console input | `A/rt-thread/components/drivers/serial/serial.c`, `src/waitqueue.c`, `libc` stdio, `finsh` | receive ring, wait queue and its flag, readers | receive interrupt, read, poll and wait, flush |
| Colour recognition | `A/untils/color.c` | search areas | search and erosion of a colour patch |
| Message queue | `K/ipc.c` | free and linked blocks, `entry`, two wait lists | init/create, send, send_wait, urgent, recv, reset, detach/delete |
| Mutex | `K/ipc.c` | value, owner, original priority, hold, wait list | init/create, take, release, detach/delete |
| Event | `K/ipc.c` | set of bits, wait list, what each waiter asked for | send, recv with AND, OR, CLEAR, reset, detach/delete |
| Semaphore, mailbox | `K/ipc.c` | value or a ring of mails, wait lists | take/release, send/recv, reset, detach/delete |
| Software timers | `K/timer.c`, `K/clock.c` | sorted list, per-timer deadline and flags, timer thread | start, stop, control, the timer thread's loop |
| Hard timers | `K/timer.c` | a second such list | start, stop, `rt_timer_check` in the tick |
| Scheduler, threads, idle | `K/scheduler.c`, `thread.c`, `idle.c` | ready queues, current thread, lock nesting, defunct list | schedule, suspend, resume, yield, sleep, exit, delete, reap |
| Memory pool, heaps | `K/mempool.c`, `mem.c`, `memheap.c` | free blocks, waiters | alloc, free |
| Device IPC | `A/rt-thread/components/drivers/src` | ring buffer, completion, data queue, work queue | put/get, wait/done, push/pop, submit |
| Shell, board drivers, vendored libraries | `finsh`, `A/libraries` | - | - |

### Interactions

The frame interrupt stops the capture, converts the image into the framebuffer and
calls `rt_event_send`. The camera thread (priority 12) waits in `rt_event_recv`,
shows and analyses the image, restarts the capture and sleeps. The shell
(priority 20) starts the first capture with `camera_sample` and the gait thread
with `thread_gear`. After 50 images without target the camera thread sends an
urgent message to `mq`; the code that would receive it in the gait thread is
commented out, so the queue only fills.

Every blocking call follows one scheme: with interrupts disabled, set
`thread->error`, link the thread in a wait list, start its timer; enable
interrupts and call `rt_schedule`; when running again, look at `thread->error`.
Wakers (`rt_ipc_list_resume`), time-outs (`rt_thread_timeout`) and detaches
(`rt_ipc_list_resume_all`, one region for each waiter and the looks at the list
outside) race for the thread between these steps. A mutex also
changes the priority of its owner, and the scheduler acts on that. Soft timers
call back in a thread of priority 4, which walks the list with the scheduler
unlocked during each callback.

The shell (`finsh`) reads its characters one by one from the serial console: the
receive interrupt stores them in a ring and wakes the wait queue of the device;
a reader that finds the ring empty polls, links itself in that queue and sleeps.
The scheduler underneath all of these keeps the ready queues, with the tick and the
time-outs of the timer list acting on it from interrupts, and the idle thread frees
what exited or was deleted.


### What is hard here, and what correctness means

| Part | Hard behaviours | Properties that make it correct |
|---|---|---|
| Message queue | memory copies outside the critical sections; woken threads robbed of what they were woken for; time-outs recomputed on each turn; a reset, and a detach in many regions, in between | no block lost or shared; no lost wake-up; a bounded FIFO with urgent messages; timed calls return; wait lists exact and ordered |
| Mutex | hand-over to a thread that has not run yet; inheritance through time-outs, nesting and several mutexes | mutual exclusion as callers see it; nobody waits for a free mutex; owners as urgent as waiters; inversion bounded; priority given back |
| Soft timers | saved `next` pointer across callbacks; start in two critical sections; a stop that clears its flag outside of one; first timeout, clock and delay read and started apart; wrapping clock | list intact; ordered; no early, lost or unwanted expiry; the thread sleeps only without timers |
| Camera | one framebuffer shared with an interrupt; an event that may precede its wait; counters that restart | frames keep coming; no torn image; averages and counts exact |
| Event | one send walks all waiters, clearing bits as it goes; a waiter woken for its bits has not run yet when the next send, reset or time-out comes | nobody asleep on bits that are there; list exact; the more urgent served first; a set of bits with atomic receives |
| Scheduler and threads | the regions of `rt_thread_delete` and `rt_thread_startup`, and what they test between them; a thread locked out of switching and switched later; slices and yields among equals; the dead on a list until idle frees them | each list node where the state says; the most urgent runs; equals take turns |
| Console input | a character between the look at the ring and the sleep; an overrun ring; the flag of the wait queue | nobody sleeps on input; reads return; a lossy line |
| Gait | interpolation in five sections from where the row before ended; deltas that must add up over eleven rows; a second writer of one servo | legs come home; servos in range; two feet on the ground; no jump |

`PROJECT.json` lists every hazard at its line with the properties that cover it.

## Modules

| Module | Models | State and actions |
|---|---|---|
| `MessageQueue` | `K/ipc.c` 1786-2450 | one action per region with interrupts disabled and one per copy: `SendCall`, `SendCopy`, `SendLink`, `SendResume`, `UrgentCall`, `RecvCall`, `RecvCopy`, `RecvFree`, `RecvResume`, `Tick` (time-out), `Reset`; of a detach `DetachLook`, `DetachWake`, `DetachObject`, and `DetachHalt` when there is no thread left to wake |
| `QueueService` | what the queue promises | a bounded sequence of visible messages and the stage of each call; `MessageQueue!Service` instantiates it |
| `CameraPipeline` | camera thread, interrupt, command, report | `FrameISR`, `CameraSample`, `RecvEvent`, `Show`, `Analyse`, `Restart`, `Wake`; `Analyse` is the whole of `Feature_Recognize_Start_Phoenix` as far as control flow and counters go |
| `SoftTimer` | list, timer thread, callers, tick | the list as `next`/`prev` pointers; the thread's steps `Look`, `Plan` (reads the clock and computes the delay), `Delay` (starts it), `Check`, `Enter`, `Call`, `Return`, `Finish`, `Leave`; `Withdraw`, `Insert`, `Awaken` of a start and `StopCheck`, `StopRemove`, `StopClear` of a stop by a callback or a thread below; `Start` and `Stop` as one step each for the threads above, which make one call at a time; `Tick` |
| `Mutex` | `rt_mutex_*` on the priority scheduler | only `run` (`rt_current_thread`) takes steps; `Take` (nested, free, waiting), `Return`, `Release` (inner, free, hand-over), `Detach` (`DetachLook`, `DetachWake`, `DetachHalt`, `DetachObject`), `Sleep`, and the interrupts `Wake`, `Timeout`, `Slice`; `Schedule` is `rt_schedule` |
| `LockService` | what the mutexes promise | holder and depth of each mutex, the stage of each call, what each thread was told; `Mutex!Locks` instantiates it |
| `Event` | `K/ipc.c` 1003-1443 | `RecvNow`, `RecvNothing`, `RecvWait`, `Return` (when the thread runs again), `Send` (the walk over the list, served by `Serves`), `Timeout`, `Reset`; `DetachLook`, `DetachWake` (which halts if there is nobody), `DetachObject` |
| `EventService` | what an event promises | the set of bits and the stage of each call: a receive takes its bits in one step, with the send or by itself |
| `Threads` | `K/scheduler.c`, `thread.c`, `idle.c`, the tick of `clock.c`, the time-outs of `timer.c` | `Create`; the steps of a start, `Startup`, `StartMark`, `StartCheck`, `StartUnlink`, `StartInsert`; `Sleep`, `Wait`, `Yield`, `Switch` (a `rt_schedule` after interrupts were enabled), `WakeByThread`, `WakeByInterrupt`, `EnterCritical`, `ExitCritical`, `Exit`, the two tests and three regions of a deletion, `Delete`, `DeleteLook`, `DeleteRemove`, `DeleteTimer`, `DeleteEnd`, the idle thread's `Reap` and `Free`, `Tick`, `Timeout` |
| `Console` | `serial.c` receive, `waitqueue.c`, the poll of the stdio device | `Receive` and `Wakeup` of the interrupt (`Indicate` is the whole handler), the reader's `Call`, `Take`, `Return`, `Fail`, `WaitNot`, `Wait`, `Woken`, and `Flush` |
| `InputService` | what the console promises | a line of bounded length that forgets its oldest character, and calls that take from its front |
| `Gait` | `gear_con.c`, `pwm_sample` of `main.c` | `StartRow`, `Section`, `Swing`; the tables of the code; `map_util` in whole degrees, and `FallsShort` for the one case in which single precision comes out a degree less |
| `LeastNumber` | every set of numbers has a least one | used by the proofs about `Threads` (most urgent ready priority), `Event`, `Mutex`, `MessageQueue` and `SoftTimer` (the first timer of a ring) |
| `MCMessageQueue`, `MCSoftTimer`, `MCMutex`, `MCEvent`, `MCThreads` | values for the constants | - |
| `*Proofs` | the theorems | - |

`CameraPipeline` keeps its own small picture of its event, with the one receiver it
has; `Event` is the same code for any number of receivers. `Threads` and `Mutex` each
state `rt_schedule` as far as they need it: `Threads` has every thread operation and
no mutex, `Mutex` has priorities that change while a thread waits.

Variables named "not in the code" in a module (`unseen`, `wanted`, `order`,
`has`, `got`) record history for a property and restrict no action. Definitions after a
comment "Mutant:" are plausible faults; no specification uses them, and each
property is known to fail when the one listed for it takes the place of the real
definition.

Scheduling is modelled at two levels. In `MessageQueue` any ready thread may take
the next step, which includes whatever any assignment of priorities allows, so what
holds there does not depend on it. In `Mutex` the scheduler is part of the question
and is modelled, and in `Threads` it is the whole question. In `SoftTimer` and `CameraPipeline` priorities decide who can
preempt whom, and the guards say so.

## Runs

| Run | Configuration | Distinct states | Shows |
|---|---|---|---|
| `mq_fifo` | 3 threads, 2 blocks, 2 messages, time-outs for ever, 0 and 2 ticks, reset | 683 thousand | no block is lost, no wake-up is lost, the lists never wait on each other, nobody gives up without reason, and the whole implements `QueueService` |
| `mq_prio` | 3 threads of 2 priorities, 1 block, time-outs for ever and 1 tick, detach in single regions | 386 thousand | wait lists are exact and ordered; every timed call returns, unless a detach halts |
| `camera` | window 3, restart after 5, lost after 3, queue of 2, `camera_sample` twice | 35 thousand | frames keep flowing, as many as commands; no tearing after one command; averages and counts |
| `timer_below` | 2 timers, one caller below the timer thread, 3 calls, 16 ticks, `Pause` 1 | 681 thousand | true states, silent after a stop, no sleep past a timer but for the pause, every started timer expires |
| `timer_all` | 3 timers, each with its own kind of starter, anybody stops, 3 calls | 5.1 million | the list keeps its shape and its order; no callback is early |
| `mutex_one` | 4 threads, 2 of one priority, 1 mutex, PRIO | 8.4 thousand | inheritance, bounded inversion, priority given back; no deadlock |
| `mutex_pair` | 3 threads, 2 mutexes, nesting 2, one thread that detaches | 2.5 million | exclusion, no waiter without owner, and the whole implements `LockService` |
| `event` | 3 threads of 2 priorities, 2 bits, requests for all or any, with and without CLEAR and time-out, reset, detach in single regions | 159 thousand | no lost wake-up, the list exact, the urgent first, and the whole implements `EventService` |
| `threads` | an urgent thread and two equal ones with slices of 1 and 2, sleeps up to 2 ticks, one level of `rt_enter_critical`, every step of starts and deletions | 213 thousand | every list node in place, the most urgent runs, equals take turns |
| `console` | ring of 4, reads of up to 2 of 2 characters, one reader, flush | 15 thousand | nobody sleeps on input, a read returns unless a flush takes its characters, and the whole implements `InputService` |
| `gait` | the tables of the code, one `thread_gear`, one `pwm_sample` | 7.6 thousand | angles in range, every gait comes home (turning left excepted), a diagonal on the ground, no jump |
| `threads_delete` | as `threads`, with deletions of sleepers | violation | a thread deleted while it sleeps lands in two lists |

### Why the bounds are enough

- Three threads are the least for one to rob a second of what a third provides, and
  for a more urgent waiter to overtake another. One block makes every send wait and
  every receive free the only block; two let two copies overlap. A time-out of two
  ticks (`mq_fifo`) can run partly, be recomputed and run out; one of a tick
  (`mq_prio`) is out at any of the steps of a detach, and has nothing left when the
  thread is robbed after it.
- `Ticks = 16` stands for 2^32: half of it exceeds the longest timeout plus the lag,
  as it does in the code, and every run wraps several times. `Lag` bounds how far
  the timer thread falls behind a due timer: the comparison by halves needs *some*
  such bound (2^31 ticks in the code). `Pause` bounds the ticks between its reading
  of the clock and the start of its delay; one is enough for a late sleep, and the
  theorem has any number.
- `MaxCalls` bounds starts and stops; each finding and each mutant below shows
  within three.
- `Window = 3`, `Wrap = 5`: `t` and `u` restart at the first full window above the
  limit (6 here, 10010 in the code), after a window that ended below it, and start
  over. The code divides by ten always, so its very first obstacle average, taken
  when `t` is 0, is a tenth of one sample; `AveragesOverWindow` names that exception.
- `MaxHold = 2` is the least nesting; `hold` is eight bits and is not checked in
  `rt_mutex_take`, so the model stops before it overflows.
- Four threads are the least for `InversionIsBounded` to be about more than two
  levels with a pair of equals sharing time slices.
- Symmetry is used in `mq_fifo` over threads (flag FIFO, so that priorities do not
  tell them apart), blocks and messages, and never with a liveness property.
- Two bits are the least to tell AND from OR and to clear some of what another wants;
  three receivers of two priorities give an equal behind, and an urgent one before,
  the one that clears.
- In `threads` two equals with different slices and one more urgent thread are the
  least for a turn to be interrupted and resumed; `urgent` and `left` are dynamic and
  `right` is static, so that each way to the grave occurs. One level of lock
  suffices for a switch that is put off; deeper levels only count.
- A ring of 4 holds 3 characters (fullness is declared a slot early, as in the code):
  it overruns while a reader that asked for 2 is anywhere in its call.
- `gait` has no bound: the tables are finite and are walked to their end and over.

### Deadlock

TLC checks for deadlock in `camera`, `mutex_one`, `threads`, `console` and `gait`. It
does not in the queue runs (all callers may wait for ever for a message nobody
sends), in `event` (after a detach nothing need happen any more; and a detach may
halt the machine, there as in `mq_prio`), in the timer runs
(calls are bounded and time stops behind the lag) and in `mutex_pair` (callers may
take two mutexes in opposite orders, which the kernel does not prevent, and a detach may halt;
`WaitersHaveOwner` says that even then everybody waits for an owner, and
`NoCircleOfWaiters` below that one order of all mutexes is enough).

### Fairness

- `MessageQueue!FairSpec`: the tick goes on, and a thread that was woken or is
  between two steps of its call continues. A thread that is ready for ever but never
  runs contradicts the finite calls the project makes under a priority scheduler.
  Nothing obliges anybody to send, receive, detach or stop robbing.
- `CameraPipeline!FairSpec`: a running capture raises its interrupt, and the camera
  thread, the most urgent of the application, runs. The shell is not fair.
- `SoftTimer!FairSpec`: the tick goes on, the timer thread (priority 4) runs when it
  can, and a call of `rt_timer_start` or `rt_timer_stop` that has begun is finished.
  Nobody need start or stop anything.
- `Threads!FairSpec`: ticks come, time-outs that are due are served, the current
  thread goes on inside a call, and one that has locked the scheduler unlocks it
  again and again (strong, since ticks and interrupts come between). No thread need
  yield, sleep or exit: `EqualsTakeTurns` rests on the slices.
- `Console!FairSpec`: the handler of the receive interrupt finishes, and a reader goes
  on inside its call however often the interrupt disables it (strong: a character
  takes longer to come over the line than a step of the thread). Nobody need type.

## Where the code does not do what it says

The run `threads_delete` is the one the project keeps: `rt_thread_delete` takes the
thread off the list its node is in and only then stops its timer, in two regions. If
the thread slept and its timer is due in between, the tick puts the node into the
ready queue, and the third region links the same node into `rt_thread_defunct`.

The other configurations show one disagreement each and are run by hand with
`tlc -config <name>.cfg <module>`; TLC finds their last property violated, in `EventDetach`
and `MutexDetach` both (`-continue` shows both):

| Configuration | What it shows |
|---|---|
| `MessageQueueDetach`, `EventDetach`, `MutexDetach` | who begins to wait after the last look of `rt_ipc_list_resume_all` and before `rt_object_detach` is left on an object that is gone, for good; on a queue so is a receiver that was robbed of its message and waits again |
| `MessageQueueHalt`; `EventDetach`, `MutexDetach` | `rt_ipc_list_resume_all` looks at the list with interrupts enabled and does not look again: if the time of the only waiter is out in between, it takes the head of the list for a thread, and `RT_ASSERT` halts |
| `SoftTimerRace` | `next_timeout` is read, then acted upon, with nothing locked; a thread above the timer thread that starts a timer in between is overlooked |
| `SoftTimerStopped` | the walk calls a timer that the previous callback stopped |
| `SoftTimerState` | a one-shot timer that restarts itself in its callback is listed but not activated, and cannot be stopped |
| `SoftTimerSentinel` | a timer due at `RT_TICK_MAX` is taken for none |
| `SoftTimerStop` | `rt_timer_stop` clears the flag after it has enabled interrupts: a start in between leaves a timer that is listed and says it is not activated |
| `SoftTimerTwice` | two parties that start one timer tear the list |
| `MutexCrossed`, `MutexNested` | two mutexes released in the order of their takes leave the thread with an inherited priority; releasing one of two drops what was inherited through the other |
| `MutexFifo` | a hand-over on a FIFO mutex does not raise the new owner |
| `ThreadsStart` | a thread that is deleted or started by one party while another is in `rt_thread_startup` or `rt_thread_delete` of it is put into the ready queue though it is dead, or twice |
| `ThreadsRunning` | a thread that can preempt the deleting one between its tests and its first region may have gone to sleep when it is taken off, and the tick puts it back |
| `ThreadsYield` | `rt_thread_yield` gives way to nobody unless a more urgent thread is ready or the slice is over (its comment says that it yields the processor) |
| `ThreadsFresh` | a thread that was preempted at the end of its slice starts its next turn with `STAT_YIELD` still set |
| `ConsoleTwo` | with two readers one flag wakes one of them, and the other sleeps on characters |
| `GaitTwice` | `thread_gear` typed twice: two threads interpolate from one `servoPos`, and the servos jump |
| `GaitDrift` | turning left leaves servo 1 ten degrees from where it stood |
| `GaitEnds` | the last section of a row is four fifths of the way: no row ends in the pose its comment names |

They also mark where the passing runs stop: `timer_below` has no callback and no
preempting caller, since `StateIsTrue`, `StoppedStaysSilent`, `NeverSleepsPast` and `TimersExpire` fail
with them (the theorems below say which callers each allows); `timer_all` gives each timer one starter, since `ListIsSound` fails
otherwise; `mutex_one` has one mutex of flag PRIO and nobody who detaches it;
`threads` has `Races = {}`, that is, nobody deletes a thread that sleeps with a time-out
(`"asleep"`), one that could run before it is off its queue (`"running"`), or one that is
in, or the subject of, another start or deletion (`"busy"`); `console` has the
one reader of this build, the shell; `gait` has one thread.

## Proofs

Every theorem holds for all values of the constants that meet the assumptions of its
module.

| Theorem | Says | Argument |
|---|---|---|
| `MessageQueueProofs!Typed`, `PoolIsConserved` | `TypeOK`, `PoolConserved` | the two together are inductive: every region moves one block between free, queue and one thread's hands. What `TypeOK` says about hands (a block is held exactly during a copy) is what makes the copying steps safe |
| `MessageQueueProofs!ListsAreExact`, `NoWakeupIsLost`, `NobodyWaitsInCircles`, `ReasonsAreGood` | `WaitLists`, `NoLostWakeup`, `NoMutualWait` (if there is a block at all), `WakesForReason` | those two with `Errors` (a sleeper has no error, an awakened one has only the error it was woken for), `Calls` (a thread sleeps in the call it made) and, for receivers and senders alike, `Listed` (the list holds the sleepers in order) and `Told` (as many awakened without error as there are things to take). Each action cites lemmas about the four things a step does to a list: nothing, add one, wake the first, drop those that are due |
| `MessageQueueProofs!ImplementsService` | the specification implements `QueueService` | step simulation under that invariant: a free block is room, since every block is free, linked or in one hand (`RoomKept`, a count); a sender's copy goes to a block that no other hand or list can reach, so what it links is what it was given |
| `MessageQueueProofs!TimeoutsAreSpentOnce` | the safety half of `TimedCallReturns`: the turns of a call share one timeout, no turn gives time back, and each tick takes one from a sleeper | every step leaves a call alone, begins or ends it, starts another turn or lets a tick pass (`HowCallsGo`); `Budgeted`: who sleeps with a timeout has some of it left |
| `CameraPipelineProofs!TypesHold`, `AveragesAreWhole`, `MissesAreCounted` | `TypeOK`, `AveragesOverWindow`, `CountsMisses` | inductive with `SumsFollow` (where each sum stands relative to its counter, the restart included) and `preU = u` between images; needs division lemmas, proved from the definition of the quotient |
| `CameraPipelineProofs!FramesAreBounded`, `ImagesAreNotTorn` | `OneFramePerSample`, `NoTear` | the capture permission is one token per command; no interrupt can hold it while the thread does |
| `CameraPipelineProofs!CameraNeverStalls` | the safety half of `FramesKeepFlowing`: once `camera_sample` was called, a capture runs, an event is pending, or the thread is on its way to start a capture | each step passes the one token on (`PermissionKept`) |
| `SoftTimerProofs!TypesHold` | `TypeOK`, whoever starts what | inductive with one conjunct about the thread below; every deadline is one the counter can show |
| `SoftTimerProofs!ListStaysSound`, `ListIsOneRing` | `ListIsSound`, and that every timer in the list is on the one ring through the head, if no timer has two starters | lemmas on removing and inserting a node in a ring; the invariant adds `CallsOK` (who is in which step of which call), `Apart` (between the halves of a start, by a callback or by a thread below, the timer is out of the list and the walk is not at it) and `Idle`. For the one ring: ranks that fall along `prev` (`Ranked`); without it a removal could lose a second timer |
| `SoftTimerProofs!StateStaysTrue`, `StateIsTrueBelow` | `StateIsTrue` as long as nobody starts a timer during its own callback (`CalledIsOut`) or between the removal and the clearing of a stop (`StoppedIsOut`); with no such rule if only threads below start timers, whoever stops them | how each step changes the set of linked timers (`LinkedChanges`) and of those being stopped (`StoppingChanges`) against the flags. The second proves the two rules (`OutInv`): a thread below is in one call at a time, and no callback runs while it goes on |
| `SoftTimerProofs!StoppedTimersAreSilent`, `StoppedTimersAreSilentBelow` | `StoppedStaysSilent` as long as nobody stops the timer at which the walk goes on (`NextIsListed`); with no such rule if only threads below start and stop timers | `WantedInList`: who is in the list was started and not stopped since, or a call is about to take it out |
| `SoftTimerProofs!ListStaysInOrder` | `InOrder`, with one starter each and headroom | `NearInv`: every timer in the list is due from `Lag` ticks ago to its own timeout ahead. Less than half of the counter apart, ticks compare modulo their number as their distances do (`Distances`), so "later" is an order among them; a removal then needs its transitivity, an insertion that of two one precedes |
| `SoftTimerProofs!TimersAreNeverEarly`, `TimersBelowAreNeverEarly`, `QuickWalksAreNeverEarly` | `NeverEarly`, with headroom and the same rule on stops; with no such rule if only threads below start and stop timers, or if the walk takes at most two ticks (`Lag <= 2`, any callers and starters) | `NearInv` for a timer in the list. For one that was stopped and is called all the same nothing bounds its age; two ticks are then too few to bring it across half of the counter |
| `SoftTimerProofs!NeverSleepsPastATimer` | `NeverSleepsPast`, for callbacks and threads below, with one starter each, headroom and room for the pause (`SleepRoom`) | the first of the list is the earliest (along the ring, by `LeastNumber` and `InOrder`), and what the thread has read from the list and the clock stays true until it sleeps and while it does, but for at most `Pause` ticks (`SleepInv`) |
| `MutexProofs!OwnersHoldAlone`, `TypesHold` | `HoldersAgree`, `TypeOK` | `HoldersAgree` alone is not inductive: a hand-over writes the owner while it still sleeps. The invariant adds who is `Awakened` without error (exactly the one that was handed the mutex), that `Owned` mutexes have consistent values, that lists are `Listed` and without repetition (`Once`) and that `Running` is ready |
| `MutexProofs!NobodyIsLeftWaiting`, `ListsHaveTheWaiters` | `WaitersHaveOwner`, and that lists hold exactly the waiters (`WaitersAreListed`, which no run checks) | the same invariant |
| `MutexProofs!ImplementsService` | the specification implements `LockService`, for callers of any kind | step simulation under that invariant; `Stage` tells a waiter that was handed the mutex, and has not run yet, from one that was refused, and each region of a detach refuses at most one |
| `MutexProofs!PrioritiesAreGivenBack` | `PriorityGivenBack`, for callers that take one mutex at a time (`OneEach`), with either flag | what the mutex remembers is the priority its owner was created with (`Remembered`), since whoever comes to own it owned none and so had inherited nothing |
| `MutexProofs!OwnersInherit` | `OwnerInherits`, for flag PRIO and `OneEach` | with that, `Ordered`: a waiter owns nothing, its priority does not change, and the most urgent stays first, so that a hand-over goes to a thread as urgent as those left |
| `MutexProofs!NoInversion` | `InversionIsBounded`, for one mutex of flag PRIO | with that, each step that makes somebody ready, waiting or more urgent ends in `rt_schedule` (`WhoReschedules`), which picks the most urgent |
| `MutexProofs!InversionBeginsByRelease`, `InversionEndsBySchedule` | what several mutexes of flag PRIO, taken one at a time, leave of it: an inversion begins only when a thread gives back an inherited priority in `rt_mutex_release` of a mutex nobody waits for any more, and no inversion outlasts the next `rt_schedule` | that release is the one step that lowers the running thread and does not call `rt_schedule` |
| `MutexProofs!MutexGoesToMostUrgent` | with flag PRIO and `OneEach`, `rt_mutex_release` passes over nobody more urgent | `Ordered` |
| `MutexProofs!InheritanceOnlyRaises` | no thread is ever less urgent than it was created to be: either flag, and nested and crossed takes as well | with what mutexes remember (`RemembersNoLess`) |
| `MutexProofs!NestedPrioritiesAreGivenBack` | `PriorityGivenBack` for callers that take in one order and release in the reverse (`InOrder`) | `OutermostRemembers`: the mutex of the highest rank a thread owns remembers the priority it was created with |
| `MutexProofs!NoCircleOfWaiters` | with those callers, if somebody waits then an owner that is waited for does not wait | the waited-for mutex of the least rank (`LeastNumber`): its owner would wait for one of a lower rank |
| `EventProofs!NobodyWaitsForWhatIsThere`, `ListHasTheWaiters`, `TypesHold` | `NoLostWakeup`, `WaitersAreListed`, `TypeOK` | the three together are inductive. The walk of a send is given by which places it serves; that it leaves nobody on bits that remain follows by taking the least place it would have left wrongly (`LeastNumber`) |
| `EventProofs!UrgentAreServedFirst` | `UrgentFirst` | the list is kept by urgency (`ByUrgency`); the walk comes to the more urgent of two equal requests first, and bits that are there for the second were there for the first |
| `EventProofs!ImplementsService` | the specification implements `EventService` | step simulation under that invariant: a woken thread already has its answer, so each of its later steps is a stutter or the return; a region of a detach refuses one call or nobody |
| `ThreadsProofs!EveryThreadInPlace`, `UrgentThreadRuns`, `TypesHold` | `InPlace`, `MostUrgentRuns`, `TypeOK`, all if `Races = {}` | the invariant is made of `Core` (queues, bitmap and current thread as a whole), `Ties` (how states go with timers, lists, the dead and who is being deleted), `Deleting` and `Owed` (what a thread in the middle of a start or deletion may still count on), `Going` (the current thread can run or is about to call `rt_schedule`), `Graves`. `rt_schedule` and the queue operators have lemmas of their own; each action cites them |
| `ThreadsProofs!EqualsKeepTheirOrder`, `EveryTurnEnds` | if `Races = {}`, the safety halves of `EqualsTakeTurns`: no equal passes a thread in a ready queue, and the processor goes to them in that order (`NobodyIsOvertaken`); while equals are queued each tick takes one from the running thread's slice and nothing gives one back, unless it locks the scheduler (`TurnsEnd`) | what `rt_schedule_insert_thread` and `rt_schedule_remove_thread` do to the order of a queue (`InsertOrder`, `RemoveOrder`); a step puts threads behind their equals first and takes one off last, so that the order survives both (`FollowsOn`) |
| `ConsoleProofs!TypesHold` | `TypeOK` | with `Sound` (a ring called full is not empty, and what lies between `get` and `put` came from the line), `Asks` and `Listed` |
| `ConsoleProofs!ReaderIsTold` | `NobodySleepsOnInput`, for one reader | `Told`: a reader about to sleep while a character is there has the flag set, so that its wait will not sleep |
| `ConsoleProofs!ReadersAreServed` | the specification implements `InputService`, for any number of readers | step simulation; the content of the ring under `Store` and `Taken` is an append and a tail, with the oldest dropped at the limit |

Assumptions are the `ASSUME`s of the modules, which TLC evaluates in each run, and the
hypotheses named above. What the code cannot do without is shown by the runs in which
it fails: `OneStarter` by `SoftTimerTwice`, `Races = {}` by `threads_delete`,
`ThreadsRunning` and `ThreadsStart`, one reader by `ConsoleTwo`, `CalledIsOut` by
`SoftTimerState`, `StoppedIsOut` by `SoftTimerStop`, `NextIsListed` by `SoftTimerStopped`,
the callers of `NeverSleepsPast` by `SoftTimerRace` and its premise, that no timeout is
`RT_TICK_MAX`, by `SoftTimerSentinel`; `OneEach` by `MutexCrossed` and `MutexNested`, the
flag by `MutexFifo`. A pool has to have a block in it (`rt_mq_init` does not ask for one;
without it a sender and a receiver wait for ever). `Headroom` says that no timeout, with
the lag, spans half of the counter: `rt_timer_start` asserts `init_tick < RT_TICK_MAX / 2`,
and what is left for the lag is up to the callers. `SleepRoom` asks the same with the
pause added.

`OneEach`, `CalledIsOut`, `StoppedIsOut` and `NextIsListed` are rules for callers, which the code does
not enforce; the theorems take them as `[]` of a state predicate, so that they speak of
the behaviours in which callers keep to them. `InOrder(Rank)` is such a rule for steps,
taken as `[][InOrder(Rank)]_vars` for some ranking of the mutexes: whoever takes a mutex,
waits for it or gives it back for good owns no other of a rank as low. With two
mutexes, even one at a time, `InversionIsBounded` is false, and the two theorems
`InversionBeginsByRelease` and `InversionEndsBySchedule` say how far.

The type invariants of `MessageQueue`, `SoftTimer`, `Mutex`, `Event`, `Threads` and
`Console` are proved and not model-checked again; those of `CameraPipeline` and `Gait` say
something of their own (the queue's limit, the range of a servo) and are checked too.

Only model-checked: all liveness (`TimedCallReturns`, `FramesKeepFlowing`,
`TimersExpire`, `EqualsTakeTurns`, `InputIsRead`) because the prover does not reason
about fairness and `ENABLED`, though the safety halves of all five are theorems
(`TimeoutsAreSpentOnce`, `CameraNeverStalls`, `NeverSleepsPastATimer`,
`EqualsKeepTheirOrder` with `EveryTurnEnds`, `ReaderIsTold`); and everything about
`Gait`, which is a fact about these tables and no others: its run has no bound and goes
through every state that one gait thread and the sampler can reach, so there is no
greater instance to prove it for.
Every other safety property that a run checks is a theorem.

## Not modelled, and why

- Colour recognition: numeric code over an image; its outcome is an input of
  `CameraPipeline`. `force_analysis` in `gear_con.c` is commented out, and so is the
  receiver of `mq`.
- Semaphores and mailboxes (planned below), memory pool, pipe, completion, data queue
  and work queue: the application's own code calls none of them.
- Mutexes in `Threads` and deletions in the IPC modules: a thread that dies *inside* a
  call on an object is in `Threads` only, where objects are one set of suspended
  threads. The IPC modules take their callers to live on.
- `rt_thread_suspend` and `rt_thread_control` on another thread, and the tick
  arithmetic of `rt_thread_delay_until`: the application calls none of them. Threads in
  `Threads` keep their priority.
- `rt_timer_control`, `rt_timer_detach` and `rt_timer_delete`. The list of hard timers
  is in `Threads` the set of threads whose timer runs and the ticks left of each.
- The rest of the console: output, DMA, modem control and the shell's line editor.
- What hardware decides: the DMA controller's choice of buffer, the sensor's
  registers, the display bus.
- The JPEG buffer that `camera_sample` allocates anew each time, and the ring buffer
  with mirror bits in `ringbuffer.c`, which only the pipe uses.
- Calls that only set the caller's error code, object registration, debug output.
- Heaps, file systems, network, vendored libraries, the Arduino ancestor.
- SMP and signals: compiled out.

## Plan

Done: `MessageQueue` with `QueueService`, `CameraPipeline`, `SoftTimer`, `Mutex` with
`LockService`, then `Event` with `EventService`, `Threads`, `Console` with
`InputService`, `Gait`, each with the theorems above.

Next, the most important first:

1. Theorems: how far inheritance reaches along a chain of owners, of which
   `rt_mutex_take` raises only the first.
2. `Mailbox` on the queue's scheme of waiting; whatever wait-list operators they share
   move to a module of their own, and the mailbox implements `QueueService` too.
   `Semaphore` is the queue without messages.
3. `Mutex` on `Threads`, so that a thread may be deleted while it owns or awaits a
   mutex.
4. `RingBuffer` (indices and mirror bits against a bounded sequence), `Completion`,
   `DataQueue`.

The list of runs is kept to one per question of the system: a new module's run takes
the place of one whose question it answers too.
