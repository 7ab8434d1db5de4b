---------------------------- MODULE LockService ----------------------------
(***************************************************************************)
(* What the mutexes promise their callers, without wait lists, values,     *)
(* priorities, time-outs or a scheduler: each mutex has at most one        *)
(* holder, who may hold it several times over.  Who asks for a held mutex  *)
(* is told later that it has it, and then it does, or that it has not.     *)
(* A mutex given back for good goes to somebody who still asks for it, if  *)
(* anybody does.  Who asks for one that is closed meanwhile is promised no *)
(* answer.                                                                 *)
(***************************************************************************)
EXTENDS Integers

CONSTANTS Thread, Mutex, Nobody

VARIABLES
    holder, depth,   \* of each mutex
    closed,          \* the mutexes nobody may use any more
    asks,            \* the mutex a thread is asking for
    stage,           \* of each thread: idle, asking, granted, refused
    told             \* how often a thread was told that it has a mutex, less
                     \* what it gave back

svars == <<holder, depth, closed, asks, stage, told>>

SInit ==
    /\ holder = [m \in Mutex |-> Nobody] /\ depth = [m \in Mutex |-> 0]
    /\ closed = {}
    /\ asks = [t \in Thread |-> Nobody] /\ stage = [t \in Thread |-> "idle"]
    /\ told = [t \in Thread |-> [m \in Mutex |-> 0]]

Asking(m) == {t \in Thread : asks[t] = m /\ stage[t] = "asking"}

\* The mutex is free or the caller's own.
Get(t, m) ==
    /\ stage[t] = "idle" /\ m \notin closed /\ holder[m] \in {t, Nobody}
    /\ holder' = [holder EXCEPT ![m] = t]
    /\ depth' = [depth EXCEPT ![m] = @ + 1]
    /\ told' = [told EXCEPT ![t][m] = @ + 1]
    /\ UNCHANGED <<closed, asks, stage>>

Ask(t, m) ==
    /\ stage[t] = "idle" /\ m \notin closed /\ holder[m] \notin {t, Nobody}
    /\ asks' = [asks EXCEPT ![t] = m]
    /\ stage' = [stage EXCEPT ![t] = "asking"]
    /\ UNCHANGED <<holder, depth, closed, told>>

GetBack(t) ==
    /\ stage[t] \in {"granted", "refused"}
    /\ told' = IF stage[t] = "granted" THEN [told EXCEPT ![t][asks[t]] = @ + 1] ELSE told
    /\ asks' = [asks EXCEPT ![t] = Nobody]
    /\ stage' = [stage EXCEPT ![t] = "idle"]
    /\ UNCHANGED <<holder, depth, closed>>

Inner(m) ==
    /\ depth[m] > 1
    /\ depth' = [depth EXCEPT ![m] = @ - 1]
    /\ UNCHANGED <<holder, stage>>

Free(m) ==
    /\ depth[m] = 1 /\ Asking(m) = {}
    /\ holder' = [holder EXCEPT ![m] = Nobody]
    /\ depth' = [depth EXCEPT ![m] = 0]
    /\ UNCHANGED stage

PassOn(m) ==
    \E u \in Asking(m) :
        /\ depth[m] = 1
        /\ holder' = [holder EXCEPT ![m] = u]
        /\ stage' = [stage EXCEPT ![u] = "granted"]
        /\ UNCHANGED depth

GiveBack(t, m) ==
    /\ stage[t] = "idle" /\ m \notin closed /\ holder[m] = t
    /\ Inner(m) \/ Free(m) \/ PassOn(m)
    /\ told' = [told EXCEPT ![t][m] = @ - 1]
    /\ UNCHANGED <<closed, asks>>

GiveUp(t) ==
    /\ stage[t] = "asking"
    /\ stage' = [stage EXCEPT ![t] = "refused"]
    /\ UNCHANGED <<holder, depth, closed, asks, told>>

Close(m) ==
    /\ closed' = closed \cup {m}
    /\ UNCHANGED <<holder, depth, asks, stage, told>>

SNext ==
    \/ \E t \in Thread, m \in Mutex : Get(t, m) \/ Ask(t, m) \/ GiveBack(t, m)
    \/ \E t \in Thread : GetBack(t) \/ GiveUp(t)
    \/ \E m \in Mutex : Close(m)

SSpec == SInit /\ [][SNext]_svars
=============================================================================
