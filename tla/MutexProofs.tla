---------------------------- MODULE MutexProofs ----------------------------
(***************************************************************************)
(* Mutual exclusion for every set of threads and mutexes, every priority,  *)
(* both flags and any nesting: whoever rt_mutex_take told that it has the  *)
(* mutex is its owner.  The owner is written by one thread while another   *)
(* waits, so the argument is about the thread in between: it was woken     *)
(* without an error exactly if the mutex was handed to it.                 *)
(*                                                                         *)
(* Then priority inheritance, where it matters who is more urgent and who  *)
(* stands first in a list.  It works for callers that take one mutex at a  *)
(* time (OneEach): a thread on a list then owns nothing, so the priority   *)
(* by which it stands there is its own and stays, whoever inherits what.   *)
(*                                                                         *)
(* Next, what that leaves true with several mutexes: who can begin an      *)
(* inversion and what ends it, and to whom a mutex goes.  Then callers who *)
(* nest: if there is one order of the mutexes that all of them keep to,    *)
(* priorities come back and nobody waits in a circle.  Last, a map of the  *)
(* states to those of LockService, for callers of any kind.                *)
(***************************************************************************)
EXTENDS Mutex, LeastNumber, TLAPS

Distinct(s) == \A i, j \in 1..Len(s) : s[i] = s[j] => i = j

\* A thread put in a list joins those that are on it.
LEMMA InsertedIsList ==
    ASSUME NEW s \in Seq(Threads), NEW i \in 1..Len(s) + 1, NEW t \in Threads,
           Distinct(s), ~On(t, s)
    PROVE  /\ Inserted(s, i, t) \in Seq(Threads) /\ Distinct(Inserted(s, i, t))
           /\ \A u \in Threads : On(u, Inserted(s, i, t)) <=> u = t \/ On(u, s)
<1> DEFINE r == Inserted(s, i, t)
<1>1. Len(s) \in Nat
  OBVIOUS
<1>2. ASSUME NEW j \in 1..Len(s) + 1
      PROVE  (IF j < i THEN s[j] ELSE IF j = i THEN t ELSE s[j - 1]) \in Threads
  BY <1>1
<1>3. r \in [1..Len(s) + 1 -> Threads]
  BY <1>2 DEF Inserted
<1>4. /\ r \in Seq(Threads) /\ Len(r) = Len(s) + 1
      /\ \A j \in 1..Len(s) + 1 : r[j] = IF j < i THEN s[j] ELSE IF j = i THEN t ELSE s[j - 1]
  BY <1>1, <1>3 DEF Inserted
<1>5. Distinct(r)
  <2> SUFFICES ASSUME NEW a \in 1..Len(r), NEW b \in 1..Len(r), r[a] = r[b]
               PROVE  a = b
    BY DEF Distinct
  <2>1. \A j \in 1..Len(s) : s[j] # t
    BY DEF On
  <2>2. a = i <=> b = i
    <3>1. \A j \in 1..Len(s) + 1 : j # i => r[j] # t
      BY <1>1, <1>4, <2>1
    <3>2. r[i] = t
      BY <1>1, <1>4
    <3> QED
      BY <1>4, <3>1, <3>2
  <2>3. CASE a # i
    <3> DEFINE pa == IF a < i THEN a ELSE a - 1
               pb == IF b < i THEN b ELSE b - 1
    <3>1. pa \in 1..Len(s) /\ pb \in 1..Len(s) /\ s[pa] = s[pb]
      BY <1>1, <1>4, <2>2, <2>3
    <3>2. pa = pb
      BY <3>1 DEF Distinct
    <3> QED
      BY <1>1, <1>4, <2>2, <2>3, <3>2
  <2> QED
    BY <2>2, <2>3
<1>6. ASSUME NEW u \in Threads, On(u, r) PROVE u = t \/ On(u, s)
  <2>1. PICK j \in 1..Len(s) + 1 : r[j] = u
    BY <1>4, <1>6 DEF On
  <2>2. r[j] = IF j < i THEN s[j] ELSE IF j = i THEN t ELSE s[j - 1]
    BY <1>4
  <2>3. CASE j < i
    BY <1>1, <2>1, <2>2, <2>3 DEF On
  <2>4. CASE j = i
    BY <2>1, <2>2, <2>4
  <2>5. CASE j > i
    <3>1. j - 1 \in 1..Len(s) /\ s[j - 1] = u
      BY <1>1, <2>1, <2>2, <2>5
    <3> QED
      BY <3>1 DEF On
  <2> QED
    BY <1>1, <2>3, <2>4, <2>5
<1>7. On(t, r)
  BY <1>1, <1>4 DEF On
<1>8. ASSUME NEW u \in Threads, On(u, s) PROVE On(u, r)
  <2>1. PICK j \in 1..Len(s) : s[j] = u
    BY <1>8 DEF On
  <2>2. CASE j < i
    BY <1>1, <1>4, <2>1, <2>2 DEF On
  <2>3. CASE ~(j < i)
    <3>1. j + 1 \in 1..Len(r) /\ r[j + 1] = u
      BY <1>1, <1>4, <2>1, <2>3
    <3> QED
      BY <3>1 DEF On
  <2> QED
    BY <2>2, <2>3
<1> QED
  BY <1>4, <1>5, <1>6, <1>7, <1>8

\* A thread taken out of a list is off it and the others stay.
LEMMA RemovedIsList ==
    ASSUME NEW s \in Seq(Threads), NEW i \in 1..Len(s), Distinct(s)
    PROVE  /\ Removed(s, i) \in Seq(Threads) /\ Distinct(Removed(s, i))
           /\ \A u \in Threads : On(u, Removed(s, i)) <=> u # s[i] /\ On(u, s)
<1> DEFINE r == Removed(s, i)
<1>1. Len(s) \in Nat /\ Len(s) - 1 \in Nat
  OBVIOUS
<1>2. ASSUME NEW j \in 1..Len(s) - 1
      PROVE  (IF j < i THEN s[j] ELSE s[j + 1]) \in Threads
  BY <1>1
<1>3. r \in [1..Len(s) - 1 -> Threads]
  BY <1>2 DEF Removed
<1>4. /\ r \in Seq(Threads) /\ Len(r) = Len(s) - 1
      /\ \A j \in 1..Len(s) - 1 : r[j] = IF j < i THEN s[j] ELSE s[j + 1]
  BY <1>1, <1>3 DEF Removed
<1>5. Distinct(r)
  BY <1>1, <1>4 DEF Distinct
<1>6. ASSUME NEW u \in Threads, On(u, r) PROVE u # s[i] /\ On(u, s)
  BY <1>1, <1>4, <1>6 DEF On, Distinct
<1>7. ASSUME NEW u \in Threads, u # s[i], On(u, s) PROVE On(u, r)
  <2>1. PICK j \in 1..Len(s) : s[j] = u
    BY <1>7 DEF On
  <2>2. CASE j < i
    BY <1>1, <1>4, <2>1, <2>2 DEF On
  <2>3. CASE ~(j < i)
    <3>1. j - 1 \in 1..Len(r) /\ r[j - 1] = u
      BY <1>1, <1>4, <1>7, <2>1, <2>3
    <3> QED
      BY <3>1 DEF On
  <2> QED
    BY <2>2, <2>3
<1> QED
  BY <1>4, <1>5, <1>6, <1>7

-----------------------------------------------------------------------------
\* A mutex is free or somebody has it.
Owned ==
    \A m \in Mutexes : IF owner[m] = None THEN hold[m] = 0 /\ value[m] = 1
                                          ELSE hold[m] > 0 /\ value[m] = 0

\* A thread in rt_mutex_take that is ready has the mutex or an error, and one
\* that is not is on the mutex's list.
Awakened ==
    \A t \in Threads :
        /\ stat[t] = "waiting" => wants[t] # None /\ On(t, waiting[wants[t]])
        /\ stat[t] = "sleeping" => wants[t] = None
        /\ stat[t] = "ready" /\ wants[t] # None =>
              IF error[t] THEN owner[wants[t]] # t
                          ELSE owner[wants[t]] = t /\ hold[wants[t]] = 1

\* Who is on a list waits for another thread, and for no other mutex.
Listed ==
    \A m \in Mutexes, t \in Threads : On(t, waiting[m]) =>
        /\ stat[t] = "waiting" /\ wants[t] = m /\ ~error[t]
        /\ owner[m] # None /\ owner[m] # t

Once == \A m \in Mutexes : Distinct(waiting[m])

\* The running thread is ready, and only a waiting thread is timed.
Running ==
    /\ run # None => stat[run] = "ready"
    /\ \A t \in Threads : timed[t] => stat[t] = "waiting"

IInv == TypeOK /\ HoldersAgree /\ Owned /\ Awakened /\ Listed /\ Once /\ Running

-----------------------------------------------------------------------------
LEMMA Initially == Init => IInv
<1> SUFFICES ASSUME Init PROVE IInv
  OBVIOUS
<1> USE DEF Init
<1>1. TypeOK
  BY MutexAssumption DEF TypeOK, Where
<1>2. HoldersAgree /\ Owned /\ Awakened /\ Listed /\ Once
  BY MutexAssumption DEF HoldersAgree, Owned, Awakened, Listed, Once, On, Distinct
<1>3. Running
  BY MutexAssumption DEF Running
<1> QED
  BY <1>1, <1>2, <1>3 DEF IInv

\* rt_schedule leaves a ready thread running, or none.
LEMMA ScheduleRuns ==
    ASSUME Schedule PROVE run' = None \/ (run' \in Threads /\ stat'[run'] = "ready")
  BY DEF Schedule, Highest

\* A mutex with waiters has an owner and is not free.
LEMMA WaitedFor ==
    ASSUME IInv, NEW m \in Mutexes, waiting[m] # <<>>
    PROVE  owner[m] # None /\ value[m] = 0
<1>1. waiting[m] \in Seq(Threads)
  BY DEF IInv, TypeOK
<1>2. 1 \in 1..Len(waiting[m]) /\ waiting[m][1] \in Threads
  BY <1>1
<1>3. On(waiting[m][1], waiting[m])
  BY <1>2 DEF On
<1> QED
  BY <1>2, <1>3 DEF IInv, Owned, Listed

\* A step that lets the lists and whoever is on them alone.
LEMMA ListsKept ==
    ASSUME IInv, UNCHANGED waiting,
           \A u \in Threads : stat[u] = "waiting" =>
              stat'[u] = "waiting" /\ wants'[u] = wants[u] /\ error'[u] = error[u],
           \A m \in Mutexes : waiting[m] # <<>> => owner'[m] = owner[m]
    PROVE  Listed' /\ Once'
<1>1. Once'
  BY DEF IInv, Once
<1>2. ASSUME NEW m \in Mutexes, NEW u \in Threads, On(u, waiting[m])
      PROVE  /\ stat'[u] = "waiting" /\ wants'[u] = m /\ ~error'[u]
             /\ owner'[m] # None /\ owner'[m] # u
  <2>1. waiting[m] # <<>>
    BY <1>2 DEF On
  <2> QED
    BY <1>2, <2>1 DEF IInv, Listed
<1> QED
  BY <1>1, <1>2 DEF Listed

LEMMA TakeAgainKeeps ==
    ASSUME IInv, NEW t \in Threads, NEW m \in Mutexes,
           run = t, wants[t] = None, TakeAgain(t, m)
    PROVE  IInv'
<1> USE MutexAssumption DEF TakeAgain, detaching
<1>1. stat[run] = "ready"
  BY DEF IInv, Running
<1>2. TypeOK'
  <2>1. has[t][m] = hold[m] /\ hold[m] \in 0..MaxHold /\ hold[m] < MaxHold
    BY DEF IInv, TypeOK, HoldersAgree
  <2>2. hold[m] + 1 \in 0..MaxHold
    BY <2>1
  <2>3. hold' \in [Mutexes -> 0..MaxHold] /\ has' \in [Threads -> [Mutexes -> 0..MaxHold]]
    BY <2>1, <2>2 DEF IInv, TypeOK
  <2> QED
    BY <2>3 DEF IInv, TypeOK
<1>3. Listed' /\ Once'
  BY <1>1, ListsKept DEF IInv, TypeOK
<1>4. HoldersAgree'
  <2> SUFFICES ASSUME NEW u \in Threads, NEW k \in Mutexes
               PROVE  has'[u][k] = IF owner'[k] = u /\ wants'[u] # k THEN hold'[k] ELSE 0
    BY DEF HoldersAgree
  <2>1. has[u][k] = IF owner[k] = u /\ wants[u] # k THEN hold[k] ELSE 0
    BY DEF IInv, HoldersAgree
  <2>2. has'[u][k] = IF u = t /\ k = m THEN has[t][m] + 1 ELSE has[u][k]
    BY DEF IInv, TypeOK
  <2>3. hold'[k] = IF k = m THEN hold[m] + 1 ELSE hold[k]
    BY DEF IInv, TypeOK
  <2>4. /\ owner'[k] = owner[k]
        /\ wants'[u] = wants[u]
    BY DEF IInv, TypeOK
  <2> QED
    BY <2>1, <2>2, <2>3, <2>4 DEF IInv, TypeOK
<1>5. Owned'
  BY DEF IInv, TypeOK, Owned, HoldersAgree
<1>6. Awakened'
  <2>1. \A u \in Threads : stat'[u] = stat[u] /\ wants'[u] = wants[u] /\ (u # t => error'[u] = error[u])
    BY DEF IInv, TypeOK
  <2>2. \A k \in Mutexes : /\ hold'[k] = IF k = m THEN hold[m] + 1 ELSE hold[k]
                          /\ owner'[k] = owner[k]
    BY DEF IInv, TypeOK
  <2>3. \A u \in Threads : u # t /\ stat[u] = "ready" /\ wants[u] = m => error[u]
    BY DEF IInv, TypeOK, Awakened
  <2> SUFFICES ASSUME NEW u \in Threads, u # t
               PROVE  /\ stat[u] = "waiting" => wants[u] # None /\ On(u, waiting[wants[u]])
                      /\ stat[u] = "sleeping" => wants[u] = None
                      /\ stat[u] = "ready" /\ wants[u] # None =>
                            IF error[u] THEN owner'[wants[u]] # u
                                        ELSE owner'[wants[u]] = u /\ hold'[wants[u]] = 1
    BY <1>1, <2>1 DEF IInv, Awakened
  <2>4. wants[u] \in Mutexes \cup {None}
    BY DEF IInv, TypeOK
  <2> QED
    BY <2>2, <2>3, <2>4 DEF IInv, Awakened
<1>7. Running'
  BY <1>1 DEF IInv, TypeOK, Running
<1> QED
  BY <1>2, <1>3, <1>4, <1>5, <1>6, <1>7 DEF IInv

LEMMA TakeFreeKeeps ==
    ASSUME IInv, NEW t \in Threads, NEW m \in Mutexes,
           run = t, wants[t] = None, TakeFree(t, m)
    PROVE  IInv'
<1> USE MutexAssumption DEF TakeFree, detaching
<1>1. stat[run] = "ready"
  BY DEF IInv, Running
<1>2. TypeOK'
  <2>1. owner[m] = None /\ hold[m] = 0 /\ value[m] = 1 /\ has[t][m] = 0
    BY DEF IInv, TypeOK, Owned, HoldersAgree
  <2>2. hold[m] + 1 \in 0..MaxHold
    BY <2>1
  <2>3. hold' \in [Mutexes -> 0..MaxHold] /\ has' \in [Threads -> [Mutexes -> 0..MaxHold]]
        /\ value' \in [Mutexes -> {0, 1}]
    BY <2>1, <2>2 DEF IInv, TypeOK
  <2>4. owner' \in [Mutexes -> Threads \cup {None}] /\ original' \in [Mutexes -> Nat]
    BY DEF IInv, TypeOK
  <2> QED
    BY <2>3, <2>4 DEF IInv, TypeOK
<1>3. Listed' /\ Once'
  <2>1. waiting[m] = <<>>
    BY WaitedFor
  <2>2. ASSUME NEW k \in Mutexes, waiting[k] # <<>> PROVE owner'[k] = owner[k]
    BY <2>1, <2>2 DEF IInv, TypeOK
  <2>3. ASSUME NEW u \in Threads, stat[u] = "waiting"
        PROVE  stat'[u] = "waiting" /\ wants'[u] = wants[u] /\ error'[u] = error[u]
    BY <1>1, <2>3 DEF IInv, TypeOK
  <2> QED
    BY <2>2, <2>3, ListsKept
<1>4. HoldersAgree'
  <2> SUFFICES ASSUME NEW u \in Threads, NEW k \in Mutexes
               PROVE  has'[u][k] = IF owner'[k] = u /\ wants'[u] # k THEN hold'[k] ELSE 0
    BY DEF HoldersAgree
  <2>1. has[u][k] = IF owner[k] = u /\ wants[u] # k THEN hold[k] ELSE 0
    BY DEF IInv, HoldersAgree
  <2>2. has'[u][k] = IF u = t /\ k = m THEN has[t][m] + 1 ELSE has[u][k]
    BY DEF IInv, TypeOK
  <2>3. hold'[k] = IF k = m THEN hold[m] + 1 ELSE hold[k]
    BY DEF IInv, TypeOK
  <2>4. /\ owner'[k] = IF k = m THEN t ELSE owner[k]
        /\ wants'[u] = wants[u]
    BY DEF IInv, TypeOK
  <2>5. owner[m] = None /\ hold[m] = 0
    BY DEF IInv, Owned
  <2>6. k = m => has[u][k] = 0
    BY <2>1, <2>5
  <2>7. CASE k = m
    BY <2>2, <2>3, <2>4, <2>5, <2>6, <2>7
  <2>8. CASE k # m
    BY <2>1, <2>2, <2>3, <2>4, <2>8
  <2> QED
    BY <2>7, <2>8
<1>5. Owned'
  BY DEF IInv, TypeOK, Owned, HoldersAgree
<1>6. Awakened'
  <2>1. \A u \in Threads : stat'[u] = stat[u] /\ wants'[u] = wants[u] /\ (u # t => error'[u] = error[u])
    BY DEF IInv, TypeOK
  <2>2. \A k \in Mutexes : /\ hold'[k] = IF k = m THEN hold[m] + 1 ELSE hold[k]
                          /\ owner'[k] = IF k = m THEN t ELSE owner[k]
    BY DEF IInv, TypeOK
  <2>3. \A u \in Threads : u # t /\ stat[u] = "ready" /\ wants[u] = m => error[u]
    <3>1. owner[m] = None
      BY DEF IInv, Owned
    <3> QED
      BY <3>1, MutexAssumption DEF IInv, Awakened
  <2> SUFFICES ASSUME NEW u \in Threads, u # t
               PROVE  /\ stat[u] = "waiting" => wants[u] # None /\ On(u, waiting[wants[u]])
                      /\ stat[u] = "sleeping" => wants[u] = None
                      /\ stat[u] = "ready" /\ wants[u] # None =>
                            IF error[u] THEN owner'[wants[u]] # u
                                        ELSE owner'[wants[u]] = u /\ hold'[wants[u]] = 1
    BY <1>1, <2>1 DEF IInv, Awakened
  <2>4. wants[u] \in Mutexes \cup {None}
    BY DEF IInv, TypeOK
  <2> QED
    BY <2>2, <2>3, <2>4 DEF IInv, Awakened
<1>7. Running'
  BY <1>1 DEF IInv, TypeOK, Running
<1> QED
  BY <1>2, <1>3, <1>4, <1>5, <1>6, <1>7 DEF IInv

LEMMA ReleaseInnerKeeps ==
    ASSUME IInv, NEW t \in Threads, NEW m \in Mutexes,
           run = t, wants[t] = None, owner[m] = t,
           has' = [has EXCEPT ![t][m] = @ - 1], ReleaseInner(t, m)
    PROVE  IInv'
<1> USE MutexAssumption DEF ReleaseInner, detaching
<1>1. stat[run] = "ready"
  BY DEF IInv, Running
<1>2. TypeOK'
  <2>1. has[t][m] = hold[m] /\ hold[m] \in 0..MaxHold /\ hold[m] > 1
    BY DEF IInv, TypeOK, HoldersAgree
  <2>2. hold[m] - 1 \in 0..MaxHold
    BY <2>1
  <2>3. hold' \in [Mutexes -> 0..MaxHold] /\ has' \in [Threads -> [Mutexes -> 0..MaxHold]]
    BY <2>1, <2>2 DEF IInv, TypeOK
  <2> QED
    BY <2>3 DEF IInv, TypeOK
<1>3. Listed' /\ Once'
  BY <1>1, ListsKept DEF IInv, TypeOK
<1>4. HoldersAgree'
  <2> SUFFICES ASSUME NEW u \in Threads, NEW k \in Mutexes
               PROVE  has'[u][k] = IF owner'[k] = u /\ wants'[u] # k THEN hold'[k] ELSE 0
    BY DEF HoldersAgree
  <2>1. has[u][k] = IF owner[k] = u /\ wants[u] # k THEN hold[k] ELSE 0
    BY DEF IInv, HoldersAgree
  <2>2. has'[u][k] = IF u = t /\ k = m THEN has[t][m] - 1 ELSE has[u][k]
    BY DEF IInv, TypeOK
  <2>3. hold'[k] = IF k = m THEN hold[m] - 1 ELSE hold[k]
    BY DEF IInv, TypeOK
  <2>4. /\ owner'[k] = owner[k]
        /\ wants'[u] = wants[u]
    BY DEF IInv, TypeOK
  <2> QED
    BY <2>1, <2>2, <2>3, <2>4 DEF IInv, TypeOK
<1>5. Owned'
  BY DEF IInv, TypeOK, Owned, HoldersAgree
<1>6. Awakened'
  <2>1. \A u \in Threads : stat'[u] = stat[u] /\ wants'[u] = wants[u] /\ (u # t => error'[u] = error[u])
    BY DEF IInv, TypeOK
  <2>2. \A k \in Mutexes : /\ hold'[k] = IF k = m THEN hold[m] - 1 ELSE hold[k]
                          /\ owner'[k] = owner[k]
    BY DEF IInv, TypeOK
  <2>3. \A u \in Threads : u # t /\ stat[u] = "ready" /\ wants[u] = m => error[u]
    BY DEF IInv, TypeOK, Awakened
  <2> SUFFICES ASSUME NEW u \in Threads, u # t
               PROVE  /\ stat[u] = "waiting" => wants[u] # None /\ On(u, waiting[wants[u]])
                      /\ stat[u] = "sleeping" => wants[u] = None
                      /\ stat[u] = "ready" /\ wants[u] # None =>
                            IF error[u] THEN owner'[wants[u]] # u
                                        ELSE owner'[wants[u]] = u /\ hold'[wants[u]] = 1
    BY <1>1, <2>1 DEF IInv, Awakened
  <2>4. wants[u] \in Mutexes \cup {None}
    BY DEF IInv, TypeOK
  <2> QED
    BY <2>2, <2>3, <2>4 DEF IInv, Awakened
<1>7. Running'
  BY <1>1 DEF IInv, TypeOK, Running
<1> QED
  BY <1>2, <1>3, <1>4, <1>5, <1>6, <1>7 DEF IInv

LEMMA ReleaseFreeKeeps ==
    ASSUME IInv, NEW t \in Threads, NEW m \in Mutexes,
           run = t, wants[t] = None, owner[m] = t,
           has' = [has EXCEPT ![t][m] = @ - 1], ReleaseFree(t, m)
    PROVE  IInv'
<1> USE MutexAssumption DEF ReleaseFree, Restored, detaching
<1>1. stat[run] = "ready"
  BY DEF IInv, Running
<1>2. TypeOK'
  <2>1. has[t][m] = 1 /\ value[m] = 0
    BY DEF IInv, TypeOK, HoldersAgree, Owned
  <2>2. hold' \in [Mutexes -> 0..MaxHold] /\ has' \in [Threads -> [Mutexes -> 0..MaxHold]]
        /\ value' \in [Mutexes -> {0, 1}]
    BY <2>1 DEF IInv, TypeOK
  <2>3. owner' \in [Mutexes -> Threads \cup {None}] /\ original' \in [Mutexes -> Nat]
        /\ prio' \in [Threads -> Nat]
    BY DEF IInv, TypeOK
  <2> QED
    BY <2>2, <2>3 DEF IInv, TypeOK
<1>3. Listed' /\ Once'
  <2>1. ASSUME NEW k \in Mutexes, waiting[k] # <<>> PROVE owner'[k] = owner[k]
    BY <2>1 DEF IInv, TypeOK
  <2> QED
    BY <2>1, ListsKept
<1>4. HoldersAgree'
  <2> SUFFICES ASSUME NEW u \in Threads, NEW k \in Mutexes
               PROVE  has'[u][k] = IF owner'[k] = u /\ wants'[u] # k THEN hold'[k] ELSE 0
    BY DEF HoldersAgree
  <2>1. has[u][k] = IF owner[k] = u /\ wants[u] # k THEN hold[k] ELSE 0
    BY DEF IInv, HoldersAgree
  <2>2. has'[u][k] = IF u = t /\ k = m THEN has[t][m] - 1 ELSE has[u][k]
    BY DEF IInv, TypeOK
  <2>3. hold'[k] = IF k = m THEN hold[m] - 1 ELSE hold[k]
    BY DEF IInv, TypeOK
  <2>4. /\ owner'[k] = IF k = m THEN None ELSE owner[k]
        /\ wants'[u] = wants[u]
    BY DEF IInv, TypeOK
  <2>5. hold[m] = 1 /\ has[t][m] = 1
    BY DEF IInv, TypeOK, HoldersAgree
  <2>6. CASE k = m /\ u # t
    BY <2>1, <2>2, <2>4, <2>6
  <2>7. CASE k = m /\ u = t
    BY <2>2, <2>4, <2>5, <2>7
  <2>8. CASE k # m
    BY <2>1, <2>2, <2>3, <2>4, <2>8
  <2> QED
    BY <2>6, <2>7, <2>8
<1>5. Owned'
  BY DEF IInv, TypeOK, Owned, HoldersAgree
<1>6. Awakened'
  BY <1>1, <1>2 DEF IInv, TypeOK, HoldersAgree, Owned, Awakened
<1>7. Running'
  BY <1>1 DEF IInv, TypeOK, Running
<1> QED
  BY <1>2, <1>3, <1>4, <1>5, <1>6, <1>7 DEF IInv

LEMMA ReturnKeeps ==
    ASSUME IInv, NEW t \in Threads, Return(t)
    PROVE  IInv'
<1> USE MutexAssumption DEF Return, Outcome, mutexes, detaching
<1>1. stat[run] = "ready"
  BY DEF IInv, Running
<1>2. TypeOK'
  <2>1. wants[t] \in Mutexes /\ (~error[t] => hold[wants[t]] = 1 /\ has[t][wants[t]] = 0)
    BY <1>1 DEF IInv, TypeOK, Awakened, HoldersAgree
  <2>2. has' \in [Threads -> [Mutexes -> 0..MaxHold]]
    BY <2>1 DEF IInv, TypeOK
  <2> QED
    BY <2>2 DEF IInv, TypeOK
<1>3. Listed' /\ Once'
  <2>1. ASSUME NEW u \in Threads, stat[u] = "waiting"
        PROVE  stat'[u] = "waiting" /\ wants'[u] = wants[u] /\ error'[u] = error[u]
    BY <1>1, <2>1 DEF IInv, TypeOK
  <2> QED
    BY <2>1, ListsKept
<1>4. HoldersAgree'
  BY <1>1, <1>2 DEF IInv, TypeOK, HoldersAgree, Owned, Awakened
<1>5. Owned'
  BY DEF IInv, TypeOK, Owned, HoldersAgree
<1>6. Awakened'
  BY <1>1, <1>2 DEF IInv, TypeOK, HoldersAgree, Owned, Awakened
<1>7. Running'
  BY <1>1 DEF IInv, TypeOK, Running
<1> QED
  BY <1>2, <1>3, <1>4, <1>5, <1>6, <1>7 DEF IInv

LEMMA SleepKeeps ==
    ASSUME IInv, NEW t \in Threads, Sleep(t)
    PROVE  IInv'
<1> USE MutexAssumption DEF Sleep, MayCall, mutexes, detaching
<1>1. stat[run] = "ready"
  BY DEF IInv, Running
<1>2. TypeOK'
  BY ScheduleRuns DEF IInv, TypeOK
<1>3. Listed' /\ Once'
  BY <1>1, ListsKept DEF IInv, TypeOK
<1>4. HoldersAgree'
  BY <1>1, <1>2 DEF IInv, TypeOK, HoldersAgree, Owned, Awakened
<1>5. Owned'
  BY DEF IInv, TypeOK, Owned, HoldersAgree
<1>6. Awakened'
  BY <1>1, <1>2 DEF IInv, TypeOK, HoldersAgree, Owned, Awakened
<1>7. Running'
  BY <1>1, ScheduleRuns DEF IInv, TypeOK, Running
<1> QED
  BY <1>2, <1>3, <1>4, <1>5, <1>6, <1>7 DEF IInv

LEMMA WakeKeeps ==
    ASSUME IInv, NEW t \in Threads, Wake(t)
    PROVE  IInv'
<1> USE MutexAssumption DEF Wake, mutexes, detaching
<1>1. stat[t] # "waiting" /\ wants[t] = None
  BY DEF IInv, Awakened
<1>2. TypeOK'
  BY ScheduleRuns DEF IInv, TypeOK
<1>3. Listed' /\ Once'
  BY <1>1, ListsKept DEF IInv, TypeOK
<1>4. HoldersAgree'
  BY <1>1, <1>2 DEF IInv, TypeOK, HoldersAgree, Owned, Awakened
<1>5. Owned'
  BY DEF IInv, TypeOK, Owned, HoldersAgree
<1>6. Awakened'
  BY <1>1, <1>2 DEF IInv, TypeOK, HoldersAgree, Owned, Awakened
<1>7. Running'
  BY <1>1, ScheduleRuns DEF IInv, TypeOK, Running
<1> QED
  BY <1>2, <1>3, <1>4, <1>5, <1>6, <1>7 DEF IInv

LEMMA SliceKeeps == ASSUME IInv, Slice PROVE IInv'
<1> USE DEF Slice, mutexes, detaching
<1>1. run' \in Threads /\ stat'[run'] = "ready"
  BY DEF Highest
<1>2. TypeOK' /\ Running'
  BY <1>1 DEF IInv, TypeOK, Running
<1>3. Listed' /\ Once'
  BY DEF IInv, Listed, Once, On
<1>4. HoldersAgree' /\ Owned' /\ Awakened'
  BY DEF IInv, HoldersAgree, Owned, Awakened
<1> QED
  BY <1>2, <1>3, <1>4 DEF IInv

LEMMA TakeWaitKeeps ==
    ASSUME IInv, NEW t \in Threads, NEW m \in Mutexes,
           run = t, wants[t] = None, TakeWait(t, m)
    PROVE  IInv'
<1> USE MutexAssumption DEF TakeWait, detaching
<1>1. stat[t] = "ready" /\ owner[m] \in Threads /\ ~timed[t] /\ \A k \in Mutexes : ~On(t, waiting[k])
  BY DEF IInv, TypeOK, Owned, Running, Listed
<1>2. PICK i \in Places(waiting[m], t) : waiting' = [waiting EXCEPT ![m] = Inserted(@, i, t)]
  OBVIOUS
<1>3. i \in 1..Len(waiting[m]) + 1 /\ waiting[m] \in Seq(Threads)
  BY DEF Places, IInv, TypeOK
<1>4. /\ waiting'[m] \in Seq(Threads) /\ Distinct(waiting'[m])
      /\ \A u \in Threads : On(u, waiting'[m]) <=> u = t \/ On(u, waiting[m])
      /\ \A k \in Mutexes : k # m => waiting'[k] = waiting[k]
  <2>1. Distinct(waiting[m])
    BY DEF IInv, Once
  <2>2. /\ waiting'[m] = Inserted(waiting[m], i, t)
        /\ \A k \in Mutexes : k # m => waiting'[k] = waiting[k]
    BY <1>2 DEF IInv, TypeOK
  <2>3. ~On(t, waiting[m])
    BY <1>1
  <2> HIDE DEF TakeWait
  <2>4. /\ Inserted(waiting[m], i, t) \in Seq(Threads)
        /\ Distinct(Inserted(waiting[m], i, t))
        /\ \A u \in Threads : On(u, Inserted(waiting[m], i, t)) <=> u = t \/ On(u, waiting[m])
    BY <1>3, <2>1, <2>3, InsertedIsList
  <2> QED
    BY <2>2, <2>4
<1>5. TypeOK'
  <2>1. prio' \in [Threads -> Nat]
    BY <1>1 DEF Raised, IInv, TypeOK
  <2>2. waiting' \in [Mutexes -> Seq(Threads)]
    BY <1>2, <1>4 DEF IInv, TypeOK
  <2>3. timed' \in [Threads -> BOOLEAN]
    BY DEF IInv, TypeOK
  <2> QED
    BY <2>1, <2>2, <2>3, ScheduleRuns DEF IInv, TypeOK
<1>6. Listed'
  <2> SUFFICES ASSUME NEW k \in Mutexes, NEW u \in Threads, On(u, waiting'[k])
               PROVE  /\ stat'[u] = "waiting" /\ wants'[u] = k /\ ~error'[u]
                      /\ owner'[k] # None /\ owner'[k] # u
    BY DEF Listed
  <2>1. CASE u = t
    BY <1>1, <1>4, <2>1 DEF IInv, TypeOK
  <2>2. CASE u # t
    <3>1. On(u, waiting[k])
      BY <1>4, <2>2
    <3>2. stat'[u] = stat[u] /\ wants'[u] = wants[u] /\ error'[u] = error[u]
      BY <2>2 DEF IInv, TypeOK
    <3> QED
      BY <3>1, <3>2 DEF IInv, Listed
  <2> QED
    BY <2>1, <2>2
<1>7. Once'
  BY <1>4 DEF IInv, Once
<1>8. HoldersAgree'
  <2>1. \A u \in Threads : wants'[u] = IF u = t THEN m ELSE wants[u]
    BY DEF IInv, TypeOK
  <2>2. has' = has /\ owner' = owner /\ hold' = hold /\ owner[m] # t
    OBVIOUS
  <2> QED
    BY <1>1, <2>1, <2>2 DEF IInv, HoldersAgree
<1>9. Owned'
  BY DEF IInv, Owned
<1>10. Awakened'
  <2> SUFFICES ASSUME NEW u \in Threads
               PROVE  /\ stat'[u] = "waiting" => wants'[u] # None /\ On(u, waiting'[wants'[u]])
                      /\ stat'[u] = "sleeping" => wants'[u] = None
                      /\ stat'[u] = "ready" /\ wants'[u] # None =>
                            IF error'[u] THEN owner'[wants'[u]] # u
                                         ELSE owner'[wants'[u]] = u /\ hold'[wants'[u]] = 1
    BY DEF Awakened
  <2>1. CASE u = t
    BY <1>4, <2>1 DEF IInv, TypeOK
  <2>2. CASE u # t
    <3>1. stat'[u] = stat[u] /\ wants'[u] = wants[u] /\ error'[u] = error[u]
      BY <2>2 DEF IInv, TypeOK
    <3>2. owner' = owner /\ hold' = hold /\ wants[u] \in Mutexes \cup {None}
      BY DEF IInv, TypeOK
    <3>3. wants[u] # None /\ On(u, waiting[wants[u]]) => On(u, waiting'[wants[u]])
      BY <1>4, <3>2
    <3> QED
      BY <3>1, <3>2, <3>3 DEF IInv, Awakened
  <2> QED
    BY <2>1, <2>2
<1>11. Running'
  BY ScheduleRuns DEF IInv, TypeOK, Running
<1> QED
  BY <1>5, <1>6, <1>7, <1>8, <1>9, <1>10, <1>11 DEF IInv

LEMMA HandOverKeeps ==
    ASSUME IInv, NEW t \in Threads, NEW m \in Mutexes,
           run = t, wants[t] = None, owner[m] = t, HandOver(t, m),
           has' = [has EXCEPT ![t][m] = @ - 1]
    PROVE  IInv'
<1> DEFINE new == waiting[m][1]
<1> USE MutexAssumption DEF HandOver, detaching
<1>1. stat[t] = "ready"
  BY DEF IInv, Running
<1>2. 1 \in 1..Len(waiting[m]) /\ waiting[m] \in Seq(Threads) /\ new \in Threads
  BY DEF IInv, TypeOK
<1>3. /\ On(new, waiting[m]) /\ new # t /\ wants[new] = m /\ ~error[new]
      /\ hold[m] = 1 /\ has[new][m] = 0 /\ has[t][m] = 1
  <2>1. On(new, waiting[m])
    BY <1>2 DEF On
  <2>2. new # t /\ wants[new] = m /\ ~error[new]
    BY <1>1, <1>2, <2>1 DEF IInv, Listed
  <2>3. hold[m] = 1
    OBVIOUS
  <2>4. /\ has[t][m] = IF owner[m] = t /\ wants[t] # m THEN hold[m] ELSE 0
        /\ has[new][m] = IF owner[m] = new /\ wants[new] # m THEN hold[m] ELSE 0
    BY <1>2 DEF IInv, HoldersAgree
  <2> HIDE DEF HandOver, new
  <2> QED
    BY <2>1, <2>2, <2>3, <2>4, MutexAssumption
<1>4. /\ waiting'[m] \in Seq(Threads) /\ Distinct(waiting'[m])
      /\ \A u \in Threads : On(u, waiting'[m]) <=> u # new /\ On(u, waiting[m])
      /\ \A k \in Mutexes : k # m => waiting'[k] = waiting[k]
  <2>1. Distinct(waiting[m])
    BY DEF IInv, Once
  <2>2. /\ waiting'[m] = Removed(waiting[m], 1)
        /\ \A k \in Mutexes : k # m => waiting'[k] = waiting[k]
    BY DEF FirstLeaves, IInv, TypeOK
  <2> HIDE DEF HandOver
  <2> QED
    BY <1>2, <2>1, <2>2, RemovedIsList
<1>5. TypeOK'
  <2>1. prio' \in [Threads -> Nat] /\ original' \in [Mutexes -> Nat]
    BY <1>2 DEF Restored, IInv, TypeOK
  <2>2. waiting' \in [Mutexes -> Seq(Threads)]
    BY <1>4 DEF FirstLeaves, IInv, TypeOK
  <2>3. owner' \in [Mutexes -> Threads \cup {None}] /\ has' \in [Threads -> [Mutexes -> 0..MaxHold]]
    BY <1>2, <1>3 DEF IInv, TypeOK
  <2>4. stat' \in [Threads -> {"ready", "waiting", "sleeping"}] /\ timed' \in [Threads -> BOOLEAN]
    BY DEF IInv, TypeOK
  <2> QED
    BY <2>1, <2>2, <2>3, <2>4, ScheduleRuns DEF IInv, TypeOK
<1>6. Listed'
  <2> SUFFICES ASSUME NEW k \in Mutexes, NEW u \in Threads, On(u, waiting'[k])
               PROVE  /\ stat'[u] = "waiting" /\ wants'[u] = k /\ ~error'[u]
                      /\ owner'[k] # None /\ owner'[k] # u
    BY DEF Listed
  <2>1. u # new /\ On(u, waiting[k])
    <3>1. CASE k = m
      BY <1>4, <3>1
    <3>2. CASE k # m
      BY <1>3, <1>4, <3>2 DEF IInv, Listed
    <3> QED
      BY <3>1, <3>2
  <2>2. stat'[u] = "waiting" /\ wants'[u] = k /\ ~error'[u]
    BY <2>1 DEF IInv, TypeOK, Listed
  <2>3. owner'[k] # None /\ owner'[k] # u
    BY <1>2, <2>1 DEF IInv, TypeOK, Listed
  <2> QED
    BY <2>2, <2>3
<1>7. Once'
  BY <1>4 DEF IInv, Once
<1>8. HoldersAgree'
  <2> SUFFICES ASSUME NEW u \in Threads, NEW k \in Mutexes
               PROVE  has'[u][k] = IF owner'[k] = u /\ wants'[u] # k THEN hold'[k] ELSE 0
    BY DEF HoldersAgree
  <2>1. has[u][k] = IF owner[k] = u /\ wants[u] # k THEN hold[k] ELSE 0
    BY DEF IInv, HoldersAgree
  <2>2. CASE k = m
    <3>1. CASE u = t
      BY <1>2, <1>3, <2>2, <3>1 DEF IInv, TypeOK
    <3>2. CASE u # t
      BY <1>2, <1>3, <2>1, <2>2, <3>2 DEF IInv, TypeOK
    <3> QED
      BY <3>1, <3>2
  <2>3. CASE k # m
    BY <2>1, <2>3 DEF IInv, TypeOK
  <2> QED
    BY <2>2, <2>3
<1>9. Owned'
  BY <1>2, <1>3 DEF IInv, TypeOK, Owned
<1>10. Awakened'
  <2> SUFFICES ASSUME NEW u \in Threads
               PROVE  /\ stat'[u] = "waiting" => wants'[u] # None /\ On(u, waiting'[wants'[u]])
                      /\ stat'[u] = "sleeping" => wants'[u] = None
                      /\ stat'[u] = "ready" /\ wants'[u] # None =>
                            IF error'[u] THEN owner'[wants'[u]] # u
                                         ELSE owner'[wants'[u]] = u /\ hold'[wants'[u]] = 1
    BY DEF Awakened
  <2>1. CASE u = new
    BY <1>2, <1>3, <2>1 DEF IInv, TypeOK
  <2>2. CASE u = t
    BY <1>1, <1>3, <2>2 DEF IInv, TypeOK
  <2>3. CASE u # new /\ u # t
    <3>1. wants[u] = m /\ stat[u] = "ready" => error[u]
      BY <2>3 DEF IInv, TypeOK, Awakened
    <3>2. stat'[u] = stat[u] /\ wants'[u] = wants[u] /\ error'[u] = error[u]
          /\ wants[u] \in Mutexes \cup {None}
      BY <2>3 DEF IInv, TypeOK
    <3>3. CASE wants[u] = m
      <4>1. stat[u] = "waiting" => On(u, waiting'[m])
        BY <1>4, <2>3, <3>3 DEF IInv, Awakened
      <4>2. stat[u] # "sleeping"
        BY <3>3, MutexAssumption DEF IInv, Awakened
      <4>3. owner'[m] # u
        BY <1>2, <2>3 DEF IInv, TypeOK
      <4> QED
        BY <3>1, <3>2, <3>3, <4>1, <4>2, <4>3, MutexAssumption
    <3>4. CASE wants[u] # m /\ wants[u] # None
      <4>1. waiting'[wants[u]] = waiting[wants[u]] /\ owner'[wants[u]] = owner[wants[u]]
            /\ hold'[wants[u]] = hold[wants[u]]
        BY <1>4, <3>2, <3>4 DEF IInv, TypeOK
      <4> QED
        BY <3>2, <3>4, <4>1 DEF IInv, Awakened
    <3>5. CASE wants[u] = None
      BY <3>2, <3>5 DEF IInv, TypeOK, Awakened
    <3> QED
      BY <3>2, <3>3, <3>4, <3>5
  <2> QED
    BY <2>1, <2>2, <2>3
<1>11. Running'
  BY <1>1, ScheduleRuns DEF IInv, TypeOK, Running
<1> QED
  BY <1>5, <1>6, <1>7, <1>8, <1>9, <1>10, <1>11 DEF IInv

\* A waiter that is woken with an error, whatever thread runs then.
LEMMA ExpelKeeps ==
    ASSUME IInv, NEW t \in Threads, NEW m \in Mutexes, NEW i \in 1..Len(waiting[m]),
           waiting[m][i] = t, Expel(m, i),
           UNCHANGED <<prio, wants, has, value, owner, original, hold>>,
           run' \in Threads \cup {None}, run' # None => stat'[run'] = "ready",
           gone' \subseteq Mutexes, closes' \in [Threads -> Mutexes \cup {None}],
           at' \in [Threads -> Where]
    PROVE  IInv'
<1> USE MutexAssumption DEF Expel
<1>1. stat[t] = "waiting" /\ wants[t] = m /\ owner[m] # t /\ On(t, waiting[m])
  BY DEF IInv, TypeOK, Listed, On
<1>2. waiting' = [waiting EXCEPT ![m] = Removed(@, i)]
  OBVIOUS
<1>3. /\ waiting'[m] \in Seq(Threads) /\ Distinct(waiting'[m])
      /\ \A u \in Threads : On(u, waiting'[m]) <=> u # t /\ On(u, waiting[m])
      /\ \A k \in Mutexes : k # m => waiting'[k] = waiting[k]
  <2>1. /\ waiting[m] \in Seq(Threads) /\ Distinct(waiting[m])
        /\ waiting'[m] = Removed(waiting[m], i)
    BY <1>1, <1>2 DEF IInv, TypeOK, Once
  <2>2. \A k \in Mutexes : k # m => waiting'[k] = waiting[k]
    BY <1>2 DEF IInv, TypeOK
  <2> QED
    BY <1>2, <2>1, <2>2, RemovedIsList
<1>4. TypeOK'
  <2>1. waiting' \in [Mutexes -> Seq(Threads)]
    BY <1>1, <1>2, <1>3 DEF IInv, TypeOK
  <2>2. timed' \in [Threads -> BOOLEAN] /\ error' \in [Threads -> BOOLEAN]
        /\ stat' \in [Threads -> {"ready", "waiting", "sleeping"}]
    BY DEF IInv, TypeOK
  <2> QED
    BY <2>1, <2>2 DEF IInv, TypeOK
<1>5. Listed'
  <2> SUFFICES ASSUME NEW k \in Mutexes, NEW u \in Threads, On(u, waiting'[k])
               PROVE  /\ stat'[u] = "waiting" /\ wants'[u] = k /\ ~error'[u]
                      /\ owner'[k] # None /\ owner'[k] # u
    BY DEF Listed
  <2>1. u # t /\ On(u, waiting[k])
    <3>1. CASE k = m
      BY <1>3, <3>1
    <3>2. CASE k # m
      BY <1>1, <1>3, <3>2 DEF IInv, Listed
    <3> QED
      BY <3>1, <3>2
  <2> QED
    BY <2>1 DEF IInv, TypeOK, Listed
<1>6. Once'
  BY <1>3 DEF IInv, Once
<1>7. HoldersAgree' /\ Owned'
  BY DEF IInv, HoldersAgree, Owned
<1>8. Awakened'
  <2> SUFFICES ASSUME NEW u \in Threads
               PROVE  /\ stat'[u] = "waiting" => wants'[u] # None /\ On(u, waiting'[wants'[u]])
                      /\ stat'[u] = "sleeping" => wants'[u] = None
                      /\ stat'[u] = "ready" /\ wants'[u] # None =>
                            IF error'[u] THEN owner'[wants'[u]] # u
                                         ELSE owner'[wants'[u]] = u /\ hold'[wants'[u]] = 1
    BY DEF Awakened
  <2>1. CASE u = t
    BY <1>1, <2>1 DEF IInv, TypeOK
  <2>2. CASE u # t
    <3>1. stat'[u] = stat[u] /\ wants'[u] = wants[u] /\ error'[u] = error[u]
          /\ wants[u] \in Mutexes \cup {None} /\ UNCHANGED <<owner, hold>>
      BY <2>2 DEF IInv, TypeOK
    <3>2. ASSUME stat[u] = "waiting" PROVE wants[u] # None /\ On(u, waiting'[wants[u]])
      <4>1. wants[u] \in Mutexes /\ On(u, waiting[wants[u]])
        BY <3>1, <3>2 DEF IInv, Awakened
      <4>2. CASE wants[u] = m
        BY <1>3, <2>2, <4>1, <4>2
      <4>3. CASE wants[u] # m
        BY <1>3, <4>1, <4>3 DEF IInv, TypeOK
      <4> QED
        BY <4>1, <4>2, <4>3 DEF IInv, TypeOK
    <3> QED
      BY <3>1, <3>2 DEF IInv, Awakened
  <2> QED
    BY <2>1, <2>2
<1>9. Running'
  BY DEF IInv, TypeOK, Running
<1> QED
  BY <1>4, <1>5, <1>6, <1>7, <1>8, <1>9 DEF IInv

LEMMA TimeoutKeeps == ASSUME IInv, NEW t \in Threads, Timeout(t) PROVE IInv'
<1> DEFINE m == wants[t]
<1>1. stat[t] = "waiting" /\ m \in Mutexes
  BY DEF Timeout, IInv, TypeOK, Running, Awakened
<1>2. PICK i \in 1..Len(waiting[m]) : waiting[m][i] = t /\ Expel(m, i)
  BY DEF Timeout
<1>3. UNCHANGED <<prio, wants, has, value, owner, original, hold, gone, closes, at>> /\ Schedule
  BY DEF Timeout, detaching
<1>4. run' \in Threads \cup {None} /\ (run' # None => stat'[run'] = "ready")
  BY <1>3, ScheduleRuns
<1>5. gone' \subseteq Mutexes /\ closes' \in [Threads -> Mutexes \cup {None}]
      /\ at' \in [Threads -> Where]
  BY <1>3 DEF IInv, TypeOK
<1> HIDE DEF m
<1> QED
  BY <1>1, <1>2, <1>3, <1>4, <1>5, ExpelKeeps

\* A step of rt_mutex_detach wakes the first waiter with an error or changes
\* nothing but how far the detach is.
LEMMA DetachDoes ==
    ASSUME IInv, NEW t \in Threads, NEW m \in Mutexes, Detach(t, m)
    PROVE  /\ UNCHANGED <<run, prio, wants, has, value, owner, original, hold>>
           /\ gone' \subseteq Mutexes /\ closes' \in [Threads -> Mutexes \cup {None}]
           /\ at' \in [Threads -> Where]
           /\ \/ UNCHANGED <<stat, error, timed, waiting>>
              \/ /\ 1 \in 1..Len(waiting[m]) /\ waiting[m][1] \in Threads
                 /\ Expel(m, 1)
                 /\ UNCHANGED gone
<1> USE DEF threads, mutexes, Where
<1>0. /\ gone \subseteq Mutexes /\ closes \in [Threads -> Mutexes \cup {None}]
      /\ at \in [Threads -> Where] /\ waiting[m] \in Seq(Threads)
  BY DEF IInv, TypeOK
<1>1. CASE DetachLook(t, m)
  BY <1>0, <1>1 DEF DetachLook
<1>2. CASE DetachWake(t, m)
  <2>1. 1 \in 1..Len(waiting[m]) /\ waiting[m][1] \in Threads
    BY <1>0, <1>2 DEF DetachWake
  <2> QED
    BY <1>0, <1>2, <2>1 DEF DetachWake
<1>3. CASE DetachHalt(t, m)
  BY <1>0, <1>3 DEF DetachHalt
<1>4. CASE DetachObject(t, m)
  BY <1>0, <1>4 DEF DetachObject
<1> QED
  BY <1>1, <1>2, <1>3, <1>4 DEF Detach

\* A step that changes none of what the invariant is about.
LEMMA NothingHappens ==
    ASSUME IInv, UNCHANGED <<threads, mutexes>>, gone' \subseteq Mutexes,
           closes' \in [Threads -> Mutexes \cup {None}], at' \in [Threads -> Where]
    PROVE  IInv'
  BY DEF threads, mutexes, IInv, TypeOK, HoldersAgree, Owned, Awakened,
         Listed, Once, On, Distinct, Running

LEMMA DetachKeeps ==
    ASSUME IInv, NEW t \in Threads, NEW m \in Mutexes, Detach(t, m)
    PROVE  IInv'
<1>1. /\ UNCHANGED <<run, prio, wants, has, value, owner, original, hold>>
      /\ gone' \subseteq Mutexes /\ closes' \in [Threads -> Mutexes \cup {None}]
      /\ at' \in [Threads -> Where]
  BY DetachDoes
<1>2. CASE UNCHANGED <<stat, error, timed, waiting>>
  BY <1>1, <1>2, NothingHappens DEF threads, mutexes
<1>3. CASE 1 \in 1..Len(waiting[m]) /\ waiting[m][1] \in Threads /\ Expel(m, 1)
  <2>1. stat[waiting[m][1]] = "waiting"
    BY <1>3 DEF IInv, Listed, On
  <2>2. run \in Threads \cup {None} /\ (run # None => stat'[run] = "ready")
    BY <1>3, <2>1 DEF IInv, TypeOK, Running, Expel
  <2> QED
    BY <1>1, <1>3, <2>2, ExpelKeeps
<1> QED
  BY <1>2, <1>3, DetachDoes

LEMMA Preserved == IInv /\ [Next]_vars => IInv'
<1> SUFFICES ASSUME IInv, [Next]_vars PROVE IInv'
  OBVIOUS
<1>1. CASE UNCHANGED vars
  BY <1>1, NothingHappens DEF vars, detaching, IInv, TypeOK
<1>2. ASSUME NEW t \in Threads, NEW m \in Mutexes, Take(t, m) PROVE IInv'
  BY <1>2, TakeAgainKeeps, TakeFreeKeeps, TakeWaitKeeps DEF Take, MayCall
<1>3. ASSUME NEW t \in Threads, NEW m \in Mutexes, Release(t, m) PROVE IInv'
  BY <1>3, ReleaseInnerKeeps, ReleaseFreeKeeps, HandOverKeeps DEF Release, MayCall
<1> QED
  BY <1>1, <1>2, <1>3, DetachKeeps, ReturnKeeps, TimeoutKeeps, SleepKeeps, WakeKeeps,
     SliceKeeps DEF Next

\* rt_mutex_take gives the mutex to its owner and to nobody else, as often as
\* hold counts: for every set of threads and mutexes, and whatever time-outs,
\* detaches and preemptions come in between.
THEOREM OwnersHoldAlone == Spec => []HoldersAgree
<1>1. IInv => HoldersAgree
  BY DEF IInv
<1> QED
  BY <1>1, Initially, Preserved, PTL DEF Spec

\* Values, holds, priorities and wait lists keep their types.
THEOREM TypesHold == Spec => []TypeOK
<1>1. IInv => TypeOK
  BY DEF IInv
<1> QED
  BY <1>1, Initially, Preserved, PTL DEF Spec

\* A mutex that threads wait for in rt_mutex_take has an owner, who will hand
\* it over: nobody is left waiting for a free mutex.
THEOREM NobodyIsLeftWaiting == Spec => []WaitersHaveOwner
<1>1. IInv => WaitersHaveOwner
  BY WaitedFor DEF IInv, Owned, TypeOK, WaitersHaveOwner
<1> QED
  BY <1>1, Initially, Preserved, PTL DEF Spec

\* A thread that waits in rt_mutex_take is on the list of a mutex, and only
\* such threads are.
THEOREM ListsHaveTheWaiters == Spec => []WaitersAreListed
<1>1. IInv => WaitersAreListed
  <2> SUFFICES ASSUME IInv, NEW t \in Threads
               PROVE  stat[t] = "waiting" <=> \E m \in Mutexes : On(t, waiting[m])
    BY DEF WaitersAreListed
  <2>1. stat[t] = "waiting" => wants[t] \in Mutexes /\ On(t, waiting[wants[t]])
    BY DEF IInv, TypeOK, Awakened
  <2>2. ASSUME NEW m \in Mutexes, On(t, waiting[m]) PROVE stat[t] = "waiting"
    BY <2>2 DEF IInv, Listed
  <2> QED
    BY <2>1, <2>2
<1> QED
  BY <1>1, Initially, Preserved, PTL DEF Spec

-----------------------------------------------------------------------------
\* The callers' part in priority inheritance: a thread that owns a mutex or is
\* in the rt_mutex_take of one leaves every other mutex alone.
OneEach ==
    \A t \in Threads : \A m, k \in Mutexes :
        (owner[m] = t \/ wants[t] = m) /\ (owner[k] = t \/ wants[t] = k) => m = k

\* What the mutex remembers is the priority its owner was created with.
Remembered == \A m \in Mutexes : owner[m] # None => original[m] = Base[owner[m]]

Sorted(s, key) == \A i, j \in 1..Len(s) : i < j => key[s[i]] <= key[s[j]]

\* The most urgent waiter is the first.
Ordered == \A m \in Mutexes : Sorted(waiting[m], prio)

\* A thread on a list owns nothing, so its priority is its own.
LEMMA WaitersAreUnraised ==
    ASSUME IInv, OneEach, PriorityGivenBack,
           NEW m \in Mutexes, NEW u \in Threads, On(u, waiting[m])
    PROVE  prio[u] = Base[u] /\ \A k \in Mutexes : owner[k] # u
<1>1. owner[m] # u /\ wants[u] = m
  BY DEF IInv, Listed
<1>2. ASSUME NEW k \in Mutexes PROVE owner[k] # u
  BY <1>1 DEF OneEach
<1> QED
  BY <1>2 DEF PriorityGivenBack

\* Only two halves of rt_mutex_take and two of rt_mutex_release touch the
\* priorities, the owners and what the mutexes remember.
LEMMA WhoTouchesPriorities ==
    ASSUME IInv, [Next]_vars
    PROVE  \/ UNCHANGED <<prio, owner, original>>
           \/ \E t \in Threads, m \in Mutexes :
                 /\ run = t /\ wants[t] = None
                 /\ \/ TakeFree(t, m)
                    \/ TakeWait(t, m)
                    \/ owner[m] = t /\ (ReleaseFree(t, m) \/ HandOver(t, m))
<1>1. CASE UNCHANGED vars
  BY <1>1 DEF vars, threads, mutexes
<1>2. ASSUME NEW t \in Threads, NEW m \in Mutexes, Take(t, m) \/ Release(t, m)
      PROVE  \/ UNCHANGED <<prio, owner, original>>
             \/ /\ run = t /\ wants[t] = None
                /\ \/ TakeFree(t, m)
                   \/ TakeWait(t, m)
                   \/ owner[m] = t /\ (ReleaseFree(t, m) \/ HandOver(t, m))
  BY <1>2 DEF Take, Release, TakeAgain, ReleaseInner, MayCall
<1>3. ASSUME NEW t \in Threads, NEW m \in Mutexes, Detach(t, m)
      PROVE  UNCHANGED <<prio, owner, original>>
  BY <1>3, DetachDoes
<1>4. ASSUME NEW t \in Threads, Return(t) \/ Timeout(t) \/ Sleep(t) \/ Wake(t)
      PROVE  UNCHANGED <<prio, owner, original>>
  BY <1>4 DEF Return, Timeout, Sleep, Wake, mutexes
<1>5. CASE Slice
  BY <1>5 DEF Slice, mutexes
<1> QED
  BY <1>1, <1>2, <1>3, <1>4, <1>5 DEF Next

Unraised == PriorityGivenBack /\ Remembered

\* Whoever comes to own a mutex owned none before, so the priority that is
\* remembered, and given back later, is its own.
LEMMA UnraisedKept ==
    ASSUME IInv, IInv', OneEach, OneEach', Unraised, [Next]_vars PROVE Unraised'
<1> USE MutexAssumption
<1>1. CASE UNCHANGED <<prio, owner, original>>
  BY <1>1 DEF Unraised, PriorityGivenBack, Remembered
<1>2. ASSUME NEW t \in Threads, NEW m \in Mutexes, run = t, wants[t] = None, TakeFree(t, m)
      PROVE  Unraised'
  <2>1. owner' = [owner EXCEPT ![m] = t] /\ original' = [original EXCEPT ![m] = prio[t]]
        /\ UNCHANGED <<prio, wants>> /\ owner[m] = None
    BY <1>2 DEF TakeFree, IInv, TypeOK, Owned
  <2>2. \A k \in Mutexes : owner[k] # t
    BY <2>1 DEF IInv, TypeOK, OneEach
  <2>3. prio[t] = Base[t]
    BY <2>2 DEF Unraised, PriorityGivenBack
  <2>4. Remembered'
    BY <2>1, <2>3 DEF IInv, TypeOK, Unraised, Remembered
  <2>5. PriorityGivenBack'
    BY <2>1 DEF IInv, TypeOK, Unraised, PriorityGivenBack
  <2> QED
    BY <2>4, <2>5 DEF Unraised
<1>3. ASSUME NEW t \in Threads, NEW m \in Mutexes, run = t, wants[t] = None, TakeWait(t, m)
      PROVE  Unraised'
  <2>1. UNCHANGED <<owner, original>> /\ owner[m] \in Threads
        /\ \A u \in Threads : u # owner[m] => prio'[u] = prio[u]
    BY <1>3 DEF TakeWait, Raised, IInv, TypeOK, Owned
  <2> QED
    BY <2>1 DEF Unraised, PriorityGivenBack, Remembered
<1>4. ASSUME NEW t \in Threads, NEW m \in Mutexes, run = t, wants[t] = None, owner[m] = t,
             ReleaseFree(t, m)
      PROVE  Unraised'
  <2>1. owner' = [owner EXCEPT ![m] = None] /\ original' = [original EXCEPT ![m] = 255]
        /\ prio' = [prio EXCEPT ![t] = original[m]] /\ original[m] = Base[t]
    BY <1>4 DEF ReleaseFree, Restored, Unraised, Remembered
  <2>2. Remembered'
    BY <2>1 DEF IInv, TypeOK, Unraised, Remembered
  <2>3. ASSUME NEW u \in Threads, \A k \in Mutexes : owner'[k] # u PROVE prio'[u] = Base[u]
    <3>1. \A k \in Mutexes : u # t => owner[k] # u
      BY <1>4, <2>1, <2>3 DEF IInv, TypeOK
    <3> QED
      BY <2>1, <3>1 DEF IInv, TypeOK, Unraised, PriorityGivenBack
  <2> QED
    BY <2>2, <2>3 DEF Unraised, PriorityGivenBack
<1>5. ASSUME NEW t \in Threads, NEW m \in Mutexes, run = t, wants[t] = None, owner[m] = t,
             HandOver(t, m)
      PROVE  Unraised'
  <2> DEFINE new == waiting[m][1]
  <2>1. /\ owner' = [owner EXCEPT ![m] = new] /\ original' = [original EXCEPT ![m] = prio[new]]
        /\ prio' = [prio EXCEPT ![t] = original[m]] /\ original[m] = Base[t]
    BY <1>5 DEF HandOver, Restored, Unraised, Remembered
  <2>2. new \in Threads /\ On(new, waiting[m])
    BY <1>5 DEF HandOver, IInv, TypeOK, On
  <2>3. prio[new] = Base[new] /\ new # t
    BY <1>5, <2>2, WaitersAreUnraised DEF Unraised
  <2> HIDE DEF new
  <2>4. Remembered'
    BY <2>1, <2>2, <2>3 DEF IInv, TypeOK, Unraised, Remembered
  <2>5. ASSUME NEW u \in Threads, \A k \in Mutexes : owner'[k] # u PROVE prio'[u] = Base[u]
    <3>1. \A k \in Mutexes : u # t => owner[k] # u
      BY <1>5, <2>1, <2>5 DEF IInv, TypeOK
    <3> QED
      BY <2>1, <3>1 DEF IInv, TypeOK, Unraised, PriorityGivenBack
  <2> QED
    BY <2>4, <2>5 DEF Unraised, PriorityGivenBack
<1> QED
  BY <1>1, <1>2, <1>3, <1>4, <1>5, WhoTouchesPriorities

\* What is inherited is given back, to every thread and with any number of
\* mutexes, as long as callers take one mutex at a time.
THEOREM PrioritiesAreGivenBack == Spec /\ []OneEach => []PriorityGivenBack
<1>1. Init => Unraised
  BY DEF Init, Unraised, PriorityGivenBack, Remembered
<1>2. Unraised => PriorityGivenBack
  BY DEF Unraised
<1> QED
  BY <1>1, <1>2, Initially, Preserved, UnraisedKept, PTL DEF Spec
-----------------------------------------------------------------------------
\* A list stays sorted when a thread leaves it.
LEMMA RemovedIsSorted ==
    ASSUME NEW s \in Seq(Threads), NEW i \in 1..Len(s), Sorted(s, prio), prio \in [Threads -> Nat]
    PROVE  Sorted(Removed(s, i), prio)
<1> DEFINE r == Removed(s, i)
           was(j) == IF j < i THEN j ELSE j + 1
<1>1. Len(s) \in Nat /\ Len(s) - 1 \in Nat
  OBVIOUS
<1>2. r \in [1..Len(s) - 1 -> Threads]
  BY <1>1 DEF Removed
<1>3. Len(r) = Len(s) - 1
  BY <1>1, <1>2
<1>4. ASSUME NEW j \in 1..Len(r) PROVE r[j] = s[was(j)] /\ was(j) \in 1..Len(s)
  BY <1>1, <1>3 DEF Removed
<1>5. ASSUME NEW j \in 1..Len(r), NEW k \in 1..Len(r), j < k PROVE was(j) < was(k)
  BY <1>1, <1>3, <1>5
<1> HIDE DEF r, was
<1> QED
  BY <1>4, <1>5 DEF Sorted, r

\* Where rt_ipc_list_suspend inserts by priority the list stays sorted.
LEMMA InsertedIsSorted ==
    ASSUME NEW s \in Seq(Threads), NEW t \in Threads, NEW i \in Places(s, t), Flag = "PRIO",
           Sorted(s, prio), prio \in [Threads -> Nat]
    PROVE  Sorted(Inserted(s, i, t), prio)
<1> DEFINE r == Inserted(s, i, t)
<1>1. Len(s) \in Nat /\ i \in 1..Len(s) + 1
  BY DEF Places
<1>2. r \in [1..Len(s) + 1 -> Threads]
  <2>1. ASSUME NEW j \in 1..Len(s) + 1
        PROVE  (IF j < i THEN s[j] ELSE IF j = i THEN t ELSE s[j - 1]) \in Threads
    BY <1>1
  <2> QED
    BY <2>1 DEF Inserted
<1>3. Len(r) = Len(s) + 1
  BY <1>1, <1>2
<1>4. \A j \in 1..Len(s) + 1 : r[j] = IF j < i THEN s[j] ELSE IF j = i THEN t ELSE s[j - 1]
  BY DEF Inserted
<1>5. /\ \A j \in 1..Len(s) : j < i => prio[s[j]] <= prio[t]
      /\ i <= Len(s) => prio[t] < prio[s[i]]
  BY <1>1 DEF Places
<1>6. \A j \in 1..Len(s) : prio[s[j]] \in Nat
  OBVIOUS
<1>7. \A j \in 1..Len(s) : j >= i => prio[t] <= prio[s[j]]
  <2> SUFFICES ASSUME NEW j \in 1..Len(s), j >= i PROVE prio[t] <= prio[s[j]]
    OBVIOUS
  <2>1. i \in 1..Len(s) /\ prio[t] < prio[s[i]]
    BY <1>1, <1>5
  <2>2. prio[s[i]] <= prio[s[j]]
    BY <1>6, <2>1 DEF Sorted
  <2> QED
    BY <1>6, <2>1, <2>2
<1> HIDE DEF r
<1> SUFFICES ASSUME NEW j \in 1..Len(s) + 1, NEW k \in 1..Len(s) + 1, j < k
             PROVE  prio[r[j]] <= prio[r[k]]
  BY <1>3 DEF Sorted, r
<1>8. CASE k < i
  <2>1. j \in 1..Len(s) /\ k \in 1..Len(s) /\ r[j] = s[j] /\ r[k] = s[k]
    BY <1>1, <1>4, <1>8
  <2> QED
    BY <2>1 DEF Sorted
<1>9. CASE k = i
  <2>1. j \in 1..Len(s) /\ r[j] = s[j] /\ r[k] = t
    BY <1>1, <1>4, <1>9
  <2> QED
    BY <1>5, <1>9, <2>1
<1>10. CASE k > i /\ j = i
  <2>1. k - 1 \in 1..Len(s) /\ k - 1 >= i /\ r[j] = t /\ r[k] = s[k - 1]
    BY <1>1, <1>4, <1>10
  <2> QED
    BY <1>7, <2>1
<1>11. CASE k > i /\ j # i
  <2> DEFINE a == IF j < i THEN j ELSE j - 1
  <2>1. a \in 1..Len(s) /\ k - 1 \in 1..Len(s) /\ r[j] = s[a] /\ r[k] = s[k - 1]
        /\ (a < k - 1 \/ a = k - 1)
    BY <1>1, <1>4, <1>11
  <2> HIDE DEF a
  <2>2. CASE a < k - 1
    BY <2>1, <2>2 DEF Sorted
  <2>3. CASE a = k - 1
    BY <1>6, <2>1, <2>3
  <2> QED
    BY <2>1, <2>2, <2>3
<1> QED
  BY <1>1, <1>8, <1>9, <1>10, <1>11

\* The list of a mutex stays, loses a thread, or gains the thread whose
\* rt_mutex_take begins to wait.
LEMMA HowListsChange ==
    ASSUME IInv, [Next]_vars, NEW m \in Mutexes
    PROVE  \/ waiting'[m] = waiting[m]
           \/ \E i \in 1..Len(waiting[m]) : waiting'[m] = Removed(waiting[m], i)
           \/ \E t \in Threads : /\ run = t /\ wants[t] = None /\ TakeWait(t, m)
                                 /\ \E i \in Places(waiting[m], t) :
                                       waiting'[m] = Inserted(waiting[m], i, t)
<1>1. waiting \in [Mutexes -> Seq(Threads)]
  BY DEF IInv, TypeOK
<1>2. CASE UNCHANGED waiting
  BY <1>2
<1>3. ASSUME NEW t \in Threads, NEW k \in Mutexes, run = t, wants[t] = None, TakeWait(t, k)
      PROVE  \/ waiting'[m] = waiting[m]
             \/ m = k /\ \E i \in Places(waiting[m], t) : waiting'[m] = Inserted(waiting[m], i, t)
  BY <1>1, <1>3 DEF TakeWait
<1>4. ASSUME NEW t \in Threads, NEW k \in Mutexes, HandOver(t, k)
      PROVE  \/ waiting'[m] = waiting[m]
             \/ \E i \in 1..Len(waiting[m]) : waiting'[m] = Removed(waiting[m], i)
  <2>1. 1 \in 1..Len(waiting[k]) /\ waiting' = [waiting EXCEPT ![k] = Removed(@, 1)]
    BY <1>1, <1>4 DEF HandOver, FirstLeaves
  <2> QED
    BY <1>1, <2>1
<1>5. ASSUME NEW t \in Threads, NEW k \in Mutexes, Detach(t, k)
      PROVE  \/ waiting'[m] = waiting[m]
             \/ \E i \in 1..Len(waiting[m]) : waiting'[m] = Removed(waiting[m], i)
  BY <1>1, <1>5, DetachDoes DEF Expel
<1>6. ASSUME NEW t \in Threads, Timeout(t)
      PROVE  \/ waiting'[m] = waiting[m]
             \/ \E i \in 1..Len(waiting[m]) : waiting'[m] = Removed(waiting[m], i)
  <2>1. PICK i \in 1..Len(waiting[wants[t]]) : Expel(wants[t], i)
    BY <1>6 DEF Timeout
  <2> QED
    BY <1>1, <2>1 DEF Expel
<1>7. \/ UNCHANGED waiting
      \/ \E t \in Threads, k \in Mutexes :
            \/ run = t /\ wants[t] = None /\ TakeWait(t, k)
            \/ HandOver(t, k) \/ Detach(t, k)
      \/ \E t \in Threads : Timeout(t)
  BY DEF Next, vars, mutexes, Take, TakeAgain, TakeFree, Release, ReleaseInner, ReleaseFree,
         Return, Sleep, Wake, Slice, MayCall
<1>8. ASSUME NEW t \in Threads, NEW k \in Mutexes, run = t, wants[t] = None, TakeWait(t, k)
      PROVE  waiting'[m] = waiting[m] \/
             \E u \in Threads : /\ run = u /\ wants[u] = None /\ TakeWait(u, m)
                                /\ \E i \in Places(waiting[m], u) :
                                      waiting'[m] = Inserted(waiting[m], i, u)
  BY <1>3, <1>8
<1> QED
  BY <1>2, <1>4, <1>5, <1>6, <1>7, <1>8

\* The priority of a thread on a list stays: it owns nothing that would raise
\* it, and only the running thread gets its own back.
LEMMA WaitersKeepPriority ==
    ASSUME IInv, OneEach, Unraised, [Next]_vars,
           NEW m \in Mutexes, NEW u \in Threads, On(u, waiting[m])
    PROVE  prio'[u] = prio[u]
<1>1. stat[u] = "waiting" /\ \A k \in Mutexes : owner[k] # u
  BY WaitersAreUnraised DEF Unraised, IInv, Listed
<1>2. ASSUME NEW t \in Threads, NEW k \in Mutexes, TakeWait(t, k) PROVE prio'[u] = prio[u]
  BY <1>1, <1>2 DEF TakeWait, Raised, IInv, TypeOK
<1>3. ASSUME NEW t \in Threads, NEW k \in Mutexes, run = t, ReleaseFree(t, k) \/ HandOver(t, k)
      PROVE  prio'[u] = prio[u]
  <2>1. stat[t] = "ready"
    BY <1>3, MutexAssumption DEF IInv, Running
  <2> QED
    BY <1>1, <1>3, <2>1 DEF ReleaseFree, HandOver, Restored, IInv, TypeOK
<1>4. ASSUME NEW t \in Threads, NEW k \in Mutexes, TakeFree(t, k) PROVE prio'[u] = prio[u]
  BY <1>4 DEF TakeFree
<1> QED
  BY <1>2, <1>3, <1>4, WhoTouchesPriorities

\* A thread that begins to wait keeps its priority, and its owner gets at
\* least that.
LEMMA NewWaiter ==
    ASSUME IInv, NEW t \in Threads, NEW m \in Mutexes, TakeWait(t, m)
    PROVE  /\ owner[m] \in Threads /\ owner' = owner /\ prio'[t] = prio[t]
           /\ prio' \in [Threads -> Nat] /\ prio'[owner[m]] <= prio[t]
           /\ \A u \in Threads : prio'[u] <= prio[u]
<1>1. owner[m] \in Threads /\ owner[m] # t /\ owner' = owner
  BY DEF TakeWait, IInv, TypeOK, Owned
<1>2. prio \in [Threads -> Nat]
  BY DEF IInv, TypeOK
<1>3. prio' = IF prio[t] < prio[owner[m]] THEN [prio EXCEPT ![owner[m]] = prio[t]] ELSE prio
  BY DEF TakeWait, Raised
<1> QED
  BY <1>1, <1>2, <1>3

LEMMA OrderedKept ==
    ASSUME IInv, IInv', OneEach, Unraised, Ordered, [Next]_vars, Flag = "PRIO" PROVE Ordered'
<1> SUFFICES ASSUME NEW m \in Mutexes PROVE Sorted(waiting'[m], prio')
  BY DEF Ordered
<1> DEFINE s == waiting[m]
           r == waiting'[m]
<1>1. /\ s \in Seq(Threads) /\ Sorted(s, prio) /\ prio \in [Threads -> Nat]
      /\ r \in Seq(Threads) /\ Distinct(s)
  BY DEF IInv, TypeOK, Ordered, Once
<1>2. Sorted(r, prio)
  <2>1. ASSUME NEW t \in Threads, NEW i \in Places(s, t), r = Inserted(s, i, t)
        PROVE  Sorted(r, prio)
    BY <1>1, <2>1, InsertedIsSorted
  <2>2. ASSUME NEW i \in 1..Len(s), r = Removed(s, i) PROVE Sorted(r, prio)
    BY <1>1, <2>2, RemovedIsSorted
  <2> HIDE DEF s, r
  <2> QED
    BY <1>1, <2>1, <2>2, HowListsChange DEF s, r
<1>3. ASSUME NEW j \in 1..Len(r) PROVE prio'[r[j]] = prio[r[j]]
  <2> DEFINE u == r[j]
  <2>1. u \in Threads /\ On(u, r)
    BY <1>1 DEF On
  <2>2. CASE On(u, s)
    BY <2>1, <2>2, WaitersKeepPriority
  <2>3. ASSUME NEW i \in 1..Len(s), r = Removed(s, i) PROVE On(u, s)
    BY <1>1, <2>1, <2>3, RemovedIsList
  <2>4. ASSUME NEW t \in Threads, NEW i \in Places(s, t), TakeWait(t, m), run = t,
               r = Inserted(s, i, t)
        PROVE  On(u, s) \/ prio'[u] = prio[u]
    <3>1. ~On(t, s) /\ i \in 1..Len(s) + 1
      BY <2>4, MutexAssumption DEF IInv, Listed, Running, Places
    <3>2. u = t \/ On(u, s)
      BY <1>1, <2>1, <2>4, <3>1, InsertedIsList
    <3> QED
      BY <2>4, <3>2, NewWaiter
  <2> HIDE DEF s, r, u
  <2> QED
    BY <2>1, <2>2, <2>3, <2>4, HowListsChange DEF s, r, u
<1> HIDE DEF r
<1> QED
  BY <1>2, <1>3 DEF Sorted, r

Inherits == Unraised /\ Ordered /\ OwnerInherits

LEMMA InheritsKept ==
    ASSUME IInv, IInv', OneEach, OneEach', Inherits, [Next]_vars, Flag = "PRIO" PROVE Inherits'
<1>1. Unraised' /\ Ordered'
  BY UnraisedKept, OrderedKept DEF Inherits
<1> SUFFICES ASSUME NEW m \in Mutexes, NEW j \in 1..Len(waiting'[m])
             PROVE  prio'[owner'[m]] <= prio'[waiting'[m][j]]
  BY <1>1 DEF Inherits, OwnerInherits
<1> DEFINE u == waiting'[m][j]
<1>2. u \in Threads /\ On(u, waiting'[m]) /\ waiting[m] \in Seq(Threads) /\ Distinct(waiting[m])
      /\ waiting'[m] # <<>> /\ prio \in [Threads -> Nat] /\ prio' \in [Threads -> Nat]
      /\ owner \in [Mutexes -> Threads \cup {None}]
  <2>1. waiting'[m] \in Seq(Threads)
    BY DEF IInv, TypeOK
  <2>2. u \in Threads /\ On(u, waiting'[m]) /\ waiting'[m] # <<>>
    BY <2>1 DEF On
  <2> QED
    BY <2>2 DEF IInv, TypeOK, Once
<1> HIDE DEF u
<1>3. ASSUME NEW t \in Threads, TakeWait(t, m), run = t,
             \E i \in Places(waiting[m], t) : waiting'[m] = Inserted(waiting[m], i, t)
      PROVE  u = t \/ On(u, waiting[m])
  <2>1. PICK i \in Places(waiting[m], t) : waiting'[m] = Inserted(waiting[m], i, t)
    BY <1>3
  <2>2. ~On(t, waiting[m]) /\ i \in 1..Len(waiting[m]) + 1
    BY <1>3, MutexAssumption DEF IInv, Listed, Running, Places
  <2>3. \A v \in Threads : On(v, Inserted(waiting[m], i, t)) <=> v = t \/ On(v, waiting[m])
    BY <1>2, <2>2, InsertedIsList
  <2> QED
    BY <1>2, <2>1, <2>3
<1>4. \/ On(u, waiting[m])
      \/ TakeWait(u, m)
  <2>1. ASSUME NEW i \in 1..Len(waiting[m]), waiting'[m] = Removed(waiting[m], i)
        PROVE  On(u, waiting[m])
    BY <1>2, <2>1, RemovedIsList
  <2> QED
    BY <1>2, <1>3, <2>1, HowListsChange
<1>5. CASE TakeWait(u, m)
  BY <1>2, <1>5, NewWaiter DEF u
<1>6. CASE On(u, waiting[m])
  <2>1. PICK i \in 1..Len(waiting[m]) : waiting[m][i] = u
    BY <1>6 DEF On
  <2>2. prio[owner[m]] <= prio[u] /\ prio'[u] = prio[u]
    BY <1>2, <1>6, <2>1, WaitersKeepPriority DEF Inherits, OwnerInherits
  <2>3. owner[m] \in Threads /\ waiting[m] # <<>> /\ value[m] = 0
    BY <1>2, <2>1, WaitedFor
  <2> SUFFICES prio'[owner'[m]] <= prio[u]
    BY <2>2 DEF u
  <2>4. CASE UNCHANGED <<prio, owner>>
    BY <2>2, <2>4
  <2>5. ASSUME NEW t \in Threads, NEW k \in Mutexes, TakeFree(t, k)
        PROVE  prio'[owner'[m]] <= prio[u]
    BY <1>2, <2>2, <2>3, <2>5 DEF TakeFree
  <2>6. ASSUME NEW t \in Threads, NEW k \in Mutexes, TakeWait(t, k)
        PROVE  prio'[owner'[m]] <= prio[u]
    BY <1>2, <2>2, <2>3, <2>6, NewWaiter
  <2>7. ASSUME NEW t \in Threads, NEW k \in Mutexes, owner[k] = t, k # m,
               ReleaseFree(t, k) \/ HandOver(t, k)
        PROVE  prio'[owner'[m]] <= prio[u]
    <3>1. owner[m] # t
      BY <2>7 DEF OneEach
    <3>2. owner'[m] = owner[m] /\ prio'[owner[m]] = prio[owner[m]]
      BY <1>2, <2>3, <2>7, <3>1 DEF ReleaseFree, HandOver, Restored
    <3> QED
      BY <2>2, <3>2
  <2>8. ASSUME NEW t \in Threads, owner[m] = t, run = t, HandOver(t, m)
        PROVE  prio'[owner'[m]] <= prio[u]
    <3>1. owner'[m] = waiting[m][1] /\ waiting[m][1] \in Threads /\ On(waiting[m][1], waiting[m])
      BY <1>2, <2>8 DEF HandOver, On
    <3>2. prio'[waiting[m][1]] = prio[waiting[m][1]]
      BY <3>1, WaitersKeepPriority DEF Inherits
    <3>3. prio[waiting[m][1]] <= prio[u]
      <4>1. 1 \in 1..Len(waiting[m]) /\ (i = 1 \/ 1 < i)
        BY <1>2
      <4>2. 1 < i => prio[waiting[m][1]] <= prio[waiting[m][i]]
        BY <4>1 DEF Inherits, Ordered, Sorted
      <4>3. prio[u] \in Nat
        BY <1>2
      <4> QED
        BY <2>1, <4>1, <4>2, <4>3
    <3> QED
      BY <3>1, <3>2, <3>3
  <2>9. ASSUME NEW t \in Threads, ReleaseFree(t, m) PROVE FALSE
    BY <2>3, <2>9 DEF ReleaseFree
  <2> QED
    BY <2>4, <2>5, <2>6, <2>7, <2>8, <2>9, WhoTouchesPriorities
<1> QED
  BY <1>4, <1>5, <1>6

\* The owner of a mutex is at least as urgent as every thread that waits for
\* it, whatever times out, is detached or handed over: for every set of threads
\* and mutexes of flag PRIO, as long as callers take one mutex at a time.
THEOREM OwnersInherit == ASSUME Flag = "PRIO" PROVE Spec /\ []OneEach => []OwnerInherits
<1>1. Init => Inherits
  BY DEF Init, Inherits, Unraised, PriorityGivenBack, Remembered, Ordered, Sorted, OwnerInherits
<1>2. Inherits => OwnerInherits
  BY DEF Inherits
<1>3. IInv /\ IInv' /\ OneEach /\ OneEach' /\ Inherits /\ [Next]_vars => Inherits'
  BY InheritsKept
<1> QED
  BY <1>1, <1>2, <1>3, Initially, Preserved, PTL DEF Spec

-----------------------------------------------------------------------------
\* After rt_schedule, or the end of a time slice, no ready thread is more
\* urgent than the one that runs.
LEMMA MostUrgentRuns ==
    ASSUME prio' \in [Threads -> Nat], Schedule \/ run' \in Highest,
           NEW t \in Threads, stat'[t] = "ready"
    PROVE  run' \in Threads /\ prio'[run'] <= prio'[t]
<1> DEFINE R == {u \in Threads : stat'[u] = "ready"}
           P == {prio'[u] : u \in R}
<1>1. P \in SUBSET Nat /\ P # {}
  OBVIOUS
<1>2. PICK p \in P : \A q \in P : p <= q
  <2> HIDE DEF P
  <2> QED
    BY <1>1, LeastNat
<1>3. PICK u \in R : p = prio'[u]
  OBVIOUS
<1>4. u \in Highest
  BY <1>2, <1>3 DEF Highest
<1>5. run' \in Highest
  BY <1>4 DEF Schedule
<1> QED
  BY <1>5 DEF Highest

\* Who is left running as rt_schedule would choose inverts nobody: an owner is
\* as urgent as its waiters, and nobody ready is more urgent than who runs.
LEMMA MostUrgentInvertsNobody ==
    ASSUME IInv', OwnerInherits', Schedule \/ run' \in Highest
    PROVE  InversionIsBounded'
<1> SUFFICES ASSUME NEW m \in Mutexes, NEW j \in 1..Len(waiting'[m]), stat'[owner'[m]] = "ready"
             PROVE  run' # None /\ prio'[run'] <= prio'[waiting'[m][j]]
  BY DEF InversionIsBounded
<1>1. waiting'[m] \in Seq(Threads) /\ prio' \in [Threads -> Nat]
      /\ owner'[m] \in Threads \cup {None}
  BY DEF IInv, TypeOK
<1>2. waiting'[m][j] \in Threads /\ On(waiting'[m][j], waiting'[m])
  BY <1>1 DEF On
<1>3. owner'[m] \in Threads
  BY <1>1, <1>2 DEF IInv, Listed
<1>4. run' \in Threads /\ prio'[run'] <= prio'[owner'[m]]
  BY <1>1, <1>3, MostUrgentRuns
<1>5. prio'[owner'[m]] <= prio'[waiting'[m][j]]
  BY DEF OwnerInherits
<1>6. prio'[run'] \in Nat /\ prio'[owner'[m]] \in Nat /\ prio'[waiting'[m][j]] \in Nat
  BY <1>1, <1>2, <1>3, <1>4
<1> QED
  BY <1>4, <1>5, <1>6, MutexAssumption

\* Every step reschedules, or leaves lists, owners and priorities alone, or
\* takes, gives back or detaches a mutex without rt_schedule.
LEMMA WhoReschedules ==
    ASSUME [Next]_vars
    PROVE  \/ Schedule \/ run' \in Highest
           \/ UNCHANGED <<run, stat, prio, owner, waiting>>
           \/ \E t \in Threads, m \in Mutexes :
                 \/ Detach(t, m)
                 \/ /\ run = t /\ wants[t] = None
                    /\ TakeFree(t, m) \/ (owner[m] = t /\ ReleaseFree(t, m))
<1>1. CASE UNCHANGED vars
  BY <1>1 DEF vars, threads, mutexes
<1>2. ASSUME NEW t \in Threads, Return(t)
      PROVE  UNCHANGED <<run, stat, prio, owner, waiting>>
  BY <1>2 DEF Return, mutexes
<1>3. ASSUME NEW t \in Threads, NEW m \in Mutexes, TakeAgain(t, m) \/ ReleaseInner(t, m)
      PROVE  UNCHANGED <<run, stat, prio, owner, waiting>>
  BY <1>3 DEF TakeAgain, ReleaseInner
<1>4. ASSUME NEW t \in Threads, NEW m \in Mutexes, TakeWait(t, m) \/ HandOver(t, m)
      PROVE  Schedule
  BY <1>4 DEF TakeWait, HandOver
<1>5. ASSUME NEW t \in Threads, Timeout(t) \/ Sleep(t) \/ Wake(t) PROVE Schedule
  BY <1>5 DEF Timeout, Sleep, Wake
<1>6. Slice => run' \in Highest
  BY DEF Slice
<1>7. \/ UNCHANGED vars \/ Slice
      \/ \E t \in Threads : Return(t) \/ Timeout(t) \/ Sleep(t) \/ Wake(t)
      \/ \E t \in Threads, m \in Mutexes :
            \/ TakeAgain(t, m) \/ TakeWait(t, m) \/ ReleaseInner(t, m) \/ HandOver(t, m)
            \/ Detach(t, m)
            \/ /\ run = t /\ wants[t] = None
               /\ TakeFree(t, m) \/ (owner[m] = t /\ ReleaseFree(t, m))
  BY DEF Next, Take, Release, MayCall
<1> QED
  BY <1>1, <1>2, <1>3, <1>4, <1>5, <1>6, <1>7

\* Nobody waits for a free mutex, and who takes it neither stops nor is stopped.
LEMMA TakeFreeInvertsNobody ==
    ASSUME IInv, InversionIsBounded, NEW t \in Threads, NEW m \in Mutexes, TakeFree(t, m)
    PROVE  InversionIsBounded'
<1>1. waiting[m] = <<>>
  BY WaitedFor DEF TakeFree
<1>2. UNCHANGED <<run, stat, prio, waiting>>
  BY DEF TakeFree
<1>3. ASSUME NEW k \in Mutexes, NEW i \in 1..Len(waiting[k]) PROVE owner'[k] = owner[k]
  BY <1>1 DEF TakeFree, IInv, TypeOK
<1> QED
  BY <1>2, <1>3 DEF InversionIsBounded

\* Those a detach wakes own nothing.
LEMMA DetachInvertsNobody ==
    ASSUME IInv, OneEach, InversionIsBounded, NEW t \in Threads, NEW m \in Mutexes, Detach(t, m)
    PROVE  InversionIsBounded'
<1>1. UNCHANGED <<run, prio, owner>>
  BY DetachDoes
<1>2. CASE UNCHANGED <<stat, waiting>>
  BY <1>1, <1>2 DEF InversionIsBounded
<1>3. CASE 1 \in 1..Len(waiting[m]) /\ waiting[m][1] \in Threads /\ Expel(m, 1)
  <2> DEFINE u == waiting[m][1]
  <2>1. /\ waiting \in [Mutexes -> Seq(Threads)] /\ waiting' = [waiting EXCEPT ![m] = Removed(@, 1)]
        /\ u \in Threads /\ On(u, waiting[m]) /\ stat' = [stat EXCEPT ![u] = "ready"]
    BY <1>3 DEF IInv, TypeOK, Expel, On
  <2>2. \A k \in Mutexes : owner[k] # u
    BY <2>1 DEF IInv, Listed, OneEach
  <2>3. \A k \in Mutexes : stat'[owner[k]] = stat[owner[k]]
    <3> HIDE DEF u
    <3>1. ASSUME NEW k \in Mutexes PROVE owner[k] # u /\ stat \in [Threads -> {"ready", "waiting", "sleeping"}]
      BY <2>2 DEF IInv, TypeOK
    <3> QED
      BY <2>1, <3>1
  <2>4. ASSUME NEW k \in Mutexes, NEW i \in 1..Len(waiting'[k])
        PROVE  \E j \in 1..Len(waiting[k]) : waiting'[k][i] = waiting[k][j]
    <3>1. CASE k # m
      BY <2>1, <3>1
    <3>2. CASE k = m
      <4>1. waiting'[k] = Removed(waiting[m], 1) /\ waiting[m] \in Seq(Threads) /\ Len(waiting[m]) \in Nat
        BY <2>1, <3>2
      <4>2. Len(waiting'[k]) = Len(waiting[m]) - 1 /\ i \in 1..Len(waiting[m]) - 1
            /\ waiting'[k][i] = waiting[m][i + 1]
        BY <1>3, <4>1 DEF Removed
      <4> QED
        BY <3>2, <4>1, <4>2
    <3> QED
      BY <3>1, <3>2
  <2> HIDE DEF u
  <2> QED
    BY <1>1, <2>3, <2>4 DEF InversionIsBounded
<1> QED
  BY <1>2, <1>3, DetachDoes

\* With one mutex no thread that waits owns another.
LEMMA InversionKept ==
    ASSUME IInv, IInv', OwnerInherits', InversionIsBounded, [Next]_vars,
           \A m, k \in Mutexes : m = k
    PROVE  InversionIsBounded'
<1>1. CASE Schedule \/ run' \in Highest
  BY <1>1, MostUrgentInvertsNobody
<1>2. CASE UNCHANGED <<run, stat, prio, owner, waiting>>
  BY <1>2 DEF InversionIsBounded
<1>3. ASSUME NEW t \in Threads, NEW m \in Mutexes, ReleaseFree(t, m)
      PROVE  InversionIsBounded'
  <2>1. \A k \in Mutexes : waiting'[k] = <<>>
    BY <1>3 DEF ReleaseFree
  <2> QED
    BY <2>1 DEF InversionIsBounded
<1>4. OneEach
  BY DEF OneEach
<1> QED
  BY <1>1, <1>2, <1>3, <1>4, WhoReschedules, TakeFreeInvertsNobody, DetachInvertsNobody

\* While a thread waits for a mutex whose owner can run, no thread less urgent
\* than the waiter runs: for every set of threads and priorities, with one
\* mutex of flag PRIO.  What is left with several: BeginsByRelease, EndsBySchedule.
THEOREM NoInversion ==
    ASSUME Flag = "PRIO", \A m, k \in Mutexes : m = k PROVE Spec => []InversionIsBounded
<1>1. Init => InversionIsBounded /\ Inherits
  BY DEF Init, InversionIsBounded, Inherits, Unraised, PriorityGivenBack, Remembered,
         Ordered, Sorted, OwnerInherits
<1>2. OneEach
  BY DEF OneEach
<1>3. OneEach'
  BY DEF OneEach
<1>4. IInv /\ IInv' /\ Inherits /\ [Next]_vars => Inherits'
  BY <1>2, <1>3, InheritsKept
<1>5. IInv /\ IInv' /\ Inherits' /\ InversionIsBounded /\ [Next]_vars => InversionIsBounded'
  BY InversionKept DEF Inherits
<1> QED
  BY <1>1, <1>4, <1>5, Initially, Preserved, PTL DEF Spec

-----------------------------------------------------------------------------
\* What several mutexes, taken one at a time, leave of InversionIsBounded.

\* An inversion begins with nothing but the release of a mutex nobody waits
\* for any more, by an owner that gives back what it inherited.
BeginsByRelease ==
    [][InversionIsBounded /\ ~InversionIsBounded'
          => \E m \in Mutexes : ReleaseFree(run, m) /\ prio[run] < prio'[run]]_vars

\* Whoever rt_schedule gives the processor, or leaves it, inverts nobody.
EndsBySchedule == [][Schedule \/ run' # run => InversionIsBounded']_vars

\* Without a priority to give back a release inverts nobody.
LEMMA ReleaseInvertsNobody ==
    ASSUME IInv, OneEach, InversionIsBounded, NEW t \in Threads, NEW m \in Mutexes,
           run = t, wants[t] = None, owner[m] = t, ReleaseFree(t, m), ~(prio[t] < prio'[t])
    PROVE  InversionIsBounded'
<1>1. UNCHANGED <<run, stat, waiting>> /\ owner' = [owner EXCEPT ![m] = None]
      /\ prio' = [prio EXCEPT ![t] = original[m]] /\ waiting[m] = <<>>
  BY DEF ReleaseFree, Restored
<1>2. prio \in [Threads -> Nat] /\ original[m] \in Nat
  BY DEF IInv, TypeOK
<1>3. prio'[t] <= prio[t]
  BY <1>1, <1>2
<1> SUFFICES ASSUME NEW k \in Mutexes, NEW i \in 1..Len(waiting[k]), stat[owner'[k]] = "ready"
             PROVE  run # None /\ prio'[run] <= prio'[waiting[k][i]]
  BY <1>1 DEF InversionIsBounded
<1>4. waiting[k][i] \in Threads /\ On(waiting[k][i], waiting[k])
  <2>1. waiting[k] \in Seq(Threads)
    BY DEF IInv, TypeOK
  <2> QED
    BY <2>1 DEF On
<1>5. k # m /\ owner'[k] = owner[k]
  BY <1>1 DEF IInv, TypeOK
<1>6. run # None /\ prio[run] <= prio[waiting[k][i]]
  BY <1>5 DEF InversionIsBounded
<1>7. waiting[k][i] # t
  BY <1>4, MutexAssumption DEF IInv, Listed, Running
<1>8. prio'[waiting[k][i]] = prio[waiting[k][i]]
  BY <1>1, <1>2, <1>4, <1>7
<1>9. prio[waiting[k][i]] \in Nat /\ prio[t] \in Nat /\ prio'[t] \in Nat
  BY <1>1, <1>2, <1>4
<1> QED
  BY <1>3, <1>6, <1>8, <1>9

LEMMA WhatInverts ==
    ASSUME IInv, IInv', OneEach, Inherits', InversionIsBounded, ~InversionIsBounded', [Next]_vars
    PROVE  \E m \in Mutexes : ReleaseFree(run, m) /\ prio[run] < prio'[run]
<1>1. ~(Schedule \/ run' \in Highest)
  BY MostUrgentInvertsNobody DEF Inherits
<1>2. ~UNCHANGED <<run, stat, prio, owner, waiting>>
  BY DEF InversionIsBounded
<1> QED
  BY <1>1, <1>2, WhoReschedules, TakeFreeInvertsNobody, DetachInvertsNobody, ReleaseInvertsNobody

\* With any number of mutexes of flag PRIO, taken one at a time, a thread less
\* urgent than a waiter comes to run in the owner's place in one way only: it
\* runs already, with a priority it inherited, and gives that back in
\* rt_mutex_release after its last waiter has given up.
THEOREM InversionBeginsByRelease ==
    ASSUME Flag = "PRIO" PROVE Spec /\ []OneEach => BeginsByRelease
<1>1. Init => Inherits
  BY DEF Init, Inherits, Unraised, PriorityGivenBack, Remembered, Ordered, Sorted, OwnerInherits
<1>2. IInv /\ IInv' /\ OneEach /\ OneEach' /\ Inherits /\ [Next]_vars => Inherits'
  BY InheritsKept
<1>3. IInv /\ IInv' /\ OneEach /\ Inherits' /\ [Next]_vars
         => [InversionIsBounded /\ ~InversionIsBounded'
                => \E m \in Mutexes : ReleaseFree(run, m) /\ prio[run] < prio'[run]]_vars
  BY WhatInverts
<1> QED
  BY <1>1, <1>2, <1>3, Initially, Preserved, PTL DEF Spec, BeginsByRelease

\* With those callers an inversion lasts to the next rt_schedule and no longer,
\* whether that comes from a call or from an interrupt.
THEOREM InversionEndsBySchedule ==
    ASSUME Flag = "PRIO" PROVE Spec /\ []OneEach => EndsBySchedule
<1>1. Init => Inherits
  BY DEF Init, Inherits, Unraised, PriorityGivenBack, Remembered, Ordered, Sorted, OwnerInherits
<1>2. IInv /\ IInv' /\ OneEach /\ OneEach' /\ Inherits /\ [Next]_vars => Inherits'
  BY InheritsKept
<1>3. IInv /\ IInv' /\ Inherits' /\ [Next]_vars => [Schedule \/ run' # run => InversionIsBounded']_vars
  <2>1. ASSUME IInv, [Next]_vars, Schedule \/ run' # run PROVE Schedule \/ run' \in Highest
    BY <2>1, WhoReschedules, DetachDoes DEF TakeFree, ReleaseFree
  <2> QED
    BY <2>1, MostUrgentInvertsNobody DEF Inherits
<1> QED
  BY <1>1, <1>2, <1>3, Initially, Preserved, PTL DEF Spec, EndsBySchedule

\* A mutex goes from its owner to the most urgent thread that waits for it.
MostUrgentIsNext ==
    [][\A m \in Mutexes, u \in Threads :
          owner'[m] \notin {owner[m], None} /\ On(u, waiting[m])
             => prio[owner'[m]] <= prio[u]]_vars

LEMMA FirstIsMostUrgent ==
    ASSUME IInv, Ordered, [Next]_vars, NEW m \in Mutexes, NEW u \in Threads,
           owner'[m] \notin {owner[m], None}, On(u, waiting[m])
    PROVE  prio[owner'[m]] <= prio[u]
<1>1. waiting[m] \in Seq(Threads) /\ waiting[m] # <<>>
      /\ prio \in [Threads -> Nat] /\ owner \in [Mutexes -> Threads \cup {None}]
  BY DEF On, IInv, TypeOK
<1>2. PICK i \in 1..Len(waiting[m]) : waiting[m][i] = u
  BY DEF On
<1>3. 1 \in 1..Len(waiting[m]) /\ (i = 1 \/ 1 < i)
  BY <1>1
<1>4. prio[waiting[m][1]] <= prio[u]
  <2>1. 1 < i => prio[waiting[m][1]] <= prio[waiting[m][i]]
    BY <1>3 DEF Ordered, Sorted
  <2>2. prio[u] <= prio[u]
    BY <1>1
  <2> QED
    BY <1>2, <1>3, <2>1, <2>2
<1>5. ASSUME NEW t \in Threads, NEW k \in Mutexes, TakeFree(t, k) PROVE FALSE
  <2>1. k # m
    BY <1>1, <1>5, WaitedFor DEF TakeFree
  <2> QED
    BY <1>1, <1>5, <2>1 DEF TakeFree
<1>6. ASSUME NEW t \in Threads, NEW k \in Mutexes, TakeWait(t, k) \/ ReleaseFree(t, k) PROVE FALSE
  BY <1>1, <1>6 DEF TakeWait, ReleaseFree
<1>7. ASSUME NEW t \in Threads, NEW k \in Mutexes, HandOver(t, k)
      PROVE  owner'[m] = waiting[m][1]
  BY <1>1, <1>7 DEF HandOver
<1> QED
  BY <1>4, <1>5, <1>6, <1>7, WhoTouchesPriorities

\* With any number of mutexes of flag PRIO, taken one at a time, rt_mutex_release
\* passes over nobody more urgent, whatever was inherited since the list was
\* sorted.
THEOREM MutexGoesToMostUrgent ==
    ASSUME Flag = "PRIO" PROVE Spec /\ []OneEach => MostUrgentIsNext
<1>1. Init => Inherits
  BY DEF Init, Inherits, Unraised, PriorityGivenBack, Remembered, Ordered, Sorted, OwnerInherits
<1>2. IInv /\ IInv' /\ OneEach /\ OneEach' /\ Inherits /\ [Next]_vars => Inherits'
  BY InheritsKept
<1>3. IInv /\ Inherits /\ [Next]_vars
         => [\A m \in Mutexes, u \in Threads :
                owner'[m] \notin {owner[m], None} /\ On(u, waiting[m])
                   => prio[owner'[m]] <= prio[u]]_vars
  BY FirstIsMostUrgent DEF Inherits
<1> QED
  BY <1>1, <1>2, <1>3, Initially, Preserved, PTL DEF Spec, MostUrgentIsNext

-----------------------------------------------------------------------------
\* Callers who do not keep to one mutex at a time.

\* Inheritance never takes urgency away, even where it gives back the wrong
\* priority.
NobodyIsLowered == \A t \in Threads : prio[t] <= Base[t]

RemembersNoLess == \A m \in Mutexes : owner[m] # None => original[m] <= Base[owner[m]]

LEMMA NobodyLoweredKept ==
    ASSUME IInv, NobodyIsLowered, RemembersNoLess, [Next]_vars
    PROVE  NobodyIsLowered' /\ RemembersNoLess'
<1> USE MutexAssumption
<1>1. /\ prio \in [Threads -> Nat] /\ original \in [Mutexes -> Nat]
      /\ owner \in [Mutexes -> Threads \cup {None}]
  BY DEF IInv, TypeOK
<1>2. CASE UNCHANGED <<prio, owner, original>>
  BY <1>2 DEF NobodyIsLowered, RemembersNoLess
<1>3. ASSUME NEW t \in Threads, NEW m \in Mutexes, TakeFree(t, m)
      PROVE  NobodyIsLowered' /\ RemembersNoLess'
  BY <1>1, <1>3 DEF TakeFree, NobodyIsLowered, RemembersNoLess
<1>4. ASSUME NEW t \in Threads, NEW m \in Mutexes, TakeWait(t, m)
      PROVE  NobodyIsLowered' /\ RemembersNoLess'
  <2>1. UNCHANGED <<owner, original>>
    BY <1>4 DEF TakeWait
  <2>2. owner[m] \in Threads
    BY <1>1, <1>4 DEF TakeWait, IInv, Owned
  <2>3. ASSUME NEW u \in Threads PROVE prio'[u] <= prio[u]
    BY <1>1, <1>4, <2>2 DEF TakeWait, Raised
  <2>4. prio' \in [Threads -> Nat]
    BY <1>1, <1>4, <2>2 DEF TakeWait, Raised
  <2>5. ASSUME NEW u \in Threads PROVE prio'[u] <= Base[u]
    <3>1. prio[u] \in Nat /\ prio'[u] \in Nat /\ Base[u] \in Nat /\ prio[u] <= Base[u]
      BY <1>1, <2>4 DEF NobodyIsLowered
    <3> QED
      BY <2>3, <3>1
  <2> QED
    BY <2>1, <2>5 DEF NobodyIsLowered, RemembersNoLess
<1>5. ASSUME NEW t \in Threads, NEW m \in Mutexes, owner[m] = t, ReleaseFree(t, m)
      PROVE  NobodyIsLowered' /\ RemembersNoLess'
  <2>1. original[m] <= Base[t]
    BY <1>5 DEF RemembersNoLess
  <2> QED
    BY <1>1, <1>5, <2>1 DEF ReleaseFree, Restored, NobodyIsLowered, RemembersNoLess
<1>6. ASSUME NEW t \in Threads, NEW m \in Mutexes, owner[m] = t, HandOver(t, m)
      PROVE  NobodyIsLowered' /\ RemembersNoLess'
  <2> DEFINE new == waiting[m][1]
  <2>1. original[m] <= Base[t]
    BY <1>6 DEF RemembersNoLess
  <2>2. /\ owner' = [owner EXCEPT ![m] = new] /\ original' = [original EXCEPT ![m] = prio[new]]
        /\ prio' = [prio EXCEPT ![t] = original[m]]
    BY <1>6 DEF HandOver, Restored
  <2>3. new \in Threads
    BY <1>6 DEF HandOver, IInv, TypeOK
  <2> HIDE DEF new
  <2> QED
    BY <1>1, <2>1, <2>2, <2>3 DEF NobodyIsLowered, RemembersNoLess
<1> QED
  BY <1>2, <1>3, <1>4, <1>5, <1>6, WhoTouchesPriorities

\* Whatever callers do, nested and crossed takes of any number of mutexes of
\* either flag included, no thread is less urgent than it was created to be.
THEOREM InheritanceOnlyRaises == Spec => []NobodyIsLowered
<1>1. Init => NobodyIsLowered /\ RemembersNoLess
  BY MutexAssumption DEF Init, NobodyIsLowered, RemembersNoLess
<1>2. IInv /\ NobodyIsLowered /\ RemembersNoLess /\ [Next]_vars
         => NobodyIsLowered' /\ RemembersNoLess'
  BY NobodyLoweredKept
<1> QED
  BY <1>1, <1>2, Initially, Preserved, PTL DEF Spec

\* Callers who nest: whoever takes a mutex, or gives it back for good, owns
\* none of a rank as low.  So the outermost has the highest rank, and releases
\* come in the reverse order of the takes.
InOrder(Rank) ==
    \A t \in Threads, m \in Mutexes :
        \/ TakeFree(t, m) \/ TakeWait(t, m)
        \/ owner[m] = t /\ (ReleaseFree(t, m) \/ HandOver(t, m))
        => \A k \in Mutexes \ {m} : owner[k] = t => Rank[m] < Rank[k]

\* A thread waits for a mutex below those it owns.
WaitsInOrder(Rank) ==
    \A t \in Threads : \A m, k \in Mutexes :
        owner[k] = t /\ wants[t] = m /\ k # m => Rank[m] < Rank[k]

\* The outermost mutex of an owner remembers the owner's own priority.
OutermostRemembers(Rank) ==
    \A m \in Mutexes, t \in Threads :
        owner[m] = t /\ (\A k \in Mutexes \ {m} : owner[k] = t => Rank[k] < Rank[m])
            => original[m] = Base[t]

\* What calls do to who wants and who owns what.
LEMMA HowWantsChange ==
    ASSUME IInv, [Next]_vars
    PROVE  \/ UNCHANGED <<wants, owner>>
           \/ owner' = owner /\ \E t \in Threads : wants' = [wants EXCEPT ![t] = None]
           \/ \E t \in Threads, m \in Mutexes :
                 /\ run = t /\ wants[t] = None
                 /\ \/ TakeFree(t, m)
                    \/ TakeWait(t, m)
                    \/ owner[m] = t /\ (ReleaseFree(t, m) \/ HandOver(t, m))
<1>1. CASE UNCHANGED vars
  BY <1>1 DEF vars, threads, mutexes
<1>2. ASSUME NEW t \in Threads, NEW m \in Mutexes, Take(t, m) \/ Release(t, m)
      PROVE  \/ UNCHANGED <<wants, owner>>
             \/ /\ run = t /\ wants[t] = None
                /\ \/ TakeFree(t, m)
                   \/ TakeWait(t, m)
                   \/ owner[m] = t /\ (ReleaseFree(t, m) \/ HandOver(t, m))
  BY <1>2 DEF Take, Release, TakeAgain, ReleaseInner, MayCall
<1>3. ASSUME NEW t \in Threads, NEW m \in Mutexes, Detach(t, m) PROVE UNCHANGED <<wants, owner>>
  BY <1>3, DetachDoes
<1>4. ASSUME NEW t \in Threads, Timeout(t) \/ Sleep(t) \/ Wake(t) PROVE UNCHANGED <<wants, owner>>
  BY <1>4 DEF Timeout, Sleep, Wake, mutexes
<1>5. ASSUME NEW t \in Threads, Return(t)
      PROVE  owner' = owner /\ wants' = [wants EXCEPT ![t] = None]
  BY <1>5 DEF Return, mutexes
<1>6. CASE Slice
  BY <1>6 DEF Slice, mutexes
<1> QED
  BY <1>1, <1>2, <1>3, <1>4, <1>5, <1>6 DEF Next

LEMMA WaitsInOrderKept ==
    ASSUME IInv, [Next]_vars, NEW Rank, InOrder(Rank), WaitsInOrder(Rank)
    PROVE  WaitsInOrder(Rank)'
<1> USE MutexAssumption
<1>1. /\ wants \in [Threads -> Mutexes \cup {None}]
      /\ owner \in [Mutexes -> Threads \cup {None}]
  BY DEF IInv, TypeOK
<1>2. CASE UNCHANGED <<wants, owner>>
  BY <1>2 DEF WaitsInOrder
<1>3. ASSUME owner' = owner, NEW t \in Threads, wants' = [wants EXCEPT ![t] = None]
      PROVE  WaitsInOrder(Rank)'
  BY <1>1, <1>3 DEF WaitsInOrder
<1>4. ASSUME NEW t \in Threads, NEW m \in Mutexes, wants[t] = None, TakeFree(t, m)
      PROVE  WaitsInOrder(Rank)'
  BY <1>1, <1>4 DEF TakeFree, WaitsInOrder
<1>5. ASSUME NEW t \in Threads, NEW m \in Mutexes, TakeWait(t, m)
      PROVE  WaitsInOrder(Rank)'
  <2>1. \A k \in Mutexes \ {m} : owner[k] = t => Rank[m] < Rank[k]
    BY <1>5 DEF InOrder
  <2> QED
    BY <1>1, <1>5, <2>1 DEF TakeWait, WaitsInOrder
<1>6. ASSUME NEW t \in Threads, NEW m \in Mutexes, ReleaseFree(t, m)
      PROVE  WaitsInOrder(Rank)'
  BY <1>1, <1>6 DEF ReleaseFree, WaitsInOrder
<1>7. ASSUME NEW t \in Threads, NEW m \in Mutexes, HandOver(t, m)
      PROVE  WaitsInOrder(Rank)'
  <2> DEFINE new == waiting[m][1]
  <2>1. owner' = [owner EXCEPT ![m] = new] /\ wants' = wants
    BY <1>7 DEF HandOver
  <2>2. new \in Threads /\ On(new, waiting[m])
    BY <1>7 DEF HandOver, IInv, TypeOK, On
  <2>3. wants[new] = m
    BY <2>2 DEF IInv, Listed
  <2> HIDE DEF new
  <2> QED
    BY <1>1, <2>1, <2>2, <2>3 DEF WaitsInOrder
<1> QED
  BY <1>2, <1>3, <1>4, <1>5, <1>6, <1>7, HowWantsChange

Nested(Rank) == PriorityGivenBack /\ WaitsInOrder(Rank) /\ OutermostRemembers(Rank)

\* Whoever comes to own a mutex besides others owns one of a higher rank.
LEMMA NestedKept ==
    ASSUME IInv, IInv', [Next]_vars, NEW Rank \in [Mutexes -> Nat], InOrder(Rank), Nested(Rank)
    PROVE  Nested(Rank)'
<1> USE MutexAssumption
<1>1. /\ prio \in [Threads -> Nat] /\ original \in [Mutexes -> Nat]
      /\ owner \in [Mutexes -> Threads \cup {None}]
  BY DEF IInv, TypeOK
<1>2. WaitsInOrder(Rank)'
  BY WaitsInOrderKept DEF Nested
<1>3. SUFFICES PriorityGivenBack' /\ OutermostRemembers(Rank)'
  BY <1>2 DEF Nested
<1>4. CASE UNCHANGED <<prio, owner, original>>
  BY <1>4 DEF Nested, PriorityGivenBack, OutermostRemembers
<1>5. ASSUME NEW t \in Threads, NEW m \in Mutexes, TakeFree(t, m)
      PROVE  PriorityGivenBack' /\ OutermostRemembers(Rank)'
  <2>1. owner' = [owner EXCEPT ![m] = t] /\ original' = [original EXCEPT ![m] = prio[t]]
        /\ prio' = prio /\ owner[m] = None
    BY <1>1, <1>5 DEF TakeFree, IInv, TypeOK, Owned
  <2>2. PriorityGivenBack'
    BY <1>1, <2>1 DEF Nested, PriorityGivenBack
  <2>3. \A k \in Mutexes \ {m} : owner[k] = t => Rank[m] < Rank[k]
    BY <1>5 DEF InOrder
  <2>4. ASSUME NEW k \in Mutexes, NEW u \in Threads, owner'[k] = u,
               \A j \in Mutexes \ {k} : owner'[j] = u => Rank[j] < Rank[k]
        PROVE  original'[k] = Base[u]
    <3>1. CASE k = m
      <4>1. \A j \in Mutexes : owner[j] # t
        BY <1>1, <2>1, <2>3, <2>4, <3>1
      <4> QED
        BY <1>1, <2>1, <2>4, <3>1, <4>1 DEF Nested, PriorityGivenBack
    <3>2. CASE k # m
      BY <1>1, <2>1, <2>4, <3>2 DEF Nested, OutermostRemembers
    <3> QED
      BY <3>1, <3>2
  <2> QED
    BY <2>2, <2>4 DEF OutermostRemembers
<1>6. ASSUME NEW t \in Threads, NEW m \in Mutexes, TakeWait(t, m)
      PROVE  PriorityGivenBack' /\ OutermostRemembers(Rank)'
  <2>1. UNCHANGED <<owner, original>> /\ owner[m] \in Threads
        /\ \A u \in Threads : u # owner[m] => prio'[u] = prio[u]
    BY <1>1, <1>6 DEF TakeWait, Raised, IInv, Owned
  <2> QED
    BY <2>1 DEF Nested, PriorityGivenBack, OutermostRemembers
<1>7. ASSUME NEW t \in Threads, NEW m \in Mutexes, owner[m] = t,
             ReleaseFree(t, m) \/ HandOver(t, m),
             NEW new \in Threads \cup {None},
             owner' = [owner EXCEPT ![m] = new],
             original' = [original EXCEPT ![m] = IF new = None THEN 255 ELSE prio[new]],
             prio' = [prio EXCEPT ![t] = original[m]],
             new # None => new # t /\ wants[new] = m
      PROVE  PriorityGivenBack' /\ OutermostRemembers(Rank)'
  <2>1. \A k \in Mutexes \ {m} : owner[k] = t => Rank[m] < Rank[k]
    BY <1>7 DEF InOrder
  <2>2. \A k \in Mutexes \ {m} : new # None /\ owner[k] = new => Rank[m] < Rank[k]
    BY <1>7 DEF Nested, WaitsInOrder
  <2>3. ASSUME NEW u \in Threads, \A k \in Mutexes : owner'[k] # u PROVE prio'[u] = Base[u]
    <3>1. u # new /\ \A k \in Mutexes \ {m} : owner[k] # u
      BY <1>1, <1>7, <2>3
    <3>2. CASE u = t
      <4>1. original[m] = Base[t]
        BY <1>7, <3>1, <3>2 DEF Nested, OutermostRemembers
      <4> QED
        BY <1>1, <1>7, <3>2, <4>1
    <3>3. CASE u # t
      BY <1>1, <1>7, <3>1, <3>3 DEF Nested, PriorityGivenBack
    <3> QED
      BY <3>2, <3>3
  <2>4. ASSUME NEW k \in Mutexes, NEW u \in Threads, owner'[k] = u,
               \A j \in Mutexes \ {k} : owner'[j] = u => Rank[j] < Rank[k]
        PROVE  original'[k] = Base[u]
    <3>1. CASE k = m
      <4>1. u = new /\ u # t
        BY <1>1, <1>7, <2>4, <3>1
      <4>2. \A j \in Mutexes \ {m} : owner[j] # u
        <5>1. ASSUME NEW j \in Mutexes \ {m}, owner[j] = u PROVE FALSE
          <6>1. Rank[m] < Rank[j] /\ Rank[j] < Rank[m]
            BY <1>1, <1>7, <2>2, <2>4, <3>1, <4>1, <5>1
          <6>2. Rank[m] \in Nat /\ Rank[j] \in Nat
            OBVIOUS
          <6> QED
            BY <6>1, <6>2
        <5> QED
          BY <5>1
      <4>3. prio[u] = Base[u]
        BY <1>7, <4>1, <4>2 DEF Nested, PriorityGivenBack
      <4> QED
        BY <1>1, <1>7, <3>1, <4>1, <4>3
    <3>2. CASE k # m
      <4>1. owner[k] = u /\ original'[k] = original[k]
        BY <1>1, <1>7, <2>4, <3>2
      <4>2. ASSUME NEW j \in Mutexes \ {k}, owner[j] = u PROVE Rank[j] < Rank[k]
        <5>1. CASE j = m
          BY <1>7, <2>1, <3>2, <4>1, <4>2, <5>1
        <5>2. CASE j # m
          BY <1>1, <1>7, <2>4, <4>2, <5>2
        <5> QED
          BY <5>1, <5>2
      <4> QED
        BY <4>1, <4>2 DEF Nested, OutermostRemembers
    <3> QED
      BY <3>1, <3>2
  <2> QED
    BY <2>3, <2>4 DEF PriorityGivenBack, OutermostRemembers
<1>8. ASSUME NEW t \in Threads, NEW m \in Mutexes, owner[m] = t, ReleaseFree(t, m)
      PROVE  PriorityGivenBack' /\ OutermostRemembers(Rank)'
  BY <1>7, <1>8 DEF ReleaseFree, Restored
<1>9. ASSUME NEW t \in Threads, NEW m \in Mutexes, owner[m] = t, HandOver(t, m)
      PROVE  PriorityGivenBack' /\ OutermostRemembers(Rank)'
  <2> DEFINE new == waiting[m][1]
  <2>1. /\ owner' = [owner EXCEPT ![m] = new] /\ original' = [original EXCEPT ![m] = prio[new]]
        /\ prio' = [prio EXCEPT ![t] = original[m]]
    BY <1>9 DEF HandOver, Restored
  <2>2. new \in Threads /\ On(new, waiting[m])
    BY <1>9 DEF HandOver, IInv, TypeOK, On
  <2>3. wants[new] = m /\ new # t /\ new # None
    BY <1>9, <2>2 DEF IInv, Listed
  <2> HIDE DEF new
  <2> QED
    BY <1>7, <1>9, <2>1, <2>2, <2>3
<1> QED
  BY <1>4, <1>5, <1>6, <1>8, <1>9, WhoTouchesPriorities

\* What is inherited is given back also by callers who nest several mutexes,
\* if there is one order for all of them that the releases follow backwards:
\* the priority that comes back last is the one remembered first.
THEOREM NestedPrioritiesAreGivenBack ==
    ASSUME NEW Rank \in [Mutexes -> Nat]
    PROVE  Spec /\ [][InOrder(Rank)]_vars => []PriorityGivenBack
<1>1. Init => Nested(Rank)
  BY MutexAssumption
     DEF Init, Nested, PriorityGivenBack, WaitsInOrder, OutermostRemembers
<1>2. Nested(Rank) => PriorityGivenBack
  BY DEF Nested
<1>3. IInv /\ IInv' /\ Nested(Rank) /\ [Next]_vars /\ [InOrder(Rank)]_vars => Nested(Rank)'
  <2>1. CASE InOrder(Rank)
    BY <2>1, NestedKept
  <2>2. CASE UNCHANGED vars
    BY <2>2 DEF vars, threads, mutexes, Nested, PriorityGivenBack, WaitsInOrder, OutermostRemembers
  <2> QED
    BY <2>1, <2>2
<1> QED
  BY <1>1, <1>2, <1>3, Initially, Preserved, PTL DEF Spec

\* While a thread waits, an owner that is waited for does not wait itself.
SomebodyCanGoOn ==
    (\E t \in Threads : stat[t] = "waiting") =>
        \E m \in Mutexes :
            /\ waiting[m] # <<>> /\ owner[m] \in Threads
            /\ stat[owner[m]] # "waiting"

\* Among the mutexes that are waited for one has the least rank; its owner
\* would wait for one of a lower rank.
LEMMA LowestIsNotStuck ==
    ASSUME IInv, NEW Rank \in [Mutexes -> Nat], WaitsInOrder(Rank)
    PROVE  SomebodyCanGoOn
<1> DEFINE W == {m \in Mutexes : waiting[m] # <<>>}
           R == {Rank[m] : m \in W}
<1>1. ASSUME NEW t \in Threads, stat[t] = "waiting" PROVE wants[t] \in W
  BY <1>1 DEF IInv, TypeOK, Awakened, On
<1> SUFFICES ASSUME W # {} PROVE \E m \in W : owner[m] \in Threads /\ stat[owner[m]] # "waiting"
  BY <1>1 DEF SomebodyCanGoOn
<1>2. R \in SUBSET Nat /\ R # {}
  OBVIOUS
<1>3. PICK r \in R : \A q \in R : r <= q
  <2> HIDE DEF R
  <2> QED
    BY <1>2, LeastNat
<1>4. PICK m \in W : r = Rank[m]
  OBVIOUS
<1>5. owner[m] \in Threads
  BY WaitedFor DEF IInv, TypeOK
<1>6. ASSUME stat[owner[m]] = "waiting" PROVE FALSE
  <2> DEFINE k == wants[owner[m]]
  <2>1. k \in W
    BY <1>1, <1>5, <1>6
  <2>2. On(owner[m], waiting[k])
    BY <1>5, <1>6 DEF IInv, Awakened
  <2>3. owner[k] # owner[m]
    BY <1>5, <2>1, <2>2 DEF IInv, Listed
  <2>4. Rank[k] < Rank[m]
    BY <1>5, <2>1, <2>3 DEF WaitsInOrder
  <2>5. Rank[m] <= Rank[k]
    BY <1>3, <1>4, <2>1
  <2> HIDE DEF k
  <2>6. Rank[k] \in Nat /\ Rank[m] \in Nat
    BY <2>1
  <2> QED
    BY <2>4, <2>5, <2>6
<1> QED
  BY <1>5, <1>6

\* Callers who take mutexes in one order never wait for each other in a circle:
\* with any number of threads and mutexes, if somebody waits then somebody who
\* is waited for can run, or sleeps for another reason.
THEOREM NoCircleOfWaiters ==
    ASSUME NEW Rank \in [Mutexes -> Nat]
    PROVE  Spec /\ [][InOrder(Rank)]_vars => []SomebodyCanGoOn
<1>1. Init => WaitsInOrder(Rank)
  BY MutexAssumption DEF Init, WaitsInOrder
<1>2. IInv /\ WaitsInOrder(Rank) => SomebodyCanGoOn
  BY LowestIsNotStuck
<1>3. IInv /\ WaitsInOrder(Rank) /\ [Next]_vars /\ [InOrder(Rank)]_vars => WaitsInOrder(Rank)'
  <2>1. CASE InOrder(Rank)
    BY <2>1, WaitsInOrderKept
  <2>2. CASE UNCHANGED vars
    BY <2>2 DEF vars, threads, mutexes, WaitsInOrder
  <2> QED
    BY <2>1, <2>2
<1> QED
  BY <1>1, <1>2, <1>3, Initially, Preserved, PTL DEF Spec

-----------------------------------------------------------------------------
\* Every step is a step of LockService, or none at all.

LEMMA AskersAreListed ==
    ASSUME IInv, NEW m \in Mutexes
    PROVE  Locks!Asking(m) = {t \in Threads : On(t, waiting[m])}
<1>1. ASSUME NEW t \in Threads, wants[t] = m, Stage[t] = "asking" PROVE On(t, waiting[m])
  BY <1>1, MutexAssumption DEF Stage, IInv, Awakened
<1>2. ASSUME NEW t \in Threads, On(t, waiting[m]) PROVE wants[t] = m /\ Stage[t] = "asking"
  BY <1>2, MutexAssumption DEF Stage, IInv, Listed
<1> QED
  BY <1>1, <1>2 DEF Locks!Asking

LEMMA TakeIsService ==
    ASSUME IInv, NEW t \in Threads, NEW m \in Mutexes, Take(t, m)
    PROVE  Locks!Get(t, m) \/ Locks!Ask(t, m)
<1>1. run = t /\ wants[t] = None /\ m \notin gone /\ stat[t] = "ready" /\ Stage[t] = "idle"
  BY MutexAssumption DEF Take, MayCall, IInv, Running, Stage
<1>2. /\ stat \in [Threads -> {"ready", "waiting", "sleeping"}]
      /\ error \in [Threads -> BOOLEAN] /\ wants \in [Threads -> Mutexes \cup {None}]
  BY DEF IInv, TypeOK
<1>3. CASE TakeAgain(t, m)
  <2>1. Stage' = Stage
    BY <1>1, <1>2, <1>3 DEF TakeAgain, Stage
  <2>2. owner' = [owner EXCEPT ![m] = t]
    BY <1>3 DEF TakeAgain, IInv, TypeOK
  <2> QED
    BY <1>1, <1>3, <2>1, <2>2 DEF TakeAgain, Locks!Get, detaching
<1>4. CASE TakeFree(t, m)
  <2>1. Stage' = Stage
    BY <1>1, <1>2, <1>4 DEF TakeFree, Stage
  <2>2. owner[m] = None
    BY <1>4 DEF TakeFree, IInv, TypeOK, Owned
  <2> QED
    BY <1>1, <1>4, <2>1, <2>2 DEF TakeFree, Locks!Get, detaching
<1>5. CASE TakeWait(t, m)
  <2>1. /\ stat' = [stat EXCEPT ![t] = "waiting"] /\ error' = [error EXCEPT ![t] = FALSE]
        /\ wants' = [wants EXCEPT ![t] = m]
        /\ UNCHANGED <<has, owner, hold, gone>>
        /\ owner[m] \notin {t, None}
    BY <1>5 DEF TakeWait, IInv, Owned, detaching
  <2>2. Stage' = [Stage EXCEPT ![t] = "asking"]
    BY <1>2, <2>1, MutexAssumption DEF Stage
  <2> QED
    BY <1>1, <2>1, <2>2 DEF Locks!Ask
<1> QED
  BY <1>3, <1>4, <1>5 DEF Take

LEMMA ReleaseIsService ==
    ASSUME IInv, NEW t \in Threads, NEW m \in Mutexes, Release(t, m)
    PROVE  Locks!GiveBack(t, m)
<1>1. /\ run = t /\ wants[t] = None /\ m \notin gone /\ owner[m] = t /\ Stage[t] = "idle"
      /\ has' = [has EXCEPT ![t][m] = @ - 1]
  BY DEF Release, Stage, MayCall
<1>2. /\ stat \in [Threads -> {"ready", "waiting", "sleeping"}]
      /\ wants \in [Threads -> Mutexes \cup {None}]
  BY DEF IInv, TypeOK
<1>3. CASE ReleaseInner(t, m)
  <2>1. Stage' = Stage
    BY <1>3 DEF ReleaseInner, Stage
  <2> QED
    BY <1>1, <1>3, <2>1 DEF ReleaseInner, Locks!GiveBack, Locks!Inner, detaching
<1>4. CASE ReleaseFree(t, m)
  <2>1. Stage' = Stage
    BY <1>4 DEF ReleaseFree, Stage
  <2>2. Locks!Asking(m) = {}
    BY <1>4, AskersAreListed DEF ReleaseFree, On
  <2> QED
    BY <1>1, <1>4, <2>1, <2>2 DEF ReleaseFree, Locks!GiveBack, Locks!Free, detaching
<1>5. CASE HandOver(t, m)
  <2> DEFINE new == waiting[m][1]
  <2>1. /\ hold[m] = 1 /\ owner' = [owner EXCEPT ![m] = new]
        /\ stat' = [stat EXCEPT ![new] = "ready"]
        /\ UNCHANGED <<error, wants, hold, gone>>
    BY <1>5 DEF HandOver, detaching
  <2>2. new \in Threads /\ On(new, waiting[m])
    BY <1>5 DEF HandOver, IInv, TypeOK, On
  <2>3. wants[new] = m /\ ~error[new] /\ new \in Locks!Asking(m)
    BY <2>2, AskersAreListed DEF IInv, Listed
  <2> HIDE DEF new
  <2>4. Stage' = [Stage EXCEPT ![new] = "granted"]
    BY <1>2, <2>1, <2>2, <2>3, MutexAssumption DEF Stage
  <2>5. Locks!PassOn(m)
    BY <2>1, <2>3, <2>4 DEF Locks!PassOn
  <2> QED
    BY <1>1, <2>1, <2>5 DEF Locks!GiveBack
<1> QED
  BY <1>3, <1>4, <1>5 DEF Release

LEMMA ReturnIsService ==
    ASSUME IInv, NEW t \in Threads, Return(t) PROVE Locks!GetBack(t)
<1>1. /\ wants[t] # None /\ stat[t] = "ready"
      /\ wants' = [wants EXCEPT ![t] = None]
      /\ UNCHANGED <<stat, error, owner, hold, gone>>
  BY MutexAssumption DEF Return, mutexes, detaching, IInv, Running
<1>2. wants \in [Threads -> Mutexes \cup {None}] /\ error \in [Threads -> BOOLEAN]
  BY DEF IInv, TypeOK
<1>3. Stage[t] = IF error[t] THEN "refused" ELSE "granted"
  BY <1>1 DEF Stage
<1>4. Stage' = [Stage EXCEPT ![t] = "idle"]
  BY <1>1, <1>2 DEF Stage
<1>5. has' = IF Stage[t] = "granted" THEN [has EXCEPT ![t][wants[t]] = @ + 1] ELSE has
  BY <1>2, <1>3 DEF Return, Outcome
<1> QED
  BY <1>1, <1>3, <1>4, <1>5 DEF Locks!GetBack

\* Whoever is woken with an error gives up, whoever woke it.
LEMMA ExpelIsService ==
    ASSUME IInv, NEW m \in Mutexes, NEW i \in 1..Len(waiting[m]), waiting[m][i] \in Threads,
           Expel(m, i), UNCHANGED <<wants, has, owner, hold, gone>>
    PROVE  Locks!GiveUp(waiting[m][i])
<1> DEFINE t == waiting[m][i]
<1>1. error' = [error EXCEPT ![t] = TRUE] /\ stat' = [stat EXCEPT ![t] = "ready"]
  BY DEF Expel
<1>2. On(t, waiting[m])
  BY DEF On
<1>3. /\ stat \in [Threads -> {"ready", "waiting", "sleeping"}]
      /\ error \in [Threads -> BOOLEAN]
  BY DEF IInv, TypeOK
<1> HIDE DEF t
<1>4. t \in Threads /\ stat[t] = "waiting" /\ wants[t] # None
  BY <1>2, MutexAssumption DEF IInv, Listed, t
<1>5. Stage[t] = "asking" /\ Stage' = [Stage EXCEPT ![t] = "refused"]
  BY <1>1, <1>3, <1>4 DEF Stage
<1> QED
  BY <1>5 DEF Locks!GiveUp, t

LEMMA TimeoutIsService ==
    ASSUME IInv, NEW t \in Threads, Timeout(t) PROVE Locks!GiveUp(t)
<1>1. wants[t] \in Mutexes
  BY DEF Timeout, IInv, TypeOK, Running, Awakened
<1>2. PICK i \in 1..Len(waiting[wants[t]]) : waiting[wants[t]][i] = t /\ Expel(wants[t], i)
  BY DEF Timeout
<1>3. UNCHANGED <<wants, has, owner, hold, gone>>
  BY DEF Timeout, detaching
<1> QED
  BY <1>1, <1>2, <1>3, ExpelIsService

\* One region of a detach refuses one thread, closes the mutex, or is only a
\* look.
LEMMA DetachIsService ==
    ASSUME IInv, NEW t \in Threads, NEW m \in Mutexes, Detach(t, m)
    PROVE  Locks!SNext \/ UNCHANGED Locks!svars
<1>1. UNCHANGED <<wants, has, owner, hold>>
  BY DetachDoes
<1>2. CASE 1 \in 1..Len(waiting[m]) /\ waiting[m][1] \in Threads /\ Expel(m, 1) /\ UNCHANGED gone
  BY <1>1, <1>2, ExpelIsService DEF Locks!SNext
<1>3. CASE UNCHANGED <<stat, error>>
  <2>1. Stage' = Stage
    BY <1>1, <1>3 DEF Stage
  <2>2. gone' = gone \/ gone' = gone \cup {m}
    BY DEF Detach, DetachLook, DetachWake, DetachHalt, DetachObject
  <2> QED
    BY <1>1, <2>1, <2>2 DEF Locks!SNext, Locks!Close, Locks!svars
<1> QED
  BY <1>2, <1>3, DetachDoes

LEMMA OthersAreNoService ==
    ASSUME IInv, Slice \/ UNCHANGED vars \/ \E t \in Threads : Sleep(t) \/ Wake(t)
    PROVE  UNCHANGED Locks!svars
<1>1. UNCHANGED <<error, wants, has, owner, hold, gone>>
  BY DEF Slice, Sleep, Wake, vars, threads, mutexes, detaching
<1>2. ASSUME NEW t \in Threads, wants[t] # None PROVE stat'[t] = stat[t]
  <2>1. stat \in [Threads -> {"ready", "waiting", "sleeping"}] /\ stat[t] # "sleeping"
    BY <1>2 DEF IInv, TypeOK, Awakened
  <2>2. stat' = stat \/ \E u \in Threads : Sleep(u) \/ Wake(u)
    BY DEF Slice, vars, threads
  <2>3. ASSUME NEW u \in Threads, Sleep(u) \/ Wake(u) PROVE stat'[t] = stat[t]
    BY <1>2, <2>1, <2>3 DEF Sleep, Wake, MayCall
  <2> QED
    BY <2>2, <2>3
<1>3. Stage' = Stage
  BY <1>1, <1>2 DEF Stage
<1> QED
  BY <1>1, <1>3 DEF Locks!svars

\* For every set of threads and mutexes, either flag and any priorities, what
\* callers of the mutexes see is LockService: one holder, who is told so; the
\* right answer for whoever gets one; and a mutex given back goes to somebody
\* who asks.  A detach comes region by region, with the time-outs and the
\* newcomers in between, and may leave who asks without an answer.
THEOREM ImplementsService == Spec => ServesCallers
<1>1. Init => Locks!SInit
  BY DEF Init, Stage, Locks!SInit
<1>2. IInv /\ [Next]_vars => [Locks!SNext]_(Locks!svars)
  <2> SUFFICES ASSUME IInv, [Next]_vars PROVE Locks!SNext \/ UNCHANGED Locks!svars
    OBVIOUS
  <2>1. ASSUME NEW t \in Threads, NEW m \in Mutexes, Take(t, m) \/ Release(t, m)
        PROVE  Locks!SNext
    BY <2>1, TakeIsService, ReleaseIsService DEF Locks!SNext
  <2>2. ASSUME NEW t \in Threads, Return(t) \/ Timeout(t) PROVE Locks!SNext
    BY <2>2, ReturnIsService, TimeoutIsService DEF Locks!SNext
  <2> QED
    BY <2>1, <2>2, DetachIsService, OthersAreNoService DEF Next
<1> QED
  BY <1>1, <1>2, Initially, Preserved, PTL DEF Spec, ServesCallers, Locks!SSpec

============================================================================
