--------------------------- MODULE ThreadsProofs ---------------------------
(***************************************************************************)
(* Proofs about Threads: whatever the threads, their priorities and slices *)
(* are, every thread is in the list its state names, and the processor is  *)
(* with the most urgent thread that can run, as long as callers keep the   *)
(* rules of start and deletion.  Last, the order in which equals get it    *)
(* and how long each keeps it.                                             *)
(***************************************************************************)
EXTENDS Threads, LeastNumber, TLAPS

Cpu == [cur : All, stat : [All -> Stats], yield : [All -> BOOLEAN],
        queue : [Priority -> Seq(All)], group : SUBSET Priority]

\* The queues and their bitmap agree, and who is queued is ready.
Queues(c) ==
    /\ c \in Cpu
    /\ \A p \in Priority :
          /\ p \in c.group <=> c.queue[p] # <<>>
          /\ Once(c.queue[p])
          /\ \A t \in All : OnList(c.queue[p], t) => Prio[t] = p /\ c.stat[t] = "ready"

On(c, t) == OnList(c.queue[Prio[t]], t)

\* Nobody runs but the current thread, which is in no queue, and the idle
\* thread runs or is queued.
Core(c) ==
    /\ Queues(c)
    /\ c.stat[c.cur] # "ready"
    /\ \A t \in All : c.stat[t] = "running" => t = c.cur
    /\ c.stat[Idle] \in {"ready", "running"}
    /\ c.stat[Idle] = "ready" => On(c, Idle)

Urgent(c) == c.stat[c.cur] = "running" /\ \A p \in c.group : Prio[c.cur] <= p

Victim(t, v) == \E d \in Thread : d # t /\ v[d] = t

\* How states go with the rest: A are the threads on the list of a timer or an
\* IPC object, D the dead that are not freed, v the victims of deletions.
Ties(c, A, D, v) ==
    /\ \A t \in All : c.stat[t] = "ready" => On(c, t) \/ Victim(t, v)
    /\ \A t \in A : c.stat[t] = "suspend"
    /\ \A t \in Thread : c.stat[t] = "close" <=> t \in D
    /\ \A d \in Thread : v[d] # d =>
          /\ v[d] \in Thread \ {c.cur} /\ v[d] \notin A /\ ~On(c, v[d])
          /\ c.stat[v[d]] \in {"init", "ready", "suspend"}

Asleep == timers \cup listed
Dead == {t \in Thread : OnList(defunct, t) \/ reaping = t}

\* Whom a thread has taken off its list, and is going to bury.
Gone == [d \in All |-> IF pc[d] \in {"detach", "bury"} THEN victim[d] ELSE d]

\* Whom it is going to take off, who is started and not marked suspended yet,
\* and who is so marked and not queued yet.
Work ==
    [meant |-> [d \in All |-> IF pc[d] \in {"look", "remove"} THEN victim[d] ELSE d],
     fresh |-> {starts[d] : d \in {e \in Thread : pc[e] = "mark"}},
     marked |-> {starts[d] : d \in {e \in Thread : pc[e] \in {"check", "unlink", "insert"}}}]

\* What keeps u from running before d has taken it off its queue.
Keeps(c, l, d, u) ==
    \/ c.stat[u] = "init"
    \/ l # 0 /\ c.cur = d
    \/ Prio[d] < Prio[u] /\ (On(c, d) \/ (c.cur = d /\ c.stat[d] = "running"))

\* How states go with starts and deletions that are under way: T are the
\* threads whose timer runs, l is the scheduler's lock.
Owed(c, A, T, l, w) ==
    /\ \A d \in Thread : w.meant[d] # d =>
          /\ w.meant[d] \in Thread \ {c.cur} /\ w.meant[d] \notin T
          /\ c.stat[w.meant[d]] \in {"init", "ready", "suspend"}
          /\ Keeps(c, l, d, w.meant[d])
    /\ \A u \in w.fresh : c.stat[u] = "init"
    /\ \A u \in w.marked : c.stat[u] = "suspend" /\ u \notin A

StartSteps == {"mark", "check", "unlink", "insert"}
DeleteSteps == {"look", "remove", "detach", "bury"}

\* Who deletes and starts whom: nobody is deleted or started by two or both
\* deleted and started, and who is deleted does neither.
Deleting ==
    /\ \A t \in All : pc[t] \in DeleteSteps <=> victim[t] # t
    /\ \A t \in All : pc[t] \in StartSteps <=> starts[t] # t
    /\ victim[Idle] = Idle /\ starts[Idle] = Idle /\ pc[Idle] = "run"
    /\ \A d, e \in Thread : d # e /\ victim[d] = victim[e] => victim[d] \in {d, e}
    /\ \A d, e \in Thread : d # e /\ starts[d] = starts[e] => starts[d] \in {d, e}
    /\ \A d \in Thread : victim[d] # d => victim[d] \in Thread /\ pc[victim[d]] \in Calm
    /\ \A d \in Thread : starts[d] # d => starts[d] \in Thread
    /\ \A d, e \in Thread : victim[d] # d /\ starts[e] # e => victim[d] # starts[e]

\* The current thread can go on unless it is about to call rt_schedule.
Going ==
    \/ cpu.stat[cpu.cur] = "running"
    \/ cpu.stat[cpu.cur] = "suspend" /\ lock = 0 /\ pc[cpu.cur] = "switch"

Graves == Once(defunct) /\ ~OnList(defunct, reaping)

\* The inductive invariant.
IInv ==
    /\ TypeOK /\ Core(cpu) /\ Ties(cpu, Asleep, Dead, Gone)
    /\ Owed(cpu, Asleep, timers, lock, Work)
    /\ Deleting /\ Going /\ Graves /\ MostUrgentRuns

-----------------------------------------------------------------------------
(* The list operators. *)

\* rt_list_remove takes one thread off and keeps the others.
LEMMA WithoutList ==
  ASSUME NEW q \in Seq(All), NEW t \in All, Once(q)
  PROVE  /\ Without(q, t) \in Seq(All) /\ Once(Without(q, t))
         /\ \A u \in All : OnList(Without(q, t), u) <=> OnList(q, u) /\ u # t
<1>1. Len(q) \in Nat /\ DOMAIN q = 1..Len(q) /\ \A i \in 1..Len(q) : q[i] \in All
  OBVIOUS
<1>2. CASE ~OnList(q, t)
  BY <1>2 DEF Without, OnList
<1>3. CASE OnList(q, t)
  <2> DEFINE k == CHOOSE i \in 1..Len(q) : q[i] = t
             w == Without(q, t)
  <2>1. k \in 1..Len(q) /\ q[k] = t
    BY <1>3 DEF OnList
  <2>2. w = [i \in 1..Len(q) - 1 |-> IF i < k THEN q[i] ELSE q[i + 1]]
    BY <1>3 DEF Without
  <2> HIDE DEF k, w
  <2>3. \A i \in 1..Len(q) - 1 : w[i] = (IF i < k THEN q[i] ELSE q[i + 1]) /\ w[i] \in All
    BY <1>1, <2>1, <2>2
  <2>4. w \in Seq(All) /\ Len(w) = Len(q) - 1
    <3>1. Len(q) - 1 \in Nat
      BY <1>1, <2>1
    <3>2. w \in [1..Len(q) - 1 -> All]
      BY <2>2, <2>3
    <3> QED BY <2>2, <3>1, <3>2
  <2>5. Once(w)
    <3>1. SUFFICES ASSUME NEW i \in 1..Len(q) - 1, NEW j \in 1..Len(q) - 1, i # j
                   PROVE  w[i] # w[j]
      BY <2>4 DEF Once
    <3>2. \A a, b \in 1..Len(q) : a # b => q[a] # q[b]
      BY DEF Once
    <3> DEFINE m(l) == IF l < k THEN l ELSE l + 1
    <3>3. m(i) \in 1..Len(q) /\ m(j) \in 1..Len(q) /\ m(i) # m(j)
      BY <1>1, <2>1, <3>1
    <3>4. w[i] = q[m(i)] /\ w[j] = q[m(j)]
      BY <2>3
    <3> QED BY <3>2, <3>3, <3>4
  <2>6. ASSUME NEW u \in All, OnList(w, u) PROVE OnList(q, u) /\ u # t
    <3>1. PICK i \in 1..Len(q) - 1 : w[i] = u
      BY <2>4, <2>6 DEF OnList
    <3>2. \A a, b \in 1..Len(q) : a # b => q[a] # q[b]
      BY DEF Once
    <3> QED BY <1>1, <2>1, <2>3, <3>1, <3>2 DEF OnList
  <2>7. ASSUME NEW u \in All, OnList(q, u), u # t PROVE OnList(w, u)
    <3>1. PICK i \in 1..Len(q) : q[i] = u
      BY <2>7 DEF OnList
    <3>2. i # k
      BY <2>1, <2>7, <3>1
    <3>3. CASE i < k
      BY <1>1, <2>1, <2>3, <2>4, <3>1, <3>3 DEF OnList
    <3>4. CASE i > k
      <4>1. i - 1 \in 1..Len(q) - 1 /\ w[i - 1] = u
        BY <1>1, <2>1, <2>3, <3>1, <3>4
      <4> QED BY <2>4, <4>1 DEF OnList
    <3> QED BY <2>1, <3>2, <3>3, <3>4
  <2> QED BY <2>4, <2>5, <2>6, <2>7 DEF w
<1> QED BY <1>2, <1>3

\* rt_list_insert_before at the head node appends.
LEMMA AppendedList ==
  ASSUME NEW q \in Seq(All), NEW t \in All, Once(q), ~OnList(q, t)
  PROVE  /\ Append(q, t) \in Seq(All) /\ Once(Append(q, t)) /\ Append(q, t) # <<>>
         /\ \A u \in All : OnList(Append(q, t), u) <=> OnList(q, u) \/ u = t
<1> DEFINE w == Append(q, t)
<1>1. /\ Len(q) \in Nat /\ w \in Seq(All) /\ Len(w) = Len(q) + 1
      /\ \A i \in 1..Len(q) : w[i] = q[i]
      /\ w[Len(q) + 1] = t
  OBVIOUS
<1> HIDE DEF w
<1>2. Once(w)
  BY <1>1 DEF Once, OnList
<1>3. \A u \in All : OnList(w, u) <=> OnList(q, u) \/ u = t
  <2>1. ASSUME NEW u \in All, OnList(w, u) PROVE OnList(q, u) \/ u = t
    <3>1. PICK i \in 1..Len(q) + 1 : w[i] = u
      BY <1>1, <2>1 DEF OnList
    <3>2. i \in 1..Len(q) \/ i = Len(q) + 1
      BY <1>1
    <3> QED BY <1>1, <3>1, <3>2 DEF OnList
  <2>2. ASSUME NEW u \in All, OnList(q, u) \/ u = t PROVE OnList(w, u)
    <3>1. CASE u = t
      <4>1. Len(q) + 1 \in 1..Len(w)
        BY <1>1
      <4> QED BY <1>1, <3>1, <4>1 DEF OnList
    <3>2. CASE OnList(q, u)
      <4>1. PICK i \in 1..Len(q) : q[i] = u
        BY <3>2 DEF OnList
      <4> QED BY <1>1, <4>1 DEF OnList
    <3> QED BY <2>2, <3>1, <3>2
  <2> QED BY <2>1, <2>2
<1>4. w # <<>>
  BY <1>1
<1> QED BY <1>1, <1>2, <1>3, <1>4 DEF w

LEMMA NobodyListed ==
  ASSUME NEW q \in Seq(All)
  PROVE  q = <<>> <=> \A t \in All : ~OnList(q, t)
<1>1. CASE q = <<>>
  BY <1>1 DEF OnList
<1>2. CASE q # <<>>
  <2>1. 1 \in 1..Len(q) /\ q[1] \in All
    BY <1>2
  <2> QED BY <1>2, <2>1 DEF OnList
<1> QED BY <1>1, <1>2

-----------------------------------------------------------------------------
(* The operators of the scheduler. *)

\* rt_schedule_insert_thread queues a thread that is in no queue.
LEMMA InsertQueues ==
  ASSUME NEW c, Queues(c), NEW t \in All, c.stat[t] # "ready", t # c.cur
  PROVE  /\ Queues(Insert(c, t))
         /\ Insert(c, t).cur = c.cur /\ Insert(c, t).yield = c.yield
         /\ Insert(c, t).stat = [c.stat EXCEPT ![t] = "ready"]
         /\ \A u \in All : On(Insert(c, t), u) <=> On(c, u) \/ u = t
         /\ Insert(c, t).group = c.group \cup {Prio[t]}
<1> DEFINE d == Insert(c, t)
           q == c.queue[Prio[t]]
<1>1. c \in Cpu /\ Prio[t] \in Priority
  BY DEF Queues, Priority
<1>2. d = [c EXCEPT !.stat[t] = "ready", !.queue[Prio[t]] = Append(@, t),
                    !.group = @ \cup {Prio[t]}]
  BY DEF Insert
<1>3. /\ d.cur = c.cur /\ d.yield = c.yield
      /\ d.stat = [c.stat EXCEPT ![t] = "ready"]
      /\ d.queue = [c.queue EXCEPT ![Prio[t]] = Append(q, t)]
      /\ d.group = c.group \cup {Prio[t]}
  BY <1>1, <1>2 DEF Cpu
<1>4. q \in Seq(All) /\ Once(q) /\ ~OnList(q, t)
  BY <1>1 DEF Queues, Cpu
<1>5. /\ Append(q, t) \in Seq(All) /\ Once(Append(q, t)) /\ Append(q, t) # <<>>
      /\ \A u \in All : OnList(Append(q, t), u) <=> OnList(q, u) \/ u = t
  BY <1>4, AppendedList
<1>6. d \in Cpu
  <2>1. d.queue \in [Priority -> Seq(All)]
    BY <1>1, <1>3, <1>5 DEF Cpu
  <2>2. d.stat \in [All -> Stats]
    BY <1>1, <1>3 DEF Cpu, Stats
  <2> QED BY <1>1, <1>2, <1>3, <2>1, <2>2 DEF Cpu
<1> HIDE DEF d, q
<1>7. Queues(d)
  <2>1. ASSUME NEW p \in Priority
        PROVE  /\ p \in d.group <=> d.queue[p] # <<>>
               /\ Once(d.queue[p])
               /\ \A u \in All : OnList(d.queue[p], u) => Prio[u] = p /\ d.stat[u] = "ready"
    <3>1. CASE p = Prio[t]
      <4>1. d.queue[p] = Append(q, t)
        BY <1>1, <1>3, <3>1 DEF Cpu
      <4>2. \A u \in All : OnList(q, u) => Prio[u] = p /\ c.stat[u] = "ready"
        BY <2>1, <3>1 DEF Queues, q
      <4> QED BY <1>1, <1>3, <1>5, <3>1, <4>1, <4>2 DEF Cpu
    <3>2. CASE p # Prio[t]
      <4>1. d.queue[p] = c.queue[p]
        BY <1>1, <1>3, <3>2 DEF Cpu
      <4>2. /\ p \in c.group <=> c.queue[p] # <<>>
            /\ Once(c.queue[p])
            /\ \A u \in All : OnList(c.queue[p], u) => Prio[u] = p /\ c.stat[u] = "ready"
        BY DEF Queues
      <4> QED BY <1>1, <1>3, <3>2, <4>1, <4>2 DEF Cpu
    <3> QED BY <3>1, <3>2
  <2> QED BY <1>6, <2>1 DEF Queues
<1>8. ASSUME NEW u \in All PROVE On(d, u) <=> On(c, u) \/ u = t
  <2>1. Prio[u] \in Priority
    BY DEF Priority
  <2>2. CASE Prio[u] = Prio[t]
    BY <1>1, <1>3, <1>5, <2>2 DEF On, Cpu, q
  <2>3. CASE Prio[u] # Prio[t]
    BY <1>1, <1>3, <2>1, <2>3 DEF On, Cpu
  <2> QED BY <2>2, <2>3
<1> QED BY <1>3, <1>7, <1>8 DEF d

\* rt_schedule_remove_thread takes a thread out of its queue, if it is in it.
LEMMA RemoveQueues ==
  ASSUME NEW c, Queues(c), NEW t \in All
  PROVE  /\ Queues(Remove(c, t))
         /\ Remove(c, t).cur = c.cur /\ Remove(c, t).yield = c.yield
         /\ Remove(c, t).stat = c.stat
         /\ \A u \in All : On(Remove(c, t), u) <=> On(c, u) /\ u # t
         /\ Remove(c, t).group \subseteq c.group
<1> DEFINE d == Remove(c, t)
           q == c.queue[Prio[t]]
           w == Without(q, t)
<1>1. c \in Cpu /\ Prio[t] \in Priority
  BY DEF Queues, Priority
<1>2. d = [c EXCEPT !.queue[Prio[t]] = w,
                    !.group = IF w = <<>> THEN @ \ {Prio[t]} ELSE @]
  BY DEF Remove
<1>3. q \in Seq(All) /\ Once(q)
  BY <1>1 DEF Queues, Cpu
<1>4. /\ w \in Seq(All) /\ Once(w)
      /\ \A u \in All : OnList(w, u) <=> OnList(q, u) /\ u # t
  BY <1>3, WithoutList
<1>5. w # <<>> => q # <<>>
  <2>1. w = <<>> <=> \A u \in All : ~OnList(w, u)
    BY <1>4, NobodyListed
  <2>2. q = <<>> <=> \A u \in All : ~OnList(q, u)
    BY <1>3, NobodyListed
  <2> QED BY <1>4, <2>1, <2>2
<1> HIDE DEF w
<1>6. /\ d.cur = c.cur /\ d.yield = c.yield /\ d.stat = c.stat
      /\ d.queue = [c.queue EXCEPT ![Prio[t]] = w]
      /\ d.group = IF w = <<>> THEN c.group \ {Prio[t]} ELSE c.group
  BY <1>1, <1>2 DEF Cpu
<1>7. d \in Cpu
  <2>1. d.queue \in [Priority -> Seq(All)]
    BY <1>1, <1>4, <1>6 DEF Cpu
  <2> QED BY <1>1, <1>2, <1>6, <2>1 DEF Cpu
<1> HIDE DEF d, q
<1>8. Queues(d)
  <2>1. ASSUME NEW p \in Priority
        PROVE  /\ p \in d.group <=> d.queue[p] # <<>>
               /\ Once(d.queue[p])
               /\ \A u \in All : OnList(d.queue[p], u) => Prio[u] = p /\ d.stat[u] = "ready"
    <3>0. /\ p \in c.group <=> c.queue[p] # <<>>
          /\ Once(c.queue[p])
          /\ \A u \in All : OnList(c.queue[p], u) => Prio[u] = p /\ c.stat[u] = "ready"
      BY DEF Queues
    <3>1. CASE p = Prio[t]
      <4>1. d.queue[p] = w /\ c.queue[p] = q
        BY <1>1, <1>6, <3>1 DEF Cpu, q
      <4> QED BY <1>4, <1>5, <1>6, <3>0, <3>1, <4>1
    <3>2. CASE p # Prio[t]
      <4>1. d.queue[p] = c.queue[p]
        BY <1>1, <1>6, <3>2 DEF Cpu
      <4> QED BY <1>6, <3>0, <3>2, <4>1
    <3> QED BY <3>1, <3>2
  <2> QED BY <1>7, <2>1 DEF Queues
<1>9. ASSUME NEW u \in All PROVE On(d, u) <=> On(c, u) /\ u # t
  <2>1. Prio[u] \in Priority
    BY DEF Priority
  <2>2. CASE Prio[u] = Prio[t]
    BY <1>1, <1>4, <1>6, <2>2 DEF On, Cpu, q
  <2>3. CASE Prio[u] # Prio[t]
    BY <1>1, <1>6, <2>1, <2>3 DEF On, Cpu
  <2> QED BY <2>2, <2>3
<1> QED BY <1>6, <1>8, <1>9 DEF d

\* __rt_ffs finds the most urgent priority with a bit, and its queue has a head.
LEMMA HighestIsUrgent ==
  ASSUME NEW c, Queues(c), c.group # {}
  PROVE  /\ Highest(c) \in c.group /\ \A p \in c.group : Highest(c) <= p
         /\ Head(c.queue[Highest(c)]) \in All
         /\ Prio[Head(c.queue[Highest(c)])] = Highest(c)
         /\ On(c, Head(c.queue[Highest(c)]))
         /\ c.stat[Head(c.queue[Highest(c)])] = "ready"
<1>1. Priority \subseteq Nat
  BY ThreadAssumption DEF Priority, All
<1>2. c.group \subseteq Priority /\ c.queue \in [Priority -> Seq(All)]
  BY DEF Queues, Cpu
<1>3. \E p \in c.group : \A q \in c.group : p <= q
  BY <1>1, <1>2, LeastNat
<1> DEFINE h == Highest(c)
<1>4. h \in c.group /\ \A p \in c.group : h <= p
  BY <1>3 DEF Highest
<1> HIDE DEF h
<1> DEFINE q == c.queue[h]
<1>5. h \in Priority /\ q \in Seq(All) /\ q # <<>>
  BY <1>2, <1>4 DEF Queues
<1>6. Head(q) \in All /\ OnList(q, Head(q))
  <2>1. 1 \in 1..Len(q) /\ Head(q) = q[1] /\ q[1] \in All
    BY <1>5
  <2> QED BY <2>1 DEF OnList
<1>7. Prio[Head(q)] = h /\ c.stat[Head(q)] = "ready"
  BY <1>5, <1>6 DEF Queues
<1>8. On(c, Head(q))
  BY <1>6, <1>7 DEF On
<1> QED BY <1>4, <1>6, <1>7, <1>8 DEF h

\* What a switch does to the states, and to the queues.
LEMMA SwitchEffect ==
  ASSUME NEW c, Core(c), NEW to \in All, On(c, to), c.stat[to] = "ready"
  PROVE  LET d == SwitchTo(c, to)
         IN  /\ Queues(d) /\ d.cur = to /\ to # c.cur
             /\ d.stat = [c.stat EXCEPT
                   ![c.cur] = IF @ = "running" THEN "ready" ELSE @, ![to] = "running"]
             /\ \A u \in All : On(d, u) <=>
                   (On(c, u) \/ (u = c.cur /\ c.stat[c.cur] = "running")) /\ u # to
             /\ d.group \subseteq c.group \cup {Prio[c.cur]}
<1>1. Queues(c) /\ c \in Cpu /\ c.cur \in All /\ to # c.cur
  BY DEF Core, Queues, Cpu
<1> DEFINE b == [c EXCEPT !.cur = to, !.yield[c.cur] = FALSE]
           e == [c EXCEPT !.cur = to]
           o == IF c.stat[c.cur] = "running" THEN Insert(b, c.cur) ELSE e
           r == Remove(o, to)
           d == SwitchTo(c, to)
<1>2. /\ b \in Cpu /\ b.cur = to /\ b.stat = c.stat /\ b.queue = c.queue /\ b.group = c.group
      /\ e \in Cpu /\ e.cur = to /\ e.stat = c.stat /\ e.queue = c.queue /\ e.group = c.group
  BY <1>1 DEF Cpu
<1> HIDE DEF b, e
<1>3. Queues(b) /\ Queues(e) /\ \A u \in All : (On(b, u) <=> On(c, u)) /\ (On(e, u) <=> On(c, u))
  BY <1>1, <1>2 DEF Queues, On
<1>4. /\ Queues(o) /\ o.cur = to
      /\ o.stat = [c.stat EXCEPT ![c.cur] = IF @ = "running" THEN "ready" ELSE @]
      /\ \A u \in All : On(o, u) <=> On(c, u) \/ (u = c.cur /\ c.stat[c.cur] = "running")
      /\ o.group \subseteq c.group \cup {Prio[c.cur]}
  <2>1. CASE c.stat[c.cur] = "running"
    <3>1. /\ Queues(Insert(b, c.cur)) /\ Insert(b, c.cur).cur = b.cur
          /\ Insert(b, c.cur).stat = [b.stat EXCEPT ![c.cur] = "ready"]
          /\ \A u \in All : On(Insert(b, c.cur), u) <=> On(b, u) \/ u = c.cur
          /\ Insert(b, c.cur).group = b.group \cup {Prio[c.cur]}
      BY <1>1, <1>2, <1>3, <2>1, InsertQueues
    <3> QED BY <1>2, <1>3, <2>1, <3>1
  <2>2. CASE c.stat[c.cur] # "running"
    <3>1. c.stat = [c.stat EXCEPT ![c.cur] = IF @ = "running" THEN "ready" ELSE @]
      BY <1>1, <2>2 DEF Cpu
    <3> QED BY <1>2, <1>3, <2>2, <3>1
  <2> QED BY <2>1, <2>2
<1> HIDE DEF o
<1>5. /\ Queues(r) /\ r.cur = to /\ r.stat = o.stat
      /\ \A u \in All : On(r, u) <=> On(o, u) /\ u # to
      /\ r.group \subseteq o.group
  BY <1>4, RemoveQueues
<1>6. r \in Cpu
  BY <1>5 DEF Queues
<1>7. d = [r EXCEPT !.stat[to] = "running"]
  BY DEF SwitchTo, o, b, e
<1> HIDE DEF r, d
<1>8. /\ d.cur = to /\ d.stat = [r.stat EXCEPT ![to] = "running"]
      /\ d.queue = r.queue /\ d.group = r.group
  BY <1>5, <1>6, <1>7 DEF Cpu
<1>9. \A u \in All : On(d, u) <=> On(r, u)
  BY <1>8 DEF On
<1>10. d \in Cpu
  <2>1. d.stat \in [All -> Stats]
    BY <1>6, <1>8 DEF Cpu, Stats
  <2> QED BY <1>6, <1>7, <1>8, <2>1 DEF Cpu
<1>11. Queues(d)
  <2>1. \A p \in Priority, u \in All : OnList(r.queue[p], u) => u # to
    <3>1. ~On(r, to)
      BY <1>5
    <3> QED BY <1>5, <3>1 DEF Queues, On
  <2>2. \A u \in All : u # to => d.stat[u] = r.stat[u]
    BY <1>6, <1>8 DEF Cpu
  <2> QED BY <1>5, <1>8, <1>10, <2>1, <2>2 DEF Queues
<1> QED BY <1>1, <1>4, <1>5, <1>8, <1>9, <1>11 DEF d

\* A thread in no queue changes its state.
LEMMA Restated ==
  ASSUME NEW c, Core(c), NEW t \in Thread, ~On(c, t), NEW d \in Cpu,
         d.cur = c.cur, d.queue = c.queue, d.group = c.group,
         d.stat[t] \notin {"ready", "running"},
         \A u \in All : u # t => d.stat[u] = c.stat[u]
  PROVE  /\ Core(d)
         /\ \A u \in All : On(d, u) <=> On(c, u)
<1>1. c \in Cpu /\ t \in All /\ t # Idle /\ Idle \in All /\ c.cur \in All
  BY ThreadAssumption DEF Core, Queues, All, Cpu
<1>2. \A u \in All : On(d, u) <=> On(c, u)
  BY DEF On
<1>3. \A p \in Priority, u \in All : OnList(d.queue[p], u) => u # t
  BY DEF Core, Queues, On
<1>4. Queues(d)
  BY <1>3 DEF Core, Queues
<1> QED BY <1>1, <1>2, <1>4 DEF Core

\* rt_schedule_insert_thread of a thread that starts or is woken.
LEMMA InsertTies ==
  ASSUME NEW c, NEW A \in SUBSET Thread, NEW D, NEW v \in [All -> All],
         Core(c), Ties(c, A, D, v),
         NEW t \in Thread, ~Victim(t, v),
         c.stat[t] = "suspend" \/ (c.stat[t] = "init" /\ t # c.cur)
  PROVE  /\ Core(Insert(c, t)) /\ Ties(Insert(c, t), A \ {t}, D, v)
         /\ Insert(c, t).cur = c.cur
         /\ Insert(c, t).stat[c.cur] = IF t = c.cur THEN "running" ELSE c.stat[c.cur]
<1> DEFINE d == Insert(c, t)
<1>1. c \in Cpu /\ Queues(c) /\ t \in All /\ Idle \in All /\ t # Idle /\ c.cur \in All
  BY ThreadAssumption DEF Core, Queues, All, Cpu
<1>2. ~On(c, t)
  BY <1>1 DEF Queues, On, Priority
<1>3. CASE t = c.cur
  <2>1. d = [c EXCEPT !.stat[t] = "running"]
    BY <1>3 DEF Insert
  <2> HIDE DEF d
  <2>2. /\ d.cur = c.cur /\ d.queue = c.queue /\ d.group = c.group
        /\ d.stat = [c.stat EXCEPT ![t] = "running"] /\ d.yield = c.yield
    BY <1>1, <2>1 DEF Cpu
  <2>3. d.stat[t] = "running" /\ \A u \in All : u # t => d.stat[u] = c.stat[u]
    BY <1>1, <2>2 DEF Cpu
  <2>4. \A u \in All : On(d, u) <=> On(c, u)
    BY <2>2 DEF On
  <2>5. d \in Cpu
    <3>1. d.stat \in [All -> Stats]
      BY <1>1, <2>2 DEF Cpu, Stats
    <3> QED BY <1>1, <2>1, <2>2, <3>1 DEF Cpu
  <2>6. \A p \in Priority, u \in All : OnList(d.queue[p], u) => u # t
    BY <1>1, <1>2, <2>2 DEF Queues, On
  <2>7. Queues(d)
    BY <1>1, <2>2, <2>3, <2>5, <2>6 DEF Queues
  <2>8. Core(d)
    BY <1>1, <1>3, <2>2, <2>3, <2>4, <2>7 DEF Core
  <2>9. Ties(d, A \ {t}, D, v)
    <3>1. \A u \in All : d.stat[u] = "ready" => On(d, u) \/ Victim(u, v)
      BY <2>3, <2>4 DEF Ties
    <3>2. \A u \in A \ {t} : d.stat[u] = "suspend"
      BY <2>3 DEF Ties, All
    <3>3. \A u \in Thread : d.stat[u] = "close" <=> u \in D
      BY <2>3 DEF Ties, All
    <3>4. ASSUME NEW e \in Thread, v[e] # e
          PROVE  /\ v[e] \in Thread \ {d.cur} /\ v[e] \notin A \ {t} /\ ~On(d, v[e])
                 /\ d.stat[v[e]] \in {"init", "ready", "suspend"}
      BY <1>3, <2>2, <2>3, <2>4, <3>4 DEF Ties, All
    <3> QED BY <3>1, <3>2, <3>3, <3>4 DEF Ties
  <2> QED BY <1>3, <2>2, <2>3, <2>8, <2>9 DEF d
<1>4. CASE t # c.cur
  <2>1. /\ Queues(d) /\ d.cur = c.cur
        /\ d.stat = [c.stat EXCEPT ![t] = "ready"]
        /\ \A u \in All : On(d, u) <=> On(c, u) \/ u = t
    BY <1>1, <1>4, InsertQueues
  <2> HIDE DEF d
  <2>2. d.stat[t] = "ready" /\ \A u \in All : u # t => d.stat[u] = c.stat[u]
    BY <1>1, <2>1 DEF Cpu
  <2>3. Core(d)
    BY <1>1, <1>4, <2>1, <2>2 DEF Core
  <2>4. Ties(d, A \ {t}, D, v)
    <3>1. \A u \in All : d.stat[u] = "ready" => On(d, u) \/ Victim(u, v)
      BY <1>1, <2>1, <2>2 DEF Ties
    <3>2. \A u \in A \ {t} : d.stat[u] = "suspend"
      BY <2>2 DEF Ties, All
    <3>3. \A u \in Thread : d.stat[u] = "close" <=> u \in D
      BY <2>2 DEF Ties, All
    <3>4. ASSUME NEW e \in Thread, v[e] # e
          PROVE  /\ v[e] \in Thread \ {d.cur} /\ v[e] \notin A \ {t} /\ ~On(d, v[e])
                 /\ d.stat[v[e]] \in {"init", "ready", "suspend"}
      <4>1. v[e] # t
        BY <3>4 DEF Victim
      <4> QED BY <2>1, <2>2, <3>4, <4>1 DEF Ties, All
    <3> QED BY <3>1, <3>2, <3>3, <3>4 DEF Ties
  <2> QED BY <1>1, <1>4, <2>1, <2>2, <2>3, <2>4 DEF d
<1> QED BY <1>3, <1>4

\* It leaves what starts and deletions are about alone.
LEMMA InsertOwed ==
  ASSUME NEW c, NEW A, NEW T, NEW l, NEW w,
         Core(c), Owed(c, A, T, l, w), w.fresh \in SUBSET Thread, w.marked \in SUBSET Thread,
         NEW t \in Thread, c.stat[t] = "suspend", t \notin w.marked
  PROVE  Owed(Insert(c, t), A \ {t}, T \ {t}, l, w)
<1> DEFINE d == Insert(c, t)
<1>1. c \in Cpu /\ Queues(c) /\ t \in All
  BY DEF Core, Queues, All
<1>2. /\ d.cur = c.cur /\ d.stat[t] \in {"ready", "running"} /\ (d.stat[t] = "running" => t = c.cur)
      /\ \A u \in All : u # t => d.stat[u] = c.stat[u]
      /\ \A u \in All : On(c, u) => On(d, u)
  <2>1. CASE t = c.cur
    <3>1. d = [c EXCEPT !.stat[t] = "running"]
      BY <2>1 DEF Insert
    <3> HIDE DEF d
    <3>2. d.cur = c.cur /\ d.queue = c.queue /\ d.stat = [c.stat EXCEPT ![t] = "running"]
      BY <1>1, <3>1 DEF Cpu
    <3> QED BY <1>1, <2>1, <3>2 DEF Cpu, On
  <2>2. CASE t # c.cur
    <3>1. /\ d.cur = c.cur /\ d.stat = [c.stat EXCEPT ![t] = "ready"]
          /\ \A u \in All : On(d, u) <=> On(c, u) \/ u = t
      BY <1>1, <2>2, InsertQueues
    <3> HIDE DEF d
    <3> QED BY <1>1, <3>1 DEF Cpu
  <2> QED BY <2>1, <2>2
<1> HIDE DEF d
<1>3. ASSUME NEW e \in Thread, w.meant[e] # e
      PROVE  /\ w.meant[e] \in Thread \ {d.cur} /\ w.meant[e] \notin T \ {t}
             /\ d.stat[w.meant[e]] \in {"init", "ready", "suspend"}
             /\ Keeps(d, l, e, w.meant[e])
  <2> DEFINE u == w.meant[e]
  <2>1. /\ u \in Thread \ {c.cur} /\ u \notin T
        /\ c.stat[u] \in {"init", "ready", "suspend"} /\ Keeps(c, l, e, u)
    BY <1>3 DEF Owed
  <2> HIDE DEF u
  <2>2. u \in All /\ e \in All
    BY <2>1 DEF All
  <2>3. d.stat[u] \in {"init", "ready", "suspend"} /\ (c.stat[u] = "init" => d.stat[u] = "init")
    BY <1>2, <2>1, <2>2
  <2>4. c.cur = e /\ c.stat[e] = "running" => d.cur = e /\ d.stat[e] = "running"
    BY <1>2, <2>2
  <2>5. Keeps(d, l, e, u)
    BY <1>2, <2>1, <2>2, <2>3, <2>4 DEF Keeps
  <2> QED BY <1>2, <2>1, <2>3, <2>5 DEF u
<1>4. \A u \in w.fresh : d.stat[u] = "init"
  BY <1>2 DEF Owed, All
<1>5. \A u \in w.marked : d.stat[u] = "suspend" /\ u \notin A \ {t}
  BY <1>2 DEF Owed, All
<1> QED BY <1>3, <1>4, <1>5 DEF Owed, d

\* rt_schedule gives the processor to the most urgent thread that can run, and
\* leaves every thread where its state says.
LEMMA ScheduleTies ==
  ASSUME NEW c, NEW A \in SUBSET Thread, NEW D, NEW v \in [All -> All],
         Core(c), Ties(c, A, D, v), lock \in Nat
  PROVE  /\ Core(Schedule(c)) /\ Ties(Schedule(c), A, D, v)
         /\ lock = 0 => Urgent(Schedule(c))
         /\ Schedule(c).cur = c.cur => Schedule(c) = c
         /\ lock # 0 => Schedule(c) = c
<1>1. c \in Cpu /\ Queues(c) /\ Idle \in All /\ c.cur \in All /\ Prio \in [All -> Nat]
  BY ThreadAssumption DEF Core, Queues, Cpu, All
<1>2. CASE lock # 0
  BY <1>2 DEF Schedule
<1>3. CASE lock = 0 /\ c.group = {}
  <2>1. ~On(c, Idle)
    <3>1. c.queue[Prio[Idle]] = <<>>
      BY <1>1, <1>3 DEF Queues, Priority
    <3> QED BY <3>1 DEF On, OnList
  <2>2. c.stat[Idle] = "running" /\ c.cur = Idle
    BY <1>1, <2>1 DEF Core
  <2> QED BY <1>3, <2>2 DEF Schedule, Urgent
<1>4. CASE lock = 0 /\ c.group # {} /\ Stays(c)
  <2>1. /\ Highest(c) \in c.group /\ \A p \in c.group : Highest(c) <= p
    BY <1>1, <1>4, HighestIsUrgent
  <2>2. c.group \subseteq Nat
    BY <1>1 DEF Cpu, Priority
  <2>3. Urgent(c)
    BY <1>1, <1>4, <2>1, <2>2 DEF Stays, Urgent
  <2> QED BY <1>4, <2>3 DEF Schedule
<1>5. CASE lock = 0 /\ c.group # {} /\ ~Stays(c)
  <2> DEFINE h == Highest(c)
             to == Head(c.queue[h])
             d == SwitchTo(c, to)
  <2>1. /\ h \in c.group /\ \A p \in c.group : h <= p
        /\ to \in All /\ Prio[to] = h /\ On(c, to) /\ c.stat[to] = "ready"
    BY <1>1, <1>5, HighestIsUrgent
  <2>2. Schedule(c) = d
    BY <1>5 DEF Schedule
  <2> HIDE DEF h, to
  <2>3. /\ Queues(d) /\ d.cur = to /\ to # c.cur
        /\ d.stat = [c.stat EXCEPT
              ![c.cur] = IF @ = "running" THEN "ready" ELSE @, ![to] = "running"]
        /\ \A u \in All : On(d, u) <=>
              (On(c, u) \/ (u = c.cur /\ c.stat[c.cur] = "running")) /\ u # to
        /\ d.group \subseteq c.group \cup {Prio[c.cur]}
    BY <2>1, SwitchEffect
  <2> HIDE DEF d
  <2>4. /\ d.stat[to] = "running"
        /\ d.stat[c.cur] = IF c.stat[c.cur] = "running" THEN "ready" ELSE c.stat[c.cur]
        /\ \A u \in All : u # to /\ u # c.cur => d.stat[u] = c.stat[u]
    BY <1>1, <2>1, <2>3 DEF Cpu
  <2>5. Core(d)
    <3>1. d.stat[d.cur] # "ready" /\ \A u \in All : d.stat[u] = "running" => u = d.cur
      BY <1>1, <2>3, <2>4 DEF Core
    <3>2. d.stat[Idle] \in {"ready", "running"} /\ (d.stat[Idle] = "ready" => On(d, Idle))
      BY <1>1, <2>3, <2>4 DEF Core
    <3> QED BY <2>3, <3>1, <3>2 DEF Core
  <2>6. Ties(d, A, D, v)
    <3>1. \A u \in All : d.stat[u] = "ready" => On(d, u) \/ Victim(u, v)
      BY <1>1, <2>3, <2>4 DEF Ties
    <3>2. \A u \in A : d.stat[u] = "suspend"
      BY <1>1, <2>1, <2>4 DEF Ties, All
    <3>3. \A u \in Thread : d.stat[u] = "close" <=> u \in D
      BY <1>1, <2>1, <2>4 DEF Ties, All
    <3>4. ASSUME NEW e \in Thread, v[e] # e
          PROVE  /\ v[e] \in Thread \ {d.cur} /\ v[e] \notin A /\ ~On(d, v[e])
                 /\ d.stat[v[e]] \in {"init", "ready", "suspend"}
      <4>1. /\ v[e] \in Thread /\ v[e] \in All /\ v[e] # c.cur /\ ~On(c, v[e])
        BY <3>4 DEF Ties, All
      <4>2. v[e] # to
        BY <2>1, <4>1
      <4> QED BY <2>3, <2>4, <3>4, <4>1, <4>2 DEF Ties
    <3> QED BY <3>1, <3>2, <3>3, <3>4 DEF Ties
  <2>7. Urgent(d)
    <3>1. c.stat[c.cur] = "running" => h <= Prio[c.cur]
      BY <1>1, <1>5, <2>1 DEF Stays, h, Cpu, Priority
    <3>2. ASSUME NEW p \in d.group PROVE h <= p
      <4>1. CASE p \in c.group
        BY <2>1, <4>1
      <4>2. CASE p \notin c.group
        <5>1. p = Prio[c.cur] /\ p \in Priority
          BY <1>1, <2>3, <4>2 DEF Priority
        <5>2. d.queue[p] # <<>> /\ d.queue[p] \in Seq(All)
          BY <2>3, <5>1 DEF Queues, Cpu
        <5>3. PICK u \in All : OnList(d.queue[p], u)
          BY <5>2, NobodyListed
        <5>4. On(d, u) /\ Prio[u] = p
          BY <2>3, <5>1, <5>3 DEF Queues, On
        <5>5. ~On(c, u)
          <6>1. c.queue[p] = <<>> /\ c.queue[p] \in Seq(All)
            BY <1>1, <4>2, <5>1 DEF Queues, Cpu
          <6> QED BY <5>4, <6>1, NobodyListed DEF On
        <5>6. c.stat[c.cur] = "running"
          BY <2>3, <5>4, <5>5
        <5> QED BY <3>1, <5>1, <5>6
      <4> QED BY <4>1, <4>2
    <3> QED BY <2>1, <2>3, <2>4, <3>2 DEF Urgent
  <2> QED BY <1>5, <2>2, <2>3, <2>5, <2>6, <2>7
<1> QED BY <1>2, <1>3, <1>4, <1>5

\* And no thread that is being deleted gets it before it is off its queue.
LEMMA ScheduleOwed ==
  ASSUME NEW c, NEW A, NEW T, NEW w, Core(c), Owed(c, A, T, lock, w),
         w.fresh \in SUBSET Thread, w.marked \in SUBSET Thread, lock \in Nat
  PROVE  Owed(Schedule(c), A, T, lock, w)
<1>1. c \in Cpu /\ Queues(c) /\ c.cur \in All /\ Prio \in [All -> Nat]
  BY ThreadAssumption DEF Core, Queues, Cpu, All
<1>2. CASE lock # 0 \/ c.group = {} \/ Stays(c)
  BY <1>2 DEF Schedule
<1>3. CASE lock = 0 /\ c.group # {} /\ ~Stays(c)
  <2> DEFINE h == Highest(c)
             to == Head(c.queue[h])
             d == SwitchTo(c, to)
  <2>1. /\ h \in c.group /\ \A p \in c.group : h <= p
        /\ to \in All /\ Prio[to] = h /\ On(c, to) /\ c.stat[to] = "ready"
    BY <1>1, <1>3, HighestIsUrgent
  <2>2. Schedule(c) = d
    BY <1>3 DEF Schedule
  <2>3. c.stat[c.cur] = "running" => h <= Prio[c.cur]
    BY <1>1, <1>3, <2>1 DEF Stays, Cpu, Priority
  <2> HIDE DEF h, to
  <2>4. /\ d.cur = to /\ to # c.cur
        /\ d.stat = [c.stat EXCEPT
              ![c.cur] = IF @ = "running" THEN "ready" ELSE @, ![to] = "running"]
        /\ \A u \in All : On(d, u) <=>
              (On(c, u) \/ (u = c.cur /\ c.stat[c.cur] = "running")) /\ u # to
    BY <2>1, SwitchEffect
  <2> HIDE DEF d
  <2>5. /\ d.stat[to] = "running"
        /\ d.stat[c.cur] = IF c.stat[c.cur] = "running" THEN "ready" ELSE c.stat[c.cur]
        /\ \A u \in All : u # to /\ u # c.cur => d.stat[u] = c.stat[u]
    BY <1>1, <2>1, <2>4 DEF Cpu
  <2>6. \A u \in All : c.stat[u] \in {"init", "suspend"} => d.stat[u] = c.stat[u]
    BY <2>1, <2>5
  <2>7. ASSUME NEW e \in Thread, w.meant[e] # e
        PROVE  /\ w.meant[e] \in Thread \ {d.cur} /\ w.meant[e] \notin T
               /\ d.stat[w.meant[e]] \in {"init", "ready", "suspend"}
               /\ Keeps(d, lock, e, w.meant[e])
    <3> DEFINE u == w.meant[e]
    <3>1. /\ u \in Thread \ {c.cur} /\ u \notin T
          /\ c.stat[u] \in {"init", "ready", "suspend"} /\ Keeps(c, lock, e, u)
      BY <2>7 DEF Owed
    <3> HIDE DEF u
    <3>2. u \in All /\ e \in All /\ Prio[e] \in Nat /\ Prio[u] \in Nat /\ h \in Nat
      BY <1>1, <2>1, <3>1 DEF All
    <3>3. CASE c.stat[u] = "init"
      BY <2>1, <2>4, <2>5, <3>1, <3>2, <3>3 DEF Keeps, u
    <3>4. CASE Prio[e] < Prio[u] /\ (On(c, e) \/ (c.cur = e /\ c.stat[e] = "running"))
      <4>1. h <= Prio[e]
        <5>1. CASE On(c, e)
          <6>1. Prio[e] \in Priority /\ c.queue[Prio[e]] # <<>>
            BY <3>2, <5>1 DEF Priority, On, OnList
          <6> QED BY <1>1, <2>1, <6>1 DEF Queues
        <5>2. CASE c.cur = e /\ c.stat[e] = "running"
          BY <2>3, <5>2
        <5> QED BY <3>4, <5>1, <5>2
      <4>2. u # to
        BY <2>1, <3>2, <3>4, <4>1
      <4>3. d.stat[u] = c.stat[u]
        BY <2>5, <3>1, <3>2, <4>2
      <4>4. On(d, e) \/ (d.cur = e /\ d.stat[e] = "running")
        BY <2>4, <2>5, <3>2, <3>4
      <4> QED BY <2>4, <3>1, <3>4, <4>2, <4>3, <4>4 DEF Keeps, u
    <3> QED BY <1>3, <3>1, <3>3, <3>4 DEF Keeps
  <2>8. \A u \in w.fresh : d.stat[u] = "init"
    BY <2>6 DEF Owed, All
  <2>9. \A u \in w.marked : d.stat[u] = "suspend" /\ u \notin A
    BY <2>6 DEF Owed, All
  <2> QED BY <2>2, <2>7, <2>8, <2>9 DEF Owed
<1> QED BY <1>2, <1>3

\* It is not concerned with the states of threads that are dead or not created ...
LEMMA SameOwed ==
  ASSUME NEW c, NEW d, NEW A, NEW B \in SUBSET A, NEW T, NEW S \in SUBSET T, NEW l, NEW w,
         Owed(c, A, T, l, w), w.fresh \in SUBSET Thread, w.marked \in SUBSET Thread,
         d.cur = c.cur, \A u \in All : On(c, u) => On(d, u),
         \A u \in All : c.stat[u] \notin {"none", "close"} => d.stat[u] = c.stat[u]
  PROVE  Owed(d, B, S, l, w)
<1>1. ASSUME NEW e \in Thread, w.meant[e] # e
      PROVE  /\ w.meant[e] \in Thread \ {d.cur} /\ w.meant[e] \notin S
             /\ d.stat[w.meant[e]] \in {"init", "ready", "suspend"}
             /\ Keeps(d, l, e, w.meant[e])
  <2> DEFINE u == w.meant[e]
  <2>1. /\ u \in Thread \ {c.cur} /\ u \notin T
        /\ c.stat[u] \in {"init", "ready", "suspend"} /\ Keeps(c, l, e, u)
    BY <1>1 DEF Owed
  <2> HIDE DEF u
  <2>2. u \in All /\ e \in All /\ d.stat[u] = c.stat[u]
    BY <2>1 DEF All
  <2>3. c.stat[e] = "running" => d.stat[e] = "running"
    BY <2>2
  <2> QED BY <2>1, <2>2, <2>3 DEF Keeps, u
<1>2. \A u \in w.fresh : d.stat[u] = "init"
  BY DEF Owed, All
<1>3. \A u \in w.marked : d.stat[u] = "suspend" /\ u \notin B
  BY DEF Owed, All
<1> QED BY <1>1, <1>2, <1>3 DEF Owed

\* ... nor with the current thread, if that deletes nobody.
LEMMA LeftOwed ==
  ASSUME NEW c, NEW d, NEW t \in Thread, NEW A, NEW B \in SUBSET (A \cup {t}),
         NEW T, NEW S \in SUBSET (T \cup {t}), NEW l, NEW w,
         Owed(c, A, T, l, w), w.fresh \in SUBSET Thread, w.marked \in SUBSET Thread,
         c.cur = t, c.stat[t] = "running", w.meant[t] = t,
         d.cur = t, \A u \in All : u # t => d.stat[u] = c.stat[u],
         \A u \in All : On(d, u) <=> On(c, u) /\ u # t
  PROVE  Owed(d, B, S, l, w)
<1>1. ASSUME NEW e \in Thread, w.meant[e] # e
      PROVE  /\ w.meant[e] \in Thread \ {d.cur} /\ w.meant[e] \notin S
             /\ d.stat[w.meant[e]] \in {"init", "ready", "suspend"}
             /\ Keeps(d, l, e, w.meant[e])
  <2> DEFINE u == w.meant[e]
  <2>1. /\ u \in Thread \ {c.cur} /\ u \notin T
        /\ c.stat[u] \in {"init", "ready", "suspend"} /\ Keeps(c, l, e, u)
    BY <1>1 DEF Owed
  <2>2. e # t
    BY <1>1
  <2> HIDE DEF u
  <2>3. u \in All /\ e \in All /\ u # t /\ d.stat[u] = c.stat[u]
    BY <2>1 DEF All
  <2>4. Keeps(d, l, e, u)
    BY <2>1, <2>2, <2>3 DEF Keeps
  <2> QED BY <2>1, <2>3, <2>4 DEF u
<1>2. \A u \in w.fresh : d.stat[u] = "init"
  <2>1. t \notin w.fresh
    BY DEF Owed
  <2> QED BY <2>1 DEF Owed, All
<1>3. \A u \in w.marked : d.stat[u] = "suspend" /\ u \notin B
  <2>1. t \notin w.marked
    BY DEF Owed
  <2> QED BY <2>1 DEF Owed, All
<1> QED BY <1>1, <1>2, <1>3 DEF Owed

-----------------------------------------------------------------------------
(* The invariant. *)

LEMMA InitIInv == Init => IInv
<1> SUFFICES ASSUME Init PROVE IInv
  OBVIOUS
<1>1. PICK t \in Thread : cpu = Boot(t)
  BY DEF Init
<1>2. /\ t \in All /\ Idle \in All /\ t # Idle /\ Prio \in [All -> Nat]
      /\ \A u \in All : Prio[u] \in Priority
      /\ Prio[t] # Prio[Idle] /\ Prio[t] <= Prio[Idle]
  BY ThreadAssumption DEF All, Priority
<1>3. /\ cpu.cur = t /\ cpu.group = {Prio[Idle]}
      /\ cpu.stat = [u \in All |-> IF u = t THEN "running" ELSE IF u = Idle THEN "ready" ELSE "init"]
      /\ cpu.yield = [u \in All |-> FALSE]
      /\ cpu.queue = [p \in Priority |-> IF p = Prio[Idle] THEN <<Idle>> ELSE <<>>]
      /\ cpu = [cur |-> cpu.cur, stat |-> cpu.stat, yield |-> cpu.yield, queue |-> cpu.queue,
                group |-> cpu.group]
  BY <1>1 DEF Boot
<1>4. cpu \in Cpu
  <2>1. cpu.stat \in [All -> Stats]
    BY <1>3 DEF Stats
  <2>2. cpu.queue \in [Priority -> Seq(All)]
    BY <1>2, <1>3
  <2>3. cpu.group \subseteq Priority
    BY <1>2, <1>3
  <2> QED BY <1>2, <1>3, <2>1, <2>2, <2>3 DEF Cpu
<1>5. /\ Once(<<Idle>>) /\ \A u \in All : OnList(<<Idle>>, u) <=> u = Idle
      /\ Once(<<>>) /\ \A u \in All : ~OnList(<<>>, u)
  BY DEF Once, OnList
<1>6. Queues(cpu)
  BY <1>2, <1>3, <1>4, <1>5 DEF Queues
<1>7. Core(cpu)
  BY <1>2, <1>3, <1>5, <1>6 DEF Core, On
<1>8. Ties(cpu, Asleep, Dead, Gone)
  <2>1. Asleep = {} /\ \A u \in Thread : u \in All /\ u # Idle /\ Gone[u] = u
    BY ThreadAssumption DEF Init, Asleep, All, Gone
  <2>2. Dead = {}
    BY <2>1 DEF Init, Dead, OnList
  <2>3. \A u \in All : cpu.stat[u] = "ready" => On(cpu, u)
    BY <1>2, <1>3, <1>5 DEF On
  <2>4. \A u \in Thread : cpu.stat[u] # "close"
    BY <1>3, <2>1
  <2> QED BY <2>1, <2>2, <2>3, <2>4 DEF Ties
<1>9. TypeOK
  <2>1. slice \in [All -> Nat] /\ \A u \in All : slice[u] \in 1..Slice[u]
    BY ThreadAssumption DEF Init, All
  <2>2. wait \in [All -> 0..MaxSleep] /\ lock \in 0..MaxLock
    BY ThreadAssumption DEF Init
  <2>3. timers \subseteq Thread /\ listed \subseteq Thread /\ defunct \in Seq(Thread)
    BY DEF Init
  <2>4. pc \in [All -> Steps] /\ victim \in [All -> All] /\ starts \in [All -> All]
    BY DEF Init, Steps, Calm
  <2> QED BY <1>2, <1>4, <2>1, <2>2, <2>3, <2>4 DEF TypeOK, Cpu, Init
<1>10. Deleting
  BY <1>2 DEF Init, Deleting, All, StartSteps, DeleteSteps
<1>11. Going /\ Graves
  BY <1>2, <1>3 DEF Init, Going, Graves, Once, OnList
<1>12. MostUrgentRuns
  BY <1>2, <1>3 DEF MostUrgentRuns
<1>13. Owed(cpu, Asleep, timers, lock, Work)
  BY DEF Init, Owed, Work, All
<1> QED BY <1>7, <1>8, <1>9, <1>10, <1>11, <1>12, <1>13 DEF IInv

\* Between two steps the invariant gives what each of them starts from.
LEMMA Facts ==
  ASSUME IInv
  PROVE  /\ cpu \in Cpu /\ cpu.cur \in All /\ Queues(cpu) /\ Core(cpu)
         /\ lock \in Nat /\ Asleep \in SUBSET Thread
         /\ victim \in [All -> All] /\ starts \in [All -> All] /\ pc \in [All -> Steps]
         /\ Gone \in [All -> All] /\ Work.meant \in [All -> All]
         /\ Work.fresh \in SUBSET Thread /\ Work.marked \in SUBSET Thread
         /\ lock # 0 => cpu.stat[cpu.cur] = "running"
         /\ pc[cpu.cur] # "switch" => cpu.stat[cpu.cur] = "running"
         /\ \A t \in All : cpu.stat[t] # "ready" => ~On(cpu, t)
         /\ \A t \in All : Victim(t, Gone) => Doomed(t)
<1>1. cpu \in Cpu /\ cpu.cur \in All /\ Queues(cpu) /\ Core(cpu)
  BY DEF IInv, TypeOK, Core, Queues, Cpu
<1>2. /\ lock \in Nat /\ Asleep \in SUBSET Thread
      /\ victim \in [All -> All] /\ starts \in [All -> All] /\ pc \in [All -> Steps]
  BY ThreadAssumption DEF IInv, TypeOK, Asleep
<1>3. /\ lock # 0 => cpu.stat[cpu.cur] = "running"
      /\ pc[cpu.cur] # "switch" => cpu.stat[cpu.cur] = "running"
  BY DEF IInv, Going
<1>4. \A t \in All : cpu.stat[t] # "ready" => ~On(cpu, t)
  BY <1>1 DEF Queues, On, Priority
<1>5. Gone \in [All -> All] /\ Work.meant \in [All -> All]
  BY <1>2 DEF Gone, Work
<1>6. Work.fresh \in SUBSET Thread /\ Work.marked \in SUBSET Thread
  BY DEF IInv, Deleting, StartSteps, Work, All
<1>7. \A t \in All : Victim(t, Gone) => Doomed(t)
  BY DEF Doomed, Victim, Gone, All
<1> QED BY <1>1, <1>2, <1>3, <1>4, <1>5, <1>6, <1>7

\* After a call of rt_schedule.
LEMMA AfterSchedule ==
  ASSUME NEW c, Core(c), Ties(c, Asleep', Dead', Gone'),
         Owed(c, Asleep', timers', lock, Work'),
         Asleep' \in SUBSET Thread, Gone' \in [All -> All],
         Work'.fresh \in SUBSET Thread, Work'.marked \in SUBSET Thread,
         lock \in Nat, lock' = lock, cpu' = Schedule(c),
         lock # 0 => c.stat[c.cur] = "running"
  PROVE  /\ cpu' \in Cpu /\ Core(cpu)' /\ Ties(cpu, Asleep, Dead, Gone)'
         /\ Owed(cpu, Asleep, timers, lock, Work)'
         /\ Going' /\ MostUrgentRuns'
<1> DEFINE A == Asleep'
           D == Dead'
           v == Gone'
<1>1. /\ Core(Schedule(c)) /\ Ties(Schedule(c), A, D, v)
      /\ lock = 0 => Urgent(Schedule(c))
      /\ lock # 0 => Schedule(c) = c
  <2> HIDE DEF A, D, v
  <2> QED BY ScheduleTies DEF A, D, v
<1>2. Core(cpu') /\ Ties(cpu', A, D, v) /\ cpu' \in Cpu
  BY <1>1 DEF Core, Queues
<1>3. lock = 0 => Urgent(cpu')
  BY <1>1
<1>4. Going'
  BY <1>1, <1>3 DEF Going, Urgent
<1>5. MostUrgentRuns'
  BY <1>3 DEF MostUrgentRuns, Urgent
<1>6. Owed(cpu, Asleep, timers, lock, Work)'
  <2>1. Owed(cpu', Asleep', timers', lock, Work')
    BY ScheduleOwed
  <2> QED BY <2>1 DEF Owed, Keeps, On
<1> QED BY <1>2, <1>4, <1>5, <1>6 DEF Core, Queues, Ties, On

\* The variables that no step but those of deletion and death change.
LEMMA SameGraves ==
  ASSUME IInv, UNCHANGED grave
  PROVE  Dead' = Dead /\ Graves' /\ UNCHANGED calls
BY DEF IInv, grave, Dead, Graves

\* Steps after which a thread is still as far with the threads it deletes or
\* starts.
Stages == {Calm, {"check", "unlink", "insert"}, {"look", "remove"}, {"detach", "bury"}}

LEMMA PcMoves ==
  ASSUME IInv, UNCHANGED calls, NEW t \in Thread, t # Idle,
         NEW x, NEW K \in Stages, pc[t] \in K, x \in K, pc' = [pc EXCEPT ![t] = x]
  PROVE  Deleting' /\ pc' \in [All -> Steps] /\ Gone' = Gone /\ Work' = Work
<1>1. /\ t \in All /\ pc \in [All -> Steps] /\ victim' = victim /\ starts' = starts
      /\ \A d \in Thread : d \in All
  BY DEF IInv, TypeOK, All, calls
<1>2. /\ pc' \in [All -> Steps] /\ pc'[t] = x /\ \A d \in All : d # t => pc'[d] = pc[d]
      /\ x \in Steps
  BY <1>1 DEF Stages, Steps
<1>3. \A d \in All :
        /\ pc'[d] \in DeleteSteps <=> pc[d] \in DeleteSteps
        /\ pc'[d] \in StartSteps <=> pc[d] \in StartSteps
        /\ pc'[d] \in Calm <=> pc[d] \in Calm
        /\ pc'[d] \in {"look", "remove"} <=> pc[d] \in {"look", "remove"}
        /\ pc'[d] \in {"detach", "bury"} <=> pc[d] \in {"detach", "bury"}
        /\ pc'[d] \in {"check", "unlink", "insert"} <=> pc[d] \in {"check", "unlink", "insert"}
        /\ pc'[d] = "mark" <=> pc[d] = "mark"
  BY <1>2 DEF Stages, DeleteSteps, StartSteps, Calm
<1>4. Gone' = Gone
  BY <1>1, <1>3 DEF Gone
<1>5. Work' = Work
  <2>1. Work'.meant = Work.meant
    BY <1>1, <1>3 DEF Work
  <2>2. Work'.fresh = Work.fresh /\ Work'.marked = Work.marked
    BY <1>1, <1>3 DEF Work
  <2> QED BY <2>1, <2>2 DEF Work
<1>6. pc'[Idle] = "run"
  BY <1>2 DEF IInv, Deleting, All
<1>7. Deleting'
  BY <1>1, <1>3, <1>6 DEF IInv, Deleting
<1> QED BY <1>2, <1>4, <1>5, <1>7

LEMMA SameCalls ==
  ASSUME IInv, UNCHANGED <<pc, calls>>
  PROVE  Deleting' /\ pc' \in [All -> Steps] /\ Gone' = Gone /\ Work' = Work
<1>1. pc' = pc /\ victim' = victim /\ starts' = starts
  BY DEF calls
<1>2. Deleting' /\ pc' \in [All -> Steps]
  BY <1>1 DEF IInv, TypeOK, Deleting
<1>3. Gone' = Gone
  BY <1>1 DEF Gone
<1>4. Work' = Work
  BY <1>1 DEF Work
<1> QED BY <1>2, <1>3, <1>4

\* rt_schedule_insert_thread of a thread that waits for it.
LEMMA Inserted ==
  ASSUME IInv, NEW u \in Thread, cpu.stat[u] = "suspend", ~Victim(u, Gone)
  PROVE  /\ Core(Insert(cpu, u)) /\ Ties(Insert(cpu, u), Asleep \ {u}, Dead, Gone)
         /\ Insert(cpu, u).cur = cpu.cur
         /\ Insert(cpu, u).stat[cpu.cur] = IF u = cpu.cur THEN "running" ELSE cpu.stat[cpu.cur]
<1>1. Asleep \in SUBSET Thread /\ Gone \in [All -> All] /\ Core(cpu)
  BY Facts
<1>2. Ties(cpu, Asleep, Dead, Gone)
  BY DEF IInv
<1> QED BY <1>1, <1>2, InsertTies

\* rt_thread_create.
LEMMA CreateStep ==
  ASSUME IInv, NEW t \in Thread, NEW u \in Thread, Create(t, u)
  PROVE  IInv'
<1>1. cpu \in Cpu /\ Core(cpu) /\ cpu.cur \in All /\ ~On(cpu, u) /\ u # cpu.cur
  <2>1. u \in All
    BY DEF All
  <2>2. cpu.stat[cpu.cur] = "running" /\ cpu.stat[u] = "none"
    BY Facts DEF Create, Runs
  <2> QED BY <2>1, <2>2, Facts
<1>2. u \in All /\ \A w \in Thread : w \in All
  BY DEF All
<1>3. /\ cpu'.cur = cpu.cur /\ cpu'.queue = cpu.queue /\ cpu'.group = cpu.group
      /\ cpu'.stat = [cpu.stat EXCEPT ![u] = "init"]
      /\ cpu'.yield = [cpu.yield EXCEPT ![u] = FALSE]
      /\ cpu' = [cur |-> cpu'.cur, stat |-> cpu'.stat, yield |-> cpu'.yield,
                 queue |-> cpu'.queue, group |-> cpu'.group]
  BY <1>1 DEF Create, Cpu
<1>4. cpu' \in Cpu
  <2>1. cpu'.stat \in [All -> Stats] /\ cpu'.yield \in [All -> BOOLEAN]
    BY <1>1, <1>2, <1>3 DEF Cpu, Stats
  <2> QED BY <1>1, <1>3, <2>1 DEF Cpu
<1>5. /\ Core(cpu') /\ cpu'.stat[u] = "init"
      /\ \A w \in All : w # u => cpu'.stat[w] = cpu.stat[w]
      /\ \A w \in All : On(cpu', w) <=> On(cpu, w)
  <2>1. cpu'.stat[u] = "init" /\ \A w \in All : w # u => cpu'.stat[w] = cpu.stat[w]
    BY <1>1, <1>2, <1>3 DEF Cpu
  <2> QED BY <1>1, <1>3, <1>4, <2>1, Restated
<1>6. Ties(cpu', Asleep, Dead, Gone)
  <2>1. Ties(cpu, Asleep, Dead, Gone) /\ cpu.stat[u] = "none" /\ Asleep \subseteq Thread
    BY Facts DEF IInv, Create
  <2> QED BY <1>2, <1>3, <1>5, <2>1 DEF Ties
<1>7. /\ Asleep' = Asleep /\ timers' = timers /\ lock' = lock /\ Dead' = Dead /\ Graves'
      /\ Deleting' /\ Gone' = Gone /\ Work' = Work
  BY SameGraves, SameCalls DEF Create, Asleep, grave
<1>8. Core(cpu)' /\ Ties(cpu, Asleep, Dead, Gone)'
  BY <1>5, <1>6, <1>7 DEF Core, Queues, Ties, On
<1>11. Owed(cpu, Asleep, timers, lock, Work)'
  <2>1. Owed(cpu, Asleep, timers, lock, Work) /\ cpu.stat[u] = "none"
    BY DEF IInv, Create
  <2>2. Work.fresh \in SUBSET Thread /\ Work.marked \in SUBSET Thread
    BY Facts
  <2>3. \A d \in All : cpu.stat[d] \notin {"none", "close"} => cpu'.stat[d] = cpu.stat[d]
    BY <1>5, <2>1
  <2>4. Owed(cpu', Asleep, timers, lock, Work)
    BY <1>3, <1>5, <2>1, <2>2, <2>3, SameOwed
  <2> QED BY <1>7, <2>4 DEF Owed, Keeps, On
<1>9. Going' /\ MostUrgentRuns'
  BY <1>1, <1>2, <1>3, <1>5 DEF IInv, Going, MostUrgentRuns, Create
<1>10. TypeOK'
  <2>1. slice' \in [All -> Nat] /\ \A w \in All : slice'[w] \in 1..Slice[w]
    <3>1. Slice[u] \in Nat \ {0} /\ slice \in [All -> Nat] /\ \A w \in All : slice[w] \in 1..Slice[w]
      BY <1>2, ThreadAssumption DEF IInv, TypeOK, All
    <3>2. slice' = [slice EXCEPT ![u] = Slice[u]]
      BY DEF Create
    <3> QED BY <1>2, <3>1, <3>2
  <2> QED BY <1>4, <2>1 DEF IInv, TypeOK, Create, Cpu, grave, calls
<1> QED BY <1>7, <1>8, <1>9, <1>10, <1>11 DEF IInv

\* rt_thread_startup.
LEMMA StartupStep ==
  ASSUME IInv, Races = {}, NEW t \in Thread, NEW u \in Thread, Startup(t, u)
  PROVE  IInv'
<1>1. /\ t \in All /\ u \in All /\ t # Idle /\ cpu.cur = t /\ pc[t] = "run"
      /\ cpu.stat[t] = "running" /\ cpu.stat[u] = "init" /\ ~Doomed(u) /\ ~Begun(u) /\ u # t
      /\ cpu' = cpu /\ UNCHANGED <<lock, clock, victim, defunct, reaping>>
  BY Facts, ThreadAssumption DEF Startup, Runs, All
<1>2. /\ starts' \in [All -> All] /\ starts'[t] = u /\ pc' \in [All -> Steps] /\ pc'[t] = "mark"
      /\ \A d \in All : d # t => starts'[d] = starts[d] /\ pc'[d] = pc[d]
  BY <1>1, Facts DEF Startup, Owing, Steps
<1>3. Asleep' = Asleep /\ Dead' = Dead /\ Graves' /\ victim' = victim /\ timers' = timers
  BY <1>1 DEF Asleep, Dead, Graves, IInv, clock
<1>4. /\ Gone' = Gone /\ Work'.meant = Work.meant
      /\ Work'.fresh = Work.fresh \cup {u} /\ Work'.marked = Work.marked
  <2>1. Gone' = Gone /\ Work'.meant = Work.meant
    BY <1>1, <1>2, <1>3 DEF Gone, Work
  <2>2. Work'.fresh = Work.fresh \cup {u}
    BY <1>1, <1>2 DEF Work, All
  <2>3. Work'.marked = Work.marked
    BY <1>1, <1>2 DEF Work, All
  <2> QED BY <2>1, <2>2, <2>3
<1>5. Core(cpu)' /\ Ties(cpu, Asleep, Dead, Gone)'
  BY <1>1, <1>3, <1>4 DEF IInv, Core, Queues, Ties, On
<1>6. Owed(cpu, Asleep, timers, lock, Work)'
  BY <1>1, <1>3, <1>4 DEF IInv, Owed, Keeps, On
<1>7. Deleting'
  <2>1. \A d \in Thread : d \in All /\ (d # u => victim[d] # u /\ starts[d] # u)
    BY <1>1 DEF Doomed, Begun, All
  <2>2. victim[u] = u \/ victim[u] # u
    OBVIOUS
  <2>3. \A d \in All : /\ pc'[d] \in DeleteSteps <=> victim'[d] # d
                       /\ pc'[d] \in StartSteps <=> starts'[d] # d
    BY <1>1, <1>2, <1>3 DEF IInv, Deleting, DeleteSteps, StartSteps
  <2>4. victim'[Idle] = Idle /\ starts'[Idle] = Idle /\ pc'[Idle] = "run"
    BY <1>1, <1>2, <1>3 DEF IInv, Deleting, All
  <2>5. \A d, e \in Thread : d # e /\ victim'[d] = victim'[e] => victim'[d] \in {d, e}
    BY <1>3 DEF IInv, Deleting
  <2>6. \A d, e \in Thread : d # e /\ starts'[d] = starts'[e] => starts'[d] \in {d, e}
    BY <1>2, <2>1 DEF IInv, Deleting
  <2>7. \A d \in Thread : victim'[d] # d => victim'[d] \in Thread /\ pc'[victim'[d]] \in Calm
    <3>1. \A d \in Thread : victim[d] # d => victim[d] # t
      <4>1. Ties(cpu, Asleep, Dead, Gone) /\ Owed(cpu, Asleep, timers, lock, Work)
        BY DEF IInv
      <4>2. \A d \in Thread : victim[d] # d => Gone[d] = victim[d] \/ Work.meant[d] = victim[d]
        BY <2>1 DEF IInv, Deleting, DeleteSteps, Gone, Work
      <4> QED BY <1>1, <4>1, <4>2 DEF Ties, Owed
    <3> QED BY <1>2, <1>3, <2>1, <3>1 DEF IInv, Deleting
  <2>8. \A d \in Thread : starts'[d] # d => starts'[d] \in Thread
    BY <1>2, <2>1 DEF IInv, Deleting
  <2>9. \A d, e \in Thread : victim'[d] # d /\ starts'[e] # e => victim'[d] # starts'[e]
    BY <1>2, <1>3, <2>1 DEF IInv, Deleting
  <2> QED BY <2>3, <2>4, <2>5, <2>6, <2>7, <2>8, <2>9 DEF Deleting
<1>8. Going' /\ MostUrgentRuns'
  BY <1>1, <1>2 DEF IInv, Going, MostUrgentRuns
<1>9. TypeOK'
  BY <1>1, <1>2, <1>3 DEF IInv, TypeOK, clock
<1> QED BY <1>3, <1>5, <1>6, <1>7, <1>8, <1>9 DEF IInv

\* A thread that is being started is where its starter left it.
LEMMA StartFacts ==
  ASSUME IInv, NEW t \in Thread, pc[t] \in StartSteps, cpu.cur = t
  PROVE  /\ t \in All /\ t # Idle /\ cpu.stat[t] = "running"
         /\ starts[t] \in Thread /\ starts[t] \in All /\ starts[t] # t
         /\ cpu.stat[starts[t]] = IF pc[t] = "mark" THEN "init" ELSE "suspend"
         /\ starts[t] \notin Asleep /\ starts[t] \notin Dead /\ ~On(cpu, starts[t])
         /\ \A d \in Thread : /\ victim[d] # starts[t] \/ victim[d] = d
                              /\ d # t => starts[d] # starts[t] \/ starts[d] = d
<1>1. t \in All /\ t # Idle /\ cpu.stat[t] = "running"
  BY Facts, ThreadAssumption DEF All, StartSteps
<1>2. starts[t] # t /\ starts[t] \in Thread /\ starts[t] \in All
  BY <1>1 DEF IInv, Deleting, All
<1>3. /\ cpu.stat[starts[t]] = IF pc[t] = "mark" THEN "init" ELSE "suspend"
      /\ starts[t] \notin Asleep
  <2>1. Owed(cpu, Asleep, timers, lock, Work) /\ Ties(cpu, Asleep, Dead, Gone)
    BY DEF IInv
  <2>2. CASE pc[t] = "mark"
    <3>1. starts[t] \in Work.fresh
      BY <2>2 DEF Work
    <3> QED BY <2>1, <2>2, <3>1 DEF Owed, Ties
  <2>3. CASE pc[t] # "mark"
    <3>1. starts[t] \in Work.marked
      BY <2>3 DEF Work, StartSteps
    <3> QED BY <2>1, <2>3, <3>1 DEF Owed
  <2> QED BY <2>2, <2>3
<1>4. starts[t] \notin Dead /\ ~On(cpu, starts[t])
  <2>1. cpu.stat[starts[t]] # "close" /\ cpu.stat[starts[t]] # "ready"
    BY <1>3
  <2> QED BY <1>2, <2>1, Facts DEF IInv, Ties
<1>5. ASSUME NEW d \in Thread
      PROVE  /\ victim[d] # starts[t] \/ victim[d] = d
             /\ d # t => starts[d] # starts[t] \/ starts[d] = d
  BY <1>2 DEF IInv, Deleting
<1> QED BY <1>1, <1>2, <1>3, <1>4, <1>5

\* Only how far the start is changes: the thread is on no list, and it is
\* still marked suspended.
LEMMA StartOnStep ==
  ASSUME IInv, NEW t \in Thread, StartCheck(t) \/ StartUnlink(t)
  PROVE  IInv'
<1> DEFINE u == starts[t]
<1>1. /\ pc[t] \in {"check", "unlink"} /\ cpu.cur = t /\ t \in All /\ t # Idle
      /\ cpu.stat[t] = "running" /\ u \in Thread /\ u \in All /\ cpu.stat[u] = "suspend"
      /\ u \notin Asleep /\ u \notin Dead /\ ~On(cpu, u)
  <2>1. pc[t] \in {"check", "unlink"} /\ cpu.cur = t
    BY DEF StartCheck, StartUnlink, Goes
  <2>2. pc[t] \in StartSteps
    BY <2>1 DEF StartSteps
  <2> QED BY <2>1, <2>2, StartFacts
<1>2. /\ \E x \in {"unlink", "insert"} : pc' = [pc EXCEPT ![t] = x]
      /\ cpu' = cpu /\ UNCHANGED <<lock, clock, grave>>
  <2>1. CASE StartCheck(t)
    BY <1>1, <2>1 DEF StartCheck, Owing, grave, calls
  <2>2. CASE StartUnlink(t)
    <3>1. Without(defunct, u) = defunct
      BY <1>1 DEF Dead, Without
    <3>2. cpu' = cpu
      <4>1. Without(cpu.queue[Prio[u]], u) = cpu.queue[Prio[u]]
        BY <1>1 DEF On, Without
      <4>2. cpu' = [cpu EXCEPT !.queue[Prio[u]] = cpu.queue[Prio[u]]]
        BY <2>2, <4>1 DEF StartUnlink
      <4> HIDE DEF u
      <4>3. cpu \in Cpu
        BY Facts
      <4> QED BY <4>2, <4>3 DEF Cpu
    <3>3. timers' = timers /\ listed' = listed
      BY <1>1, <2>2 DEF StartUnlink, TimerStops, Asleep
    <3> QED BY <2>2, <3>1, <3>2, <3>3 DEF StartUnlink, Owing, clock, grave
  <2> QED BY <2>1, <2>2
<1> HIDE DEF u
<1>3. PICK x \in {"unlink", "insert"} : pc' = [pc EXCEPT ![t] = x]
  BY <1>2
<1>4. Deleting' /\ pc' \in [All -> Steps] /\ Gone' = Gone /\ Work' = Work
  <2>1. /\ {"check", "unlink", "insert"} \in Stages /\ pc[t] \in {"check", "unlink", "insert"}
        /\ x \in {"check", "unlink", "insert"}
    BY <1>1 DEF Stages
  <2> QED BY <1>1, <1>2, <1>3, <2>1, PcMoves DEF grave
<1>5. Asleep' = Asleep /\ timers' = timers /\ lock' = lock /\ Dead' = Dead /\ Graves'
  BY <1>2, SameGraves DEF Asleep, clock
<1>6. /\ Core(cpu)' /\ Ties(cpu, Asleep, Dead, Gone)'
      /\ Owed(cpu, Asleep, timers, lock, Work)'
  BY <1>2, <1>4, <1>5 DEF IInv, Core, Queues, Ties, Owed, Keeps, On
<1>7. pc'[t] = x
  BY <1>1, <1>3, Facts
<1>8. Going' /\ MostUrgentRuns'
  BY <1>1, <1>2, <1>7 DEF IInv, Going, MostUrgentRuns
<1>9. TypeOK'
  BY <1>2, <1>4 DEF IInv, TypeOK, clock, grave, calls
<1> QED BY <1>4, <1>5, <1>6, <1>8, <1>9 DEF IInv

\* A thread that is started is marked suspended.
LEMMA StartMarkStep ==
  ASSUME IInv, NEW t \in Thread, StartMark(t)
  PROVE  IInv'
<1> DEFINE u == starts[t]
<1>1. /\ pc[t] = "mark" /\ cpu.cur = t /\ t \in All /\ t # Idle
      /\ cpu.stat[t] = "running" /\ u \in Thread /\ u \in All /\ u # t /\ cpu.stat[u] = "init"
      /\ u \notin Asleep /\ u \notin Dead /\ ~On(cpu, u)
      /\ \A d \in Thread : /\ victim[d] # u \/ victim[d] = d
                           /\ d # t => starts[d] # u \/ starts[d] = d
  <2>1. pc[t] = "mark" /\ pc[t] \in StartSteps /\ cpu.cur = t
    BY DEF StartMark, Goes, StartSteps
  <2> QED BY <2>1, StartFacts
<1>2. /\ cpu' = [cpu EXCEPT !.stat[u] = "suspend"] /\ pc' = [pc EXCEPT ![t] = "check"]
      /\ UNCHANGED <<lock, clock, grave>>
  BY DEF StartMark, Owing
<1> HIDE DEF u
<1>3. /\ cpu'.cur = cpu.cur /\ cpu'.queue = cpu.queue /\ cpu'.group = cpu.group
      /\ cpu'.stat = [cpu.stat EXCEPT ![u] = "suspend"] /\ cpu'.yield = cpu.yield
  BY <1>2, Facts DEF Cpu
<1>4. cpu' \in Cpu
  <2>1. cpu'.stat \in [All -> Stats]
    <3>1. cpu.stat \in [All -> Stats]
      BY Facts DEF Cpu
    <3> QED BY <1>3, <3>1 DEF Stats
  <2> QED BY <1>2, <1>3, <2>1, Facts DEF Cpu
<1>5. /\ cpu'.stat[u] = "suspend" /\ \A d \in All : d # u => cpu'.stat[d] = cpu.stat[d]
      /\ Core(cpu') /\ \A d \in All : On(cpu', d) <=> On(cpu, d)
  <2>1. cpu'.stat[u] = "suspend" /\ \A d \in All : d # u => cpu'.stat[d] = cpu.stat[d]
    BY <1>1, <1>3, Facts DEF Cpu
  <2>2. Core(cpu)
    BY Facts
  <2>3. Core(cpu') /\ \A d \in All : On(cpu', d) <=> On(cpu, d)
    BY <1>1, <1>3, <1>4, <2>1, <2>2, Restated
  <2> QED BY <2>1, <2>3
<1>6. /\ Asleep' = Asleep /\ timers' = timers /\ lock' = lock /\ Dead' = Dead /\ Graves'
      /\ victim' = victim /\ starts' = starts
  BY <1>2, SameGraves DEF Asleep, clock, calls
<1>7. /\ pc' \in [All -> Steps] /\ pc'[t] = "check"
      /\ \A d \in All : d # t => pc'[d] = pc[d]
  BY <1>1, <1>2, Facts DEF Steps
<1>8. /\ Gone' = Gone /\ Work'.meant = Work.meant
      /\ Work'.fresh \subseteq Work.fresh \ {u} /\ Work'.marked \subseteq Work.marked \cup {u}
  <2>1. Gone' = Gone /\ Work'.meant = Work.meant
    BY <1>1, <1>6, <1>7 DEF Gone, Work
  <2>2. ASSUME NEW d \in Thread, pc'[d] = "mark" PROVE starts'[d] \in Work.fresh \ {u}
    <3>1. d # t /\ d \in All /\ pc[d] = "mark" /\ starts'[d] = starts[d]
      BY <1>6, <1>7, <2>2 DEF All
    <3>2. starts[d] # d
      BY <3>1 DEF IInv, Deleting, StartSteps
    <3> QED BY <1>1, <3>1, <3>2 DEF Work
  <2>3. ASSUME NEW d \in Thread, pc'[d] \in {"check", "unlink", "insert"}
        PROVE  starts'[d] \in Work.marked \cup {u}
    BY <1>6, <1>7, <2>3 DEF Work, All, u
  <2>4. /\ Work'.fresh = {starts'[d] : d \in {e \in Thread : pc'[e] = "mark"}}
        /\ Work'.marked = {starts'[d] : d \in {e \in Thread : pc'[e] \in {"check", "unlink", "insert"}}}
    BY DEF Work
  <2> QED BY <2>1, <2>2, <2>3, <2>4
<1>9. Ties(cpu', Asleep, Dead, Gone)
  <2>1. Ties(cpu, Asleep, Dead, Gone) /\ Asleep \subseteq Thread
    BY Facts DEF IInv
  <2>2. \A d \in Thread : Gone[d] # d => Gone[d] # u
    BY <1>1 DEF Gone, All
  <2>3. \A d \in Thread : d \in All
    BY DEF All
  <2> QED BY <1>1, <1>3, <1>5, <2>1, <2>2, <2>3 DEF Ties
<1>10. Owed(cpu', Asleep, timers, lock, Work')
  <2>1. Owed(cpu, Asleep, timers, lock, Work)
    BY DEF IInv
  <2>2. Work.fresh \in SUBSET Thread /\ Work.marked \in SUBSET Thread
    BY Facts
  <2>3. ASSUME NEW d \in Thread, Work.meant[d] # d
        PROVE  /\ cpu'.stat[Work.meant[d]] = cpu.stat[Work.meant[d]]
               /\ Keeps(cpu', lock, d, Work.meant[d])
    <3>1. Work.meant[d] # u /\ Work.meant[d] \in All /\ Keeps(cpu, lock, d, Work.meant[d])
      BY <1>1, <2>1, <2>3 DEF Owed, Work, All
    <3>2. cpu.stat[d] = "running" => cpu'.stat[d] = "running"
      BY <1>1, <1>5 DEF All
    <3> QED BY <1>3, <1>5, <3>1, <3>2 DEF Keeps, All
  <2>4. \A d \in Work'.fresh : cpu'.stat[d] = "init"
    BY <1>5, <1>8, <2>1, <2>2 DEF Owed, All
  <2>5. \A d \in Work'.marked : cpu'.stat[d] = "suspend" /\ d \notin Asleep
    BY <1>1, <1>5, <1>8, <2>1, <2>2 DEF Owed, All
  <2> QED BY <1>3, <1>8, <2>1, <2>3, <2>4, <2>5 DEF Owed
<1>11. Core(cpu)' /\ Ties(cpu, Asleep, Dead, Gone)' /\ Owed(cpu, Asleep, timers, lock, Work)'
  BY <1>5, <1>6, <1>8, <1>9, <1>10 DEF Core, Queues, Ties, Owed, Keeps, On
<1>12. Deleting'
  <2>1. \A d \in All : /\ pc'[d] \in DeleteSteps <=> pc[d] \in DeleteSteps
                       /\ pc'[d] \in StartSteps <=> pc[d] \in StartSteps
                       /\ pc'[d] \in Calm <=> pc[d] \in Calm
    BY <1>1, <1>7 DEF DeleteSteps, StartSteps, Calm
  <2>2. pc'[Idle] = "run"
    BY <1>1, <1>7 DEF IInv, Deleting, All
  <2>3. \A d \in Thread : d \in All
    BY DEF All
  <2> QED BY <1>6, <2>1, <2>2, <2>3 DEF IInv, Deleting
<1>13. Going' /\ MostUrgentRuns'
  BY <1>1, <1>3, <1>5, <1>6, <1>7 DEF IInv, Going, MostUrgentRuns
<1>14. TypeOK'
  BY <1>2, <1>4, <1>7 DEF IInv, TypeOK, Cpu, clock, grave, calls
<1> QED BY <1>6, <1>11, <1>12, <1>13, <1>14 DEF IInv

\* A thread that is started comes into the ready queue.
LEMMA StartInsertStep ==
  ASSUME IInv, NEW t \in Thread, StartInsert(t)
  PROVE  IInv'
<1> DEFINE u == starts[t]
<1>1. /\ pc[t] = "insert" /\ cpu.cur = t /\ t \in All /\ t # Idle
      /\ cpu.stat[t] = "running" /\ u \in Thread /\ u \in All /\ u # t /\ cpu.stat[u] = "suspend"
      /\ u \notin Asleep
      /\ \A d \in Thread : /\ victim[d] # u \/ victim[d] = d
                           /\ d # t => starts[d] # u \/ starts[d] = d
  <2>1. pc[t] = "insert" /\ pc[t] \in StartSteps /\ cpu.cur = t
    BY DEF StartInsert, Goes, StartSteps
  <2> QED BY <2>1, StartFacts
<1>2. /\ cpu' = Insert(cpu, u) /\ starts' = [starts EXCEPT ![t] = t]
      /\ pc' = [pc EXCEPT ![t] = "switch"] /\ UNCHANGED <<lock, clock, victim, defunct, reaping>>
  BY DEF StartInsert, Owing
<1> HIDE DEF u
<1>3. /\ pc' \in [All -> Steps] /\ pc'[t] = "switch" /\ starts' \in [All -> All] /\ starts'[t] = t
      /\ \A d \in All : d # t => pc'[d] = pc[d] /\ starts'[d] = starts[d]
  BY <1>1, <1>2, Facts DEF Steps, Calm
<1>4. /\ Asleep' = Asleep /\ timers' = timers /\ lock' = lock /\ Dead' = Dead /\ Graves'
      /\ victim' = victim
  BY <1>2 DEF Asleep, Dead, Graves, IInv, clock
<1>5. /\ Gone' = Gone /\ Work'.meant = Work.meant
      /\ Work'.fresh \subseteq Work.fresh /\ Work'.marked \subseteq Work.marked \ {u}
  <2>1. Gone' = Gone /\ Work'.meant = Work.meant
    BY <1>1, <1>3, <1>4 DEF Gone, Work
  <2>2. ASSUME NEW d \in Thread, pc'[d] = "mark" PROVE starts'[d] \in Work.fresh
    BY <1>3, <2>2 DEF Work, All
  <2>3. ASSUME NEW d \in Thread, pc'[d] \in {"check", "unlink", "insert"}
        PROVE  starts'[d] \in Work.marked \ {u}
    <3>1. d # t /\ d \in All /\ pc[d] = pc'[d] /\ starts'[d] = starts[d]
      BY <1>3, <2>3 DEF All
    <3>2. starts[d] # d
      BY <2>3, <3>1 DEF IInv, Deleting, StartSteps
    <3> QED BY <1>1, <2>3, <3>1, <3>2 DEF Work
  <2>4. /\ Work'.fresh = {starts'[d] : d \in {e \in Thread : pc'[e] = "mark"}}
        /\ Work'.marked = {starts'[d] : d \in {e \in Thread : pc'[e] \in {"check", "unlink", "insert"}}}
    BY DEF Work
  <2> QED BY <2>1, <2>2, <2>3, <2>4
<1>6. /\ Core(cpu') /\ Ties(cpu', Asleep \ {u}, Dead, Gone)
      /\ cpu'.cur = t /\ cpu'.stat[t] = cpu.stat[t]
  <2>1. ~Victim(u, Gone)
    BY <1>1 DEF Victim, Gone, All
  <2> QED BY <1>1, <1>2, <2>1, Inserted
<1>7. Owed(cpu', Asleep \ {u}, timers \ {u}, lock, Work')
  <2>1. Owed(cpu, Asleep, timers, lock, Work') /\ u \notin Work'.marked
    BY <1>5 DEF IInv, Owed
  <2>2. Work'.fresh \in SUBSET Thread /\ Work'.marked \in SUBSET Thread /\ Core(cpu)
    BY <1>5, Facts
  <2> QED BY <1>1, <1>2, <2>1, <2>2, InsertOwed
<1>8. Core(cpu)' /\ Ties(cpu, Asleep, Dead, Gone)' /\ Owed(cpu, Asleep, timers, lock, Work)' /\ cpu' \in Cpu
  <2>1. Asleep \ {u} = Asleep' /\ timers \ {u} = timers'
    BY <1>1, <1>4 DEF Asleep
  <2> QED BY <1>4, <1>5, <1>6, <1>7, <2>1 DEF Core, Queues, Ties, Owed, Keeps, On
<1>9. Deleting'
  <2>1. \A d \in All : /\ pc'[d] \in DeleteSteps <=> pc[d] \in DeleteSteps
                       /\ pc'[d] \in StartSteps <=> starts'[d] # d
                       /\ pc[d] \in Calm => pc'[d] \in Calm
    BY <1>1, <1>3 DEF IInv, Deleting, DeleteSteps, StartSteps, Calm
  <2>2. pc'[Idle] = "run" /\ starts'[Idle] = Idle
    BY <1>1, <1>3 DEF IInv, Deleting, All
  <2>3. \A d \in Thread : d \in All /\ (starts'[d] # d => d # t /\ starts'[d] = starts[d])
    BY <1>3 DEF All
  <2>4. \A d, e \in Thread : d # e /\ starts'[d] = starts'[e] => starts'[d] \in {d, e}
    BY <1>3, <2>3 DEF IInv, Deleting
  <2> QED BY <1>4, <2>1, <2>2, <2>3, <2>4 DEF IInv, Deleting
<1>10. Going' /\ MostUrgentRuns'
  BY <1>1, <1>3, <1>6 DEF Going, MostUrgentRuns
<1>11. TypeOK'
  BY <1>2, <1>3, <1>8 DEF IInv, TypeOK, Cpu, clock
<1> QED BY <1>4, <1>8, <1>9, <1>10, <1>11 DEF IInv

\* The current thread goes to sleep, alone or on a list.
LEMMA SuspendStep ==
  ASSUME IInv, NEW t \in Thread, NEW n \in 0..MaxSleep,
         Suspend(t, n), Asleep' \subseteq Asleep \cup {t}, listed' \subseteq listed \cup {t}
  PROVE  IInv'
<1>1. /\ t \in All /\ t # Idle /\ cpu.cur = t /\ pc[t] = "run" /\ cpu.stat[t] = "running"
      /\ ~On(cpu, t) /\ cpu \in Cpu /\ Queues(cpu) /\ Core(cpu) /\ lock = 0
  <2>1. t \in All /\ t # Idle /\ cpu.cur = t /\ pc[t] = "run"
    BY ThreadAssumption DEF Suspend, Runs, All
  <2>2. cpu.stat[t] = "running"
    BY <2>1, Facts
  <2> QED BY <2>1, <2>2, Facts DEF Suspend
<1> DEFINE c == Remove(cpu, t)
<1>2. /\ Queues(c) /\ c.cur = t /\ c.yield = cpu.yield /\ c.stat = cpu.stat
      /\ \A u \in All : On(c, u) <=> On(cpu, u) /\ u # t
  BY <1>1, RemoveQueues
<1>3. cpu' = [c EXCEPT !.stat[t] = "suspend"]
  BY DEF Suspend
<1> HIDE DEF c
<1>4. Core(c) /\ ~On(c, t) /\ c \in Cpu
  <2>1. Idle \in All
    BY DEF All
  <2> QED BY <1>1, <1>2, <2>1 DEF Core, Queues
<1>5. /\ cpu'.cur = t /\ cpu'.queue = c.queue /\ cpu'.group = c.group
      /\ cpu'.stat = [c.stat EXCEPT ![t] = "suspend"] /\ cpu'.yield = c.yield
  BY <1>2, <1>3, <1>4 DEF Cpu
<1>6. cpu' \in Cpu
  <2>1. cpu'.stat \in [All -> Stats]
    BY <1>4, <1>5 DEF Cpu, Stats
  <2> QED BY <1>3, <1>4, <1>5, <2>1 DEF Cpu
<1>7. /\ Core(cpu') /\ cpu'.stat[t] = "suspend"
      /\ \A u \in All : u # t => cpu'.stat[u] = cpu.stat[u]
      /\ \A u \in All : On(cpu', u) <=> On(cpu, u) /\ u # t
  <2>1. cpu'.stat[t] = "suspend" /\ \A u \in All : u # t => cpu'.stat[u] = c.stat[u]
    BY <1>1, <1>4, <1>5 DEF Cpu
  <2>2. c.cur = cpu'.cur
    BY <1>2, <1>5
  <2>3. Core(cpu') /\ \A u \in All : On(cpu', u) <=> On(c, u)
    BY <1>4, <1>5, <1>6, <2>1, <2>2, Restated
  <2> QED BY <1>2, <2>1, <2>3
<1>8. /\ Dead' = Dead /\ Graves' /\ Deleting' /\ pc' \in [All -> Steps]
      /\ Gone' = Gone /\ Work' = Work
  <2>1. Calm \in Stages /\ pc[t] \in Calm /\ "switch" \in Calm
    BY <1>1 DEF Calm, Stages
  <2> QED BY <1>1, <2>1, SameGraves, PcMoves DEF Suspend, Owing, grave
<1>9. Ties(cpu', Asleep', Dead, Gone)
  <2>1. Ties(cpu, Asleep, Dead, Gone) /\ Asleep \subseteq Thread
    BY Facts DEF IInv
  <2>2. \A u \in All : cpu'.stat[u] = "ready" => On(cpu', u) \/ Victim(u, Gone)
    BY <1>7, <2>1 DEF Ties
  <2>3. \A u \in Asleep' : cpu'.stat[u] = "suspend"
    BY <1>7, <2>1 DEF Ties, All
  <2>4. \A u \in Thread : cpu'.stat[u] = "close" <=> u \in Dead
    BY <1>1, <1>7, <2>1 DEF Ties, All
  <2>5. ASSUME NEW e \in Thread, Gone[e] # e
        PROVE  /\ Gone[e] \in Thread \ {cpu'.cur} /\ Gone[e] \notin Asleep' /\ ~On(cpu', Gone[e])
               /\ cpu'.stat[Gone[e]] \in {"init", "ready", "suspend"}
    BY <1>1, <1>5, <1>7, <2>1, <2>5 DEF Ties, All
  <2> QED BY <2>2, <2>3, <2>4, <2>5 DEF Ties
<1>10. Core(cpu)' /\ Ties(cpu, Asleep, Dead, Gone)'
  BY <1>7, <1>8, <1>9 DEF Core, Queues, Ties, On
<1>11. Owed(cpu, Asleep, timers, lock, Work)'
  <2>1. Owed(cpu, Asleep, timers, lock, Work) /\ Work.meant[t] = t
    BY <1>1 DEF IInv, Work
  <2>2. Work.fresh \in SUBSET Thread /\ Work.marked \in SUBSET Thread
    BY Facts
  <2>3. timers' \subseteq timers \cup {t} /\ lock' = lock
    BY DEF Suspend
  <2>4. Owed(cpu', Asleep', timers', lock, Work)
    BY <1>1, <1>5, <1>7, <2>1, <2>2, <2>3, LeftOwed
  <2> QED BY <1>8, <2>3, <2>4 DEF Owed, Keeps, On
<1>12. pc'[t] = "switch"
  BY <1>1 DEF IInv, TypeOK, Owing, Suspend
<1>13. Going' /\ MostUrgentRuns'
  BY <1>1, <1>5, <1>7, <1>12 DEF Going, MostUrgentRuns, Suspend
<1>14. TypeOK'
  <2>1. wait' \in [All -> 0..MaxSleep] /\ timers' \subseteq Thread /\ listed' \subseteq Thread
    BY DEF IInv, TypeOK, Suspend, All
  <2> QED BY <1>6, <1>8, <2>1 DEF IInv, TypeOK, Suspend, Cpu, grave, calls
<1> QED BY <1>8, <1>10, <1>11, <1>13, <1>14 DEF IInv

LEMMA SleepStep ==
  ASSUME IInv, NEW t \in Thread, NEW n \in 0..MaxSleep, Sleep(t, n) \/ Wait(t, n)
  PROVE  IInv'
<1>1. Suspend(t, n) /\ listed' \subseteq listed \cup {t}
  BY DEF Sleep, Wait
<1>2. Asleep' \subseteq Asleep \cup {t}
  BY <1>1 DEF Asleep, Suspend
<1> QED BY <1>1, <1>2, SuspendStep

\* rt_schedule at the end of a call.
LEMMA SwitchStep ==
  ASSUME IInv, NEW t \in Thread, Switch(t)
  PROVE  IInv'
<1>1. t # Idle /\ pc[t] \in Calm /\ lock' = lock /\ timers' = timers /\ cpu' = Schedule(cpu)
  BY ThreadAssumption DEF Switch, clock, Calm
<1>2. Asleep' = Asleep /\ Dead' = Dead /\ Graves' /\ UNCHANGED calls
  BY SameGraves DEF Switch, Asleep, clock
<1>3. Deleting' /\ pc' \in [All -> Steps] /\ Gone' = Gone /\ Work' = Work
  <2>1. Calm \in Stages /\ "run" \in Calm
    BY DEF Calm, Stages
  <2> QED BY <1>1, <1>2, <2>1, PcMoves DEF Switch, Owing
<1>4. /\ cpu' \in Cpu /\ Core(cpu)' /\ Ties(cpu, Asleep, Dead, Gone)'
      /\ Owed(cpu, Asleep, timers, lock, Work)' /\ Going' /\ MostUrgentRuns'
  <2>1. Ties(cpu, Asleep', Dead', Gone') /\ Owed(cpu, Asleep', timers', lock, Work')
    BY <1>1, <1>2, <1>3 DEF IInv
  <2>2. /\ Asleep' \in SUBSET Thread /\ Gone' \in [All -> All]
        /\ Work'.fresh \in SUBSET Thread /\ Work'.marked \in SUBSET Thread
    BY <1>2, <1>3, Facts
  <2> QED BY <1>1, <2>1, <2>2, Facts, AfterSchedule
<1>5. TypeOK'
  BY <1>3, <1>4 DEF IInv, TypeOK, Switch, Cpu, clock, grave, calls
<1> QED BY <1>2, <1>3, <1>4, <1>5 DEF IInv

\* No thread that sleeps or waits is off its list in a deletion, or being started.
LEMMA AsleepIsSafe ==
  ASSUME IInv, NEW u \in Asleep
  PROVE  u \in Thread /\ cpu.stat[u] = "suspend" /\ ~Victim(u, Gone) /\ u \notin Work.marked
<1>1. u \in Thread /\ cpu.stat[u] = "suspend" /\ u \notin Work.marked
  BY Facts DEF IInv, Ties, Owed
<1>2. ~Victim(u, Gone)
  BY DEF IInv, Ties, Victim
<1> QED BY <1>1, <1>2

\* rt_thread_resume by the running thread.
LEMMA WakeByThreadStep ==
  ASSUME IInv, NEW t \in Thread, NEW u \in Thread, WakeByThread(t, u)
  PROVE  IInv'
<1>1. /\ t # Idle /\ cpu.cur = t /\ pc[t] = "run" /\ cpu.stat[t] = "running"
      /\ u \in Asleep /\ cpu' = Insert(cpu, u) /\ pc' = [pc EXCEPT ![t] = "switch"]
  BY Facts, ThreadAssumption DEF WakeByThread, Runs, Resume, Asleep, Owing
<1>2. cpu.stat[u] = "suspend" /\ ~Victim(u, Gone) /\ u \notin Work.marked /\ u # t
  BY <1>1, AsleepIsSafe
<1>3. /\ Core(cpu') /\ Ties(cpu', Asleep \ {u}, Dead, Gone)
      /\ cpu'.cur = t /\ cpu'.stat[t] = cpu.stat[t]
  BY <1>1, <1>2, Inserted
<1>4. /\ Dead' = Dead /\ Graves' /\ Deleting' /\ pc' \in [All -> Steps]
      /\ Gone' = Gone /\ Work' = Work
  <2>1. Calm \in Stages /\ pc[t] \in Calm /\ "switch" \in Calm
    BY <1>1 DEF Calm, Stages
  <2> QED BY <1>1, <2>1, SameGraves, PcMoves DEF WakeByThread, Resume, grave
<1>5. Asleep' = Asleep \ {u} /\ timers' = timers \ {u} /\ lock' = lock
  BY DEF Asleep, WakeByThread, Resume, TimerStops
<1>6. Core(cpu)' /\ Ties(cpu, Asleep, Dead, Gone)' /\ cpu' \in Cpu
  BY <1>3, <1>4, <1>5 DEF Core, Queues, Ties, On
<1>7. Owed(cpu, Asleep, timers, lock, Work)'
  <2>1. Owed(cpu', Asleep \ {u}, timers \ {u}, lock, Work)
    BY <1>1, <1>2, Facts, InsertOwed DEF IInv
  <2> QED BY <1>4, <1>5, <2>1 DEF Owed, Keeps, On
<1>8. pc'[t] = "switch"
  BY <1>1 DEF IInv, TypeOK, All
<1>9. Going' /\ MostUrgentRuns'
  BY <1>1, <1>3, <1>8 DEF Going, MostUrgentRuns
<1>10. TypeOK'
  <2>1. wait' \in [All -> 0..MaxSleep] /\ timers' \subseteq Thread /\ listed' \subseteq Thread
    <3>1. 0 \in 0..MaxSleep /\ wait' = [wait EXCEPT ![u] = 0]
      BY ThreadAssumption DEF WakeByThread, Resume
    <3>2. wait' \in [All -> 0..MaxSleep]
      BY <3>1 DEF IInv, TypeOK
    <3> QED BY <3>2 DEF IInv, TypeOK, WakeByThread, Resume, TimerStops
  <2> QED BY <1>4, <1>6, <2>1 DEF IInv, TypeOK, WakeByThread, Resume, Cpu, grave, calls
<1> QED BY <1>4, <1>6, <1>7, <1>9, <1>10 DEF IInv

\* A thread is inserted outside any thread's call, and rt_schedule follows.
LEMMA WakeAndSchedule ==
  ASSUME IInv, NEW u \in Asleep, cpu' = Schedule(Insert(cpu, u)),
         Asleep' = Asleep \ {u}, timers' = timers \ {u}, UNCHANGED <<lock, pc, grave>>
  PROVE  /\ cpu' \in Cpu /\ Core(cpu)' /\ Ties(cpu, Asleep, Dead, Gone)'
         /\ Owed(cpu, Asleep, timers, lock, Work)'
         /\ Going' /\ MostUrgentRuns' /\ Graves' /\ Deleting' /\ pc' \in [All -> Steps]
<1>1. u \in Thread /\ cpu.stat[u] = "suspend" /\ ~Victim(u, Gone) /\ u \notin Work.marked
  BY AsleepIsSafe
<1> DEFINE c == Insert(cpu, u)
<1>2. /\ Core(c) /\ Ties(c, Asleep \ {u}, Dead, Gone) /\ c.cur = cpu.cur
      /\ c.stat[c.cur] = IF u = cpu.cur THEN "running" ELSE cpu.stat[cpu.cur]
  BY <1>1, Inserted
<1>3. Owed(c, Asleep \ {u}, timers \ {u}, lock, Work)
  BY <1>1, Facts, InsertOwed DEF IInv
<1>4. cpu' = Schedule(c)
  OBVIOUS
<1> HIDE DEF c
<1>5. /\ Dead' = Dead /\ Graves' /\ Deleting' /\ pc' \in [All -> Steps]
      /\ Gone' = Gone /\ Work' = Work
  BY SameGraves, SameCalls
<1>6. Ties(c, Asleep', Dead', Gone') /\ Owed(c, Asleep', timers', lock, Work')
  BY <1>2, <1>3, <1>5
<1>7. /\ Asleep' \in SUBSET Thread /\ Gone' \in [All -> All] /\ lock \in Nat
      /\ Work'.fresh \in SUBSET Thread /\ Work'.marked \in SUBSET Thread
  BY <1>5, Facts
<1>8. lock # 0 => c.stat[c.cur] = "running"
  BY <1>2, Facts
<1>9. /\ cpu' \in Cpu /\ Core(cpu)' /\ Ties(cpu, Asleep, Dead, Gone)'
      /\ Owed(cpu, Asleep, timers, lock, Work)' /\ Going' /\ MostUrgentRuns'
  BY <1>2, <1>4, <1>6, <1>7, <1>8, AfterSchedule
<1> QED BY <1>5, <1>9

\* rt_thread_resume by an interrupt.
LEMMA WakeByInterruptStep ==
  ASSUME IInv, NEW u \in Thread, WakeByInterrupt(u)
  PROVE  IInv'
<1>1. u \in Asleep /\ Asleep' = Asleep \ {u} /\ timers' = timers \ {u} /\ UNCHANGED <<lock, pc, grave>>
  BY DEF Asleep, WakeByInterrupt, Resume, TimerStops
<1>2. /\ cpu' \in Cpu /\ Core(cpu)' /\ Ties(cpu, Asleep, Dead, Gone)'
      /\ Owed(cpu, Asleep, timers, lock, Work)'
      /\ Going' /\ MostUrgentRuns' /\ Graves' /\ Deleting' /\ pc' \in [All -> Steps]
  BY <1>1, WakeAndSchedule DEF WakeByInterrupt
<1>3. TypeOK'
  <2>1. wait' \in [All -> 0..MaxSleep] /\ timers' \subseteq Thread /\ listed' \subseteq Thread
    <3>1. 0 \in 0..MaxSleep /\ wait' = [wait EXCEPT ![u] = 0]
      BY ThreadAssumption DEF WakeByInterrupt, Resume
    <3>2. wait' \in [All -> 0..MaxSleep]
      BY <3>1 DEF IInv, TypeOK
    <3> QED BY <3>2 DEF IInv, TypeOK, WakeByInterrupt, Resume, TimerStops
  <2> QED BY <1>2, <2>1 DEF IInv, TypeOK, WakeByInterrupt, Resume, Cpu, grave, calls
<1> QED BY <1>2, <1>3 DEF IInv

\* rt_thread_timeout.
LEMMA TimeoutStep ==
  ASSUME IInv, NEW u \in Thread, Timeout(u)
  PROVE  IInv'
<1>1. u \in Asleep /\ Asleep' = Asleep \ {u} /\ timers' = timers \ {u} /\ UNCHANGED <<lock, pc, grave>>
  BY DEF Asleep, Timeout
<1>2. /\ cpu' \in Cpu /\ Core(cpu)' /\ Ties(cpu, Asleep, Dead, Gone)'
      /\ Owed(cpu, Asleep, timers, lock, Work)'
      /\ Going' /\ MostUrgentRuns' /\ Graves' /\ Deleting' /\ pc' \in [All -> Steps]
  BY <1>1, WakeAndSchedule DEF Timeout
<1>3. TypeOK'
  BY <1>2 DEF IInv, TypeOK, Timeout, Cpu, grave, calls
<1> QED BY <1>2, <1>3 DEF IInv

\* rt_thread_yield, rt_enter_critical and rt_exit_critical leave the queues alone.
LEMMA LockStep ==
  ASSUME IInv, NEW t \in Thread, Yield(t) \/ EnterCritical(t) \/ ExitCritical(t)
  PROVE  IInv'
<1>1. /\ t # Idle /\ t \in All /\ cpu.cur = t /\ pc[t] = "run" /\ cpu.stat[t] = "running"
      /\ cpu' = cpu /\ UNCHANGED clock /\ UNCHANGED grave
  BY Facts, ThreadAssumption DEF Yield, EnterCritical, ExitCritical, Runs, All
<1>2. Asleep' = Asleep /\ timers' = timers /\ Dead' = Dead /\ Graves' /\ UNCHANGED calls
  BY <1>1, SameGraves DEF Asleep, clock
<1>4. lock' \in 0..MaxLock
  BY ThreadAssumption DEF IInv, TypeOK, Yield, EnterCritical, ExitCritical
<1>5. /\ pc' = pc \/ pc' = [pc EXCEPT ![t] = "yield"] \/ pc' = [pc EXCEPT ![t] = "switch"]
      /\ lock' = 0 /\ lock # 0 => pc' = [pc EXCEPT ![t] = "switch"]
  BY DEF IInv, TypeOK, Yield, EnterCritical, ExitCritical, Left, Owing
<1>6. Deleting' /\ pc' \in [All -> Steps] /\ Gone' = Gone /\ Work' = Work
  <2>1. CASE pc' = pc
    BY <1>2, <2>1, SameCalls
  <2>2. CASE pc' = [pc EXCEPT ![t] = "yield"] \/ pc' = [pc EXCEPT ![t] = "switch"]
    <3>1. Calm \in Stages /\ pc[t] \in Calm /\ "switch" \in Calm /\ "yield" \in Calm
      BY <1>1 DEF Calm, Stages
    <3>2. PICK x \in Calm : pc' = [pc EXCEPT ![t] = x]
      BY <2>2, <3>1
    <3> QED BY <1>1, <1>2, <3>1, <3>2, PcMoves
  <2> QED BY <1>5, <2>1, <2>2
<1>3. Core(cpu)' /\ Ties(cpu, Asleep, Dead, Gone)' /\ Owed(cpu, Asleep, timers, lock, Work)'
  <2>1. Owed(cpu, Asleep, timers, lock', Work)
    <3>1. Owed(cpu, Asleep, timers, lock, Work) /\ Work.meant[t] = t
      BY <1>1 DEF IInv, Work
    <3> QED BY <1>1, <3>1 DEF Owed, Keeps
  <2>2. Owed(cpu, Asleep, timers, lock, Work)'
    BY <1>1, <1>2, <1>6, <2>1 DEF Owed, Keeps, On
  <2> QED BY <1>1, <1>2, <1>6, <2>2 DEF IInv, Core, Queues, Ties, On
<1>7. Going'
  BY <1>1 DEF Going
<1>8. MostUrgentRuns'
  <2>1. CASE pc' = pc
    BY <1>1, <1>5, <2>1 DEF IInv, TypeOK, MostUrgentRuns
  <2>2. CASE pc' = [pc EXCEPT ![t] = "yield"] \/ pc' = [pc EXCEPT ![t] = "switch"]
    BY <1>1, <2>2 DEF IInv, TypeOK, MostUrgentRuns
  <2> QED BY <1>5, <2>1, <2>2
<1>9. TypeOK'
  BY <1>1, <1>4, <1>6 DEF IInv, TypeOK, clock, grave, calls
<1> QED BY <1>2, <1>3, <1>6, <1>7, <1>8, <1>9 DEF IInv

\* rt_list_insert_after puts the dead thread in front of rt_thread_defunct.
LEMMA BuriedList ==
  ASSUME NEW q \in Seq(Thread), NEW u \in Thread, Once(q), ~OnList(q, u)
  PROVE  /\ <<u>> \o q \in Seq(Thread) /\ Once(<<u>> \o q)
         /\ \A t \in All : OnList(<<u>> \o q, t) <=> OnList(q, t) \/ t = u
<1> DEFINE w == <<u>> \o q
<1>1. /\ Len(q) \in Nat /\ w \in Seq(Thread) /\ Len(w) = Len(q) + 1 /\ w[1] = u
      /\ \A i \in 1..Len(q) : w[i + 1] = q[i]
  OBVIOUS
<1> HIDE DEF w
<1>2. \A i \in 1..Len(w) : i = 1 \/ (i - 1 \in 1..Len(q) /\ w[i] = q[i - 1])
  <2>1. ASSUME NEW i \in 1..Len(w), i # 1 PROVE i - 1 \in 1..Len(q) /\ w[i] = q[i - 1]
    <3>1. i - 1 \in 1..Len(q) /\ (i - 1) + 1 = i
      BY <1>1, <2>1
    <3> QED BY <1>1, <3>1
  <2> QED BY <2>1
<1>3. Once(w)
  <2>1. SUFFICES ASSUME NEW i \in 1..Len(w), NEW j \in 1..Len(w), i # j
                 PROVE  w[i] # w[j]
    BY DEF Once
  <2>2. CASE i = 1
    BY <1>1, <1>2, <2>1, <2>2 DEF OnList
  <2>3. CASE j = 1
    BY <1>1, <1>2, <2>1, <2>3 DEF OnList
  <2>4. CASE i # 1 /\ j # 1
    <3>1. i - 1 # j - 1
      BY <1>1, <2>1
    <3> QED BY <1>2, <2>1, <2>4, <3>1 DEF Once
  <2> QED BY <2>2, <2>3, <2>4
<1>4. ASSUME NEW t \in All PROVE OnList(w, t) <=> OnList(q, t) \/ t = u
  <2>1. ASSUME OnList(w, t) PROVE OnList(q, t) \/ t = u
    BY <1>1, <1>2, <2>1 DEF OnList
  <2>2. ASSUME OnList(q, t) PROVE OnList(w, t)
    <3>1. PICK i \in 1..Len(q) : q[i] = t
      BY <2>2 DEF OnList
    <3>2. i + 1 \in 1..Len(w) /\ w[i + 1] = t
      BY <1>1, <3>1
    <3> QED BY <3>2 DEF OnList
  <2>3. ASSUME t = u PROVE OnList(w, t)
    <3>1. 1 \in 1..Len(w)
      BY <1>1
    <3> QED BY <1>1, <2>3, <3>1 DEF OnList
  <2> QED BY <2>1, <2>2, <2>3
<1> QED BY <1>1, <1>3, <1>4 DEF w

\* What the burial of a thread that is not dead does to the dead.
LEMMA Buried ==
  ASSUME IInv, NEW u \in Thread, cpu.stat[u] # "close", Bury(u), reaping' = reaping
  PROVE  /\ defunct' \in Seq(Thread) /\ Graves'
         /\ Dead' = IF u \in Static THEN Dead ELSE Dead \cup {u}
<1>1. /\ defunct \in Seq(Thread) /\ Once(defunct) /\ ~OnList(defunct, u) /\ reaping # u
      /\ reaping \in All /\ ~OnList(defunct, reaping)
  BY DEF IInv, TypeOK, Graves, Ties, Dead
<1>2. CASE u \in Static
  BY <1>1, <1>2 DEF Bury, Graves, Dead
<1>3. CASE u \notin Static
  <2>1. defunct' = <<u>> \o defunct
    BY <1>3 DEF Bury
  <2>2. /\ defunct' \in Seq(Thread) /\ Once(defunct')
        /\ \A t \in All : OnList(defunct', t) <=> OnList(defunct, t) \/ t = u
    BY <1>1, <2>1, BuriedList
  <2>3. Dead' = Dead \cup {u}
    BY <2>2 DEF Dead, All
  <2> QED BY <1>1, <1>3, <2>2, <2>3 DEF Graves
<1> QED BY <1>2, <1>3

\* What rt_schedule finds when the current thread has taken itself off.
LEMMA ExitEffect ==
  ASSUME IInv, NEW t \in Thread, Exit(t)
  PROVE  \E d \in Cpu :
            /\ cpu' = Schedule(d) /\ Core(d)
            /\ d.cur = t /\ d.queue = Remove(cpu, t).queue
            /\ d.stat[t] = Closed(t)
            /\ \A u \in All : u # t => d.stat[u] = cpu.stat[u]
            /\ \A u \in All : On(d, u) <=> On(cpu, u) /\ u # t
<1>1. /\ t \in All /\ t # Idle /\ cpu.cur = t /\ pc[t] = "run" /\ cpu.stat[t] = "running"
      /\ ~On(cpu, t) /\ cpu \in Cpu /\ Queues(cpu) /\ Core(cpu) /\ lock = 0 /\ Idle \in All
  <2>1. t \in All /\ t # Idle /\ cpu.cur = t /\ pc[t] = "run" /\ Idle \in All
    BY ThreadAssumption DEF Exit, Runs, All
  <2>2. cpu.stat[t] = "running"
    BY <2>1, Facts
  <2> QED BY <2>1, <2>2, Facts DEF Exit
<1> DEFINE c == Remove(cpu, t)
           d == [c EXCEPT !.stat[t] = Closed(t), !.yield[t] = FALSE]
<1>2. /\ Queues(c) /\ c.cur = t /\ c.yield = cpu.yield /\ c.stat = cpu.stat
      /\ \A u \in All : On(c, u) <=> On(cpu, u) /\ u # t
  BY <1>1, RemoveQueues
<1>3. cpu' = Schedule(d)
  BY DEF Exit
<1> HIDE DEF c
<1>4. Core(c) /\ ~On(c, t) /\ c \in Cpu
  BY <1>1, <1>2 DEF Core, Queues
<1>5. Closed(t) \in {"none", "close"} /\ (Closed(t) = "close" <=> t \notin Static)
  BY DEF Closed
<1>6. /\ d.cur = c.cur /\ d.queue = c.queue /\ d.group = c.group
      /\ d.stat = [c.stat EXCEPT ![t] = Closed(t)] /\ d.yield = [c.yield EXCEPT ![t] = FALSE]
  BY <1>1, <1>4 DEF Cpu
<1>7. d \in Cpu
  <2>1. d.stat \in [All -> Stats] /\ d.yield \in [All -> BOOLEAN]
    BY <1>4, <1>5, <1>6 DEF Cpu, Stats
  <2> HIDE DEF d
  <2>2. d.cur \in All /\ d.queue \in [Priority -> Seq(All)] /\ d.group \in SUBSET Priority
    BY <1>4, <1>6 DEF Cpu
  <2> QED BY <1>4, <2>1, <2>2 DEF Cpu, d
<1> HIDE DEF d
<1>8. /\ Core(d) /\ d.stat[t] = Closed(t)
      /\ \A u \in All : u # t => d.stat[u] = cpu.stat[u]
      /\ \A u \in All : On(d, u) <=> On(cpu, u) /\ u # t
  <2>1. d.stat[t] = Closed(t) /\ \A u \in All : u # t => d.stat[u] = c.stat[u]
    BY <1>1, <1>4, <1>6 DEF Cpu
  <2>2. Core(d) /\ \A u \in All : On(d, u) <=> On(c, u)
    BY <1>4, <1>5, <1>6, <1>7, <2>1, Restated
  <2> QED BY <1>2, <2>1, <2>2
<1> QED
  <2>1. d.queue = Remove(cpu, t).queue
    BY <1>6 DEF c
  <2> QED BY <1>2, <1>3, <1>6, <1>7, <1>8, <2>1

\* rt_thread_exit.
LEMMA ExitStep ==
  ASSUME IInv, NEW t \in Thread, Exit(t)
  PROVE  IInv'
<1>1. /\ t \in All /\ t # Idle /\ cpu.cur = t /\ pc[t] = "run" /\ cpu.stat[t] = "running"
      /\ ~On(cpu, t) /\ cpu \in Cpu /\ Queues(cpu) /\ Core(cpu) /\ lock = 0 /\ Idle \in All
  <2>1. t \in All /\ t # Idle /\ cpu.cur = t /\ pc[t] = "run" /\ Idle \in All
    BY ThreadAssumption DEF Exit, Runs, All
  <2>2. cpu.stat[t] = "running"
    BY <2>1, Facts
  <2> QED BY <2>1, <2>2, Facts DEF Exit
<1>2. PICK d \in Cpu :
         /\ cpu' = Schedule(d) /\ Core(d)
         /\ d.cur = t /\ d.queue = Remove(cpu, t).queue
         /\ d.stat[t] = Closed(t)
         /\ \A u \in All : u # t => d.stat[u] = cpu.stat[u]
         /\ \A u \in All : On(d, u) <=> On(cpu, u) /\ u # t
  BY ExitEffect
<1>3. Closed(t) \in {"none", "close"} /\ (Closed(t) = "close" <=> t \notin Static)
  BY DEF Closed
<1>4. /\ defunct' \in Seq(Thread) /\ Graves'
      /\ Dead' = IF t \in Static THEN Dead ELSE Dead \cup {t}
  BY <1>1, Buried DEF Exit
<1>5. /\ Asleep' = Asleep /\ timers' = timers /\ UNCHANGED <<lock, pc, calls>>
      /\ Deleting' /\ pc' \in [All -> Steps] /\ Gone' = Gone /\ Work' = Work
  BY SameCalls DEF Exit, Asleep, clock
<1>6. Ties(d, Asleep, Dead', Gone)
  <2>1. Ties(cpu, Asleep, Dead, Gone) /\ Asleep \subseteq Thread
    BY Facts DEF IInv
  <2>2. \A u \in All : d.stat[u] = "ready" => On(d, u) \/ Victim(u, Gone)
    BY <1>2, <1>3, <2>1 DEF Ties
  <2>3. \A u \in Asleep : d.stat[u] = "suspend"
    BY <1>1, <1>2, <2>1 DEF Ties, All
  <2>4. \A u \in Thread : d.stat[u] = "close" <=> u \in Dead'
    BY <1>1, <1>2, <1>3, <1>4, <2>1 DEF Ties, All
  <2>5. ASSUME NEW e \in Thread, Gone[e] # e
        PROVE  /\ Gone[e] \in Thread \ {d.cur} /\ Gone[e] \notin Asleep /\ ~On(d, Gone[e])
               /\ d.stat[Gone[e]] \in {"init", "ready", "suspend"}
    BY <1>1, <1>2, <2>1, <2>5 DEF Ties, All
  <2> QED BY <2>2, <2>3, <2>4, <2>5 DEF Ties
<1>8. Owed(d, Asleep, timers, lock, Work)
  <2>1. Owed(cpu, Asleep, timers, lock, Work) /\ Work.meant[t] = t
    BY <1>1 DEF IInv, Work
  <2>2. Work.fresh \in SUBSET Thread /\ Work.marked \in SUBSET Thread
    BY Facts
  <2> QED BY <1>1, <1>2, <2>1, <2>2, LeftOwed
<1>7. /\ cpu' \in Cpu /\ Core(cpu)' /\ Ties(cpu, Asleep, Dead, Gone)'
      /\ Owed(cpu, Asleep, timers, lock, Work)' /\ Going' /\ MostUrgentRuns'
  <2>1. Ties(d, Asleep', Dead', Gone') /\ Owed(d, Asleep', timers', lock, Work')
    BY <1>5, <1>6, <1>8
  <2>2. /\ Asleep' \in SUBSET Thread /\ Gone' \in [All -> All] /\ lock \in Nat /\ lock' = lock
        /\ Work'.fresh \in SUBSET Thread /\ Work'.marked \in SUBSET Thread
    BY <1>5, Facts
  <2> QED BY <1>1, <1>2, <2>1, <2>2, AfterSchedule
<1>9. TypeOK'
  BY <1>4, <1>5, <1>7 DEF IInv, TypeOK, Exit, Cpu, clock, calls
<1> QED BY <1>4, <1>5, <1>7, <1>9 DEF IInv

\* rt_thread_delete and rt_thread_detach of a thread that is not dead.
LEMMA DeleteStep ==
  ASSUME IInv, Races = {}, NEW t \in Thread, NEW u \in Thread, Delete(t, u)
  PROVE  IInv'
<1>1. /\ t \in All /\ u \in All /\ t # Idle /\ u # Idle /\ u # t /\ cpu.cur = t /\ pc[t] = "run"
      /\ cpu.stat[t] = "running" /\ cpu.stat[u] \in {"init", "ready", "suspend"}
      /\ u \notin timers /\ pc[u] \in Calm /\ ~Doomed(u) /\ ~Begun(u)
      /\ Keeps(cpu, lock, t, u)
      /\ cpu' = cpu /\ UNCHANGED <<lock, clock, starts, defunct, reaping>>
  <2>1. t \in All /\ u \in All /\ t # Idle /\ u # Idle /\ cpu.cur = t /\ pc[t] = "run" /\ u # t
    BY ThreadAssumption DEF Delete, Runs, All
  <2>2. cpu.stat[t] = "running"
    BY <2>1, Facts
  <2>3. cpu.stat[u] \in {"init", "ready", "suspend"}
    <3>1. cpu.stat[u] \in Stats /\ cpu.stat[u] # "running"
      BY <2>1, Facts DEF Core, Cpu
    <3> QED BY <3>1 DEF Delete, Stats
  <2>4. Keeps(cpu, lock, t, u)
    BY <2>1, <2>2 DEF Delete, Allowed, Keeps
  <2> QED BY <2>1, <2>2, <2>3, <2>4 DEF Delete, Allowed
<1>2. /\ victim' \in [All -> All] /\ victim'[t] = u /\ pc' \in [All -> Steps] /\ pc'[t] = "look"
      /\ \A d \in All : d # t => victim'[d] = victim[d] /\ pc'[d] = pc[d]
  BY <1>1, Facts DEF Delete, Owing, Steps
<1>3. Asleep' = Asleep /\ Dead' = Dead /\ Graves' /\ timers' = timers /\ starts' = starts
  BY <1>1 DEF Asleep, Dead, Graves, IInv, clock
<1>4. /\ Gone' = Gone /\ Work'.meant = [Work.meant EXCEPT ![t] = u]
      /\ Work'.fresh = Work.fresh /\ Work'.marked = Work.marked
  <2>1. Gone' = Gone
    BY <1>1, <1>2 DEF Gone
  <2>2. Work'.meant = [Work.meant EXCEPT ![t] = u]
    BY <1>1, <1>2 DEF Work
  <2>3. Work'.fresh = Work.fresh
    BY <1>1, <1>2, <1>3 DEF Work, All
  <2>4. Work'.marked = Work.marked
    BY <1>1, <1>2, <1>3 DEF Work, All
  <2> QED BY <2>1, <2>2, <2>3, <2>4
<1>5. Core(cpu)' /\ Ties(cpu, Asleep, Dead, Gone)'
  BY <1>1, <1>3, <1>4 DEF IInv, Core, Queues, Ties, On
<1>6. Owed(cpu, Asleep, timers, lock, Work)'
  <2>1. ASSUME NEW e \in Thread, Work'.meant[e] # e
        PROVE  /\ Work'.meant[e] \in Thread \ {cpu.cur} /\ Work'.meant[e] \notin timers
               /\ cpu.stat[Work'.meant[e]] \in {"init", "ready", "suspend"}
               /\ Keeps(cpu, lock, e, Work'.meant[e])
    <3>1. Work'.meant[e] = IF e = t THEN u ELSE Work.meant[e]
      BY <1>1, <1>4, Facts DEF All
    <3>2. CASE e = t
      BY <1>1, <3>1, <3>2
    <3>3. CASE e # t
      BY <2>1, <3>1, <3>3 DEF IInv, Owed
    <3> QED BY <3>2, <3>3
  <2>2. Owed(cpu, Asleep, timers, lock, Work')
    BY <1>4, <2>1 DEF IInv, Owed
  <2> QED BY <1>1, <1>3, <2>2 DEF Owed, Keeps, On
<1>7. Deleting'
  <2>1. \A d \in Thread : d \in All /\ (d # u => victim[d] # u /\ starts[d] # u)
    BY <1>1 DEF Doomed, Begun, All
  <2>2. starts[u] = u
    BY <1>1 DEF IInv, Deleting, StartSteps, Calm
  <2>3. \A d \in All : /\ pc'[d] \in DeleteSteps <=> victim'[d] # d
                       /\ pc'[d] \in StartSteps <=> starts'[d] # d
    BY <1>1, <1>2, <1>3 DEF IInv, Deleting, DeleteSteps, StartSteps
  <2>4. victim'[Idle] = Idle /\ starts'[Idle] = Idle /\ pc'[Idle] = "run"
    BY <1>1, <1>2, <1>3 DEF IInv, Deleting, All
  <2>5. \A d, e \in Thread : d # e /\ victim'[d] = victim'[e] => victim'[d] \in {d, e}
    BY <1>2, <2>1 DEF IInv, Deleting
  <2>6. \A d \in Thread : victim'[d] # d => victim'[d] \in Thread /\ pc'[victim'[d]] \in Calm
    <3>1. \A d \in Thread : victim[d] # d => victim[d] # t
      <4>1. Ties(cpu, Asleep, Dead, Gone) /\ Owed(cpu, Asleep, timers, lock, Work)
        BY DEF IInv
      <4>2. \A d \in Thread : victim[d] # d => Gone[d] = victim[d] \/ Work.meant[d] = victim[d]
        BY <2>1 DEF IInv, Deleting, DeleteSteps, Gone, Work
      <4> QED BY <1>1, <4>1, <4>2 DEF Ties, Owed
    <3> QED BY <1>1, <1>2, <2>1, <3>1 DEF IInv, Deleting
  <2>7. \A d, e \in Thread : victim'[d] # d /\ starts'[e] # e => victim'[d] # starts'[e]
    BY <1>2, <1>3, <2>1, <2>2 DEF IInv, Deleting
  <2>8. /\ \A d, e \in Thread : d # e /\ starts'[d] = starts'[e] => starts'[d] \in {d, e}
        /\ \A d \in Thread : starts'[d] # d => starts'[d] \in Thread
    BY <1>3 DEF IInv, Deleting
  <2> QED BY <2>3, <2>4, <2>5, <2>6, <2>7, <2>8 DEF Deleting
<1>8. Going' /\ MostUrgentRuns'
  BY <1>1, <1>2 DEF IInv, Going, MostUrgentRuns
<1>9. TypeOK'
  BY <1>1, <1>2, <1>3 DEF IInv, TypeOK, clock
<1> QED BY <1>3, <1>5, <1>6, <1>7, <1>8, <1>9 DEF IInv

\* A thread that is being deleted and was not taken off its list yet is alive,
\* and nobody else is about to delete it.
LEMMA DeleteFacts ==
  ASSUME IInv, NEW t \in Thread, pc[t] \in {"look", "remove"}, cpu.cur = t
  PROVE  /\ t \in All /\ t # Idle /\ cpu.stat[t] = "running"
         /\ victim[t] \in Thread /\ victim[t] \in All /\ victim[t] # t /\ victim[t] # Idle
         /\ victim[t] \notin timers /\ victim[t] \notin Dead
         /\ cpu.stat[victim[t]] \in {"init", "ready", "suspend"}
         /\ \A d \in Thread : d # t => victim[d] # victim[t] \/ victim[d] = d
<1>1. t \in All /\ t # Idle /\ cpu.stat[t] = "running"
  BY Facts, ThreadAssumption DEF All
<1>2. victim[t] # t /\ victim[t] \in Thread /\ victim[t] \in All /\ victim[t] # Idle
  BY <1>1, ThreadAssumption DEF IInv, Deleting, DeleteSteps, All
<1>3. Work.meant[t] = victim[t]
  BY <1>1 DEF Work
<1>4. victim[t] \notin timers /\ cpu.stat[victim[t]] \in {"init", "ready", "suspend"}
  BY <1>2, <1>3 DEF IInv, Owed
<1>5. victim[t] \notin Dead
  BY <1>2, <1>4 DEF IInv, Ties
<1>6. \A d \in Thread : d # t => victim[d] # victim[t] \/ victim[d] = d
  BY <1>2 DEF IInv, Deleting
<1> QED BY <1>1, <1>2, <1>4, <1>5, <1>6

\* The victim is off its list, if it was on one, and its timer does not run.
LEMMA TakenOffStep ==
  ASSUME IInv, NEW t \in Thread, pc[t] \in {"look", "remove"}, cpu.cur = t,
         pc' = [pc EXCEPT ![t] = "detach"], UNCHANGED <<lock, slice, timers, wait, grave>>,
         \/ cpu' = cpu /\ cpu.stat[victim[t]] = "init" /\ listed' = listed
         \/ cpu' = Remove(cpu, victim[t]) /\ listed' = listed \ {victim[t]}
  PROVE  IInv'
<1> DEFINE u == victim[t]
<1>1. /\ t \in All /\ t # Idle /\ cpu.stat[t] = "running"
      /\ u \in Thread /\ u \in All /\ u # t /\ u # Idle /\ u \notin timers /\ u \notin Dead
      /\ cpu.stat[u] \in {"init", "ready", "suspend"}
      /\ \A d \in Thread : d # t => victim[d] # u \/ victim[d] = d
  BY DeleteFacts
<1> HIDE DEF u
<1>2. /\ Core(cpu') /\ cpu'.cur = t /\ cpu'.stat = cpu.stat /\ cpu'.yield = cpu.yield
      /\ \A w \in All : On(cpu', w) <=> On(cpu, w) /\ w # u
      /\ cpu'.group \subseteq cpu.group
  <2>1. CASE cpu' = cpu /\ cpu.stat[u] = "init"
    <3>1. ~On(cpu, u)
      BY <1>1, <2>1, Facts
    <3> QED BY <1>1, <2>1, <3>1, Facts
  <2>2. CASE cpu' = Remove(cpu, u)
    <3>1. /\ Queues(cpu') /\ cpu'.cur = cpu.cur /\ cpu'.yield = cpu.yield /\ cpu'.stat = cpu.stat
          /\ \A w \in All : On(cpu', w) <=> On(cpu, w) /\ w # u
          /\ cpu'.group \subseteq cpu.group
      BY <1>1, <2>2, Facts, RemoveQueues
    <3>2. Idle \in All
      BY DEF All
    <3>3. Core(cpu')
      BY <1>1, <3>1, <3>2, Facts DEF Core
    <3> QED BY <1>1, <3>1, <3>3
  <2> QED BY <2>1, <2>2 DEF u
<1>3. /\ Dead' = Dead /\ Graves' /\ victim' = victim /\ starts' = starts
      /\ timers' = timers /\ lock' = lock
  BY SameGraves DEF calls
<1>4. Asleep' = Asleep \ {u} /\ u \notin Asleep'
  <2>1. cpu.stat[u] = "init" => u \notin Asleep
    BY DEF IInv, Ties
  <2> QED BY <1>1, <2>1 DEF Asleep, u
<1>5. /\ pc' \in [All -> Steps] /\ pc'[t] = "detach"
      /\ \A w \in All : w # t => pc'[w] = pc[w]
  BY <1>1, Facts DEF Steps
<1>6. /\ Gone' = [Gone EXCEPT ![t] = u] /\ Work'.meant = [Work.meant EXCEPT ![t] = t]
      /\ Work'.fresh = Work.fresh /\ Work'.marked = Work.marked
  <2>1. Gone' = [Gone EXCEPT ![t] = u]
    BY <1>1, <1>3, <1>5 DEF Gone, u
  <2>2. Work'.meant = [Work.meant EXCEPT ![t] = t]
    BY <1>1, <1>3, <1>5 DEF Work
  <2>3. Work'.fresh = Work.fresh
    BY <1>1, <1>3, <1>5 DEF Work, All
  <2>4. Work'.marked = Work.marked
    BY <1>1, <1>3, <1>5 DEF Work, All
  <2> QED BY <2>1, <2>2, <2>3, <2>4
<1>7. Ties(cpu', Asleep', Dead, Gone')
  <2>1. Ties(cpu, Asleep, Dead, Gone) /\ Gone \in [All -> All]
    BY Facts DEF IInv
  <2>2. /\ Gone'[t] = u /\ \A w \in All : w # t => Gone'[w] = Gone[w]
        /\ Gone[t] = t /\ \A w \in Thread : w \in All
    BY <1>1, <1>6, <2>1 DEF Gone, All
  <2>3. ASSUME NEW w \in All, cpu'.stat[w] = "ready" PROVE On(cpu', w) \/ Victim(w, Gone')
    <3>1. w = u => Victim(w, Gone')
      BY <1>1, <2>2 DEF Victim
    <3>2. Victim(w, Gone) => Victim(w, Gone')
      BY <2>2 DEF Victim
    <3> QED BY <1>2, <2>1, <2>3, <3>1, <3>2 DEF Ties
  <2>4. \A w \in Asleep' : cpu'.stat[w] = "suspend"
    BY <1>2, <1>4, <2>1 DEF Ties
  <2>5. \A w \in Thread : cpu'.stat[w] = "close" <=> w \in Dead
    BY <1>2, <2>1 DEF Ties
  <2>6. ASSUME NEW e \in Thread, Gone'[e] # e
        PROVE  /\ Gone'[e] \in Thread \ {cpu'.cur} /\ Gone'[e] \notin Asleep' /\ ~On(cpu', Gone'[e])
               /\ cpu'.stat[Gone'[e]] \in {"init", "ready", "suspend"}
    <3>1. CASE e = t
      BY <1>1, <1>2, <1>4, <2>2, <3>1
    <3>2. CASE e # t
      BY <1>2, <1>4, <2>1, <2>2, <2>6, <3>2 DEF Ties
    <3> QED BY <3>1, <3>2
  <2> QED BY <2>3, <2>4, <2>5, <2>6 DEF Ties
<1>8. Core(cpu)' /\ Ties(cpu, Asleep, Dead, Gone)' /\ cpu' \in Cpu
  BY <1>2, <1>3, <1>7 DEF Core, Queues, Ties, On
<1>9. Owed(cpu, Asleep, timers, lock, Work)'
  <2>1. Owed(cpu, Asleep, timers, lock, Work) /\ Work.meant \in [All -> All]
    BY Facts DEF IInv
  <2>2. ASSUME NEW e \in Thread, Work'.meant[e] # e
        PROVE  /\ Work'.meant[e] \in Thread \ {cpu'.cur} /\ Work'.meant[e] \notin timers
               /\ cpu'.stat[Work'.meant[e]] \in {"init", "ready", "suspend"}
               /\ Keeps(cpu', lock, e, Work'.meant[e])
    <3>1. e # t /\ e \in All /\ Work'.meant[e] = Work.meant[e]
      BY <1>1, <1>6, <2>1, <2>2 DEF All
    <3>2. e # u
      <4>1. pc[u] \in Calm
        BY <1>1 DEF IInv, Deleting, u
      <4> QED BY <2>2, <3>1, <4>1 DEF Work, Calm
    <3>3. Keeps(cpu', lock, e, Work.meant[e])
      BY <1>2, <2>1, <2>2, <3>1, <3>2 DEF Owed, Keeps
    <3> QED BY <1>2, <2>1, <2>2, <3>1, <3>3 DEF Owed
  <2>3. Owed(cpu', Asleep', timers, lock, Work')
    BY <1>2, <1>4, <1>6, <2>1, <2>2 DEF Owed
  <2> QED BY <1>3, <2>3 DEF Owed, Keeps, On
<1>10. Deleting'
  <2>1. \A d \in All : /\ pc'[d] \in DeleteSteps <=> pc[d] \in DeleteSteps
                       /\ pc'[d] \in StartSteps <=> pc[d] \in StartSteps
                       /\ pc'[d] \in Calm <=> pc[d] \in Calm
    BY <1>5 DEF DeleteSteps, StartSteps, Calm
  <2>2. pc'[Idle] = "run"
    BY <1>1, <1>5 DEF IInv, Deleting, All
  <2>3. \A d \in Thread : d \in All
    BY DEF All
  <2> QED BY <1>3, <2>1, <2>2, <2>3 DEF IInv, Deleting
<1>11. Going' /\ MostUrgentRuns'
  BY <1>1, <1>2, <1>3, <1>5 DEF IInv, Going, MostUrgentRuns
<1>12. TypeOK'
  <2>1. listed' \subseteq Thread
    BY DEF IInv, TypeOK
  <2> QED BY <1>3, <1>5, <1>8, <2>1 DEF IInv, TypeOK, Cpu, grave, calls
<1> QED BY <1>3, <1>8, <1>9, <1>10, <1>11, <1>12 DEF IInv

\* Whether the victim was started, and its removal from its queue or list.
LEMMA DeleteOnStep ==
  ASSUME IInv, NEW t \in Thread, DeleteLook(t) \/ DeleteRemove(t)
  PROVE  IInv'
<1>1. pc[t] \in {"look", "remove"} /\ cpu.cur = t
  BY DEF DeleteLook, DeleteRemove, Goes
<1>2. t \in All /\ t # Idle /\ cpu.stat[t] = "running" /\ victim[t] \notin Dead /\ victim[t] \in Thread
  BY <1>1, DeleteFacts
<1>3. CASE DeleteLook(t) /\ cpu.stat[victim[t]] = "init"
  BY <1>1, <1>3, TakenOffStep DEF DeleteLook, Owing, clock
<1>4. CASE DeleteRemove(t)
  <2>1. defunct' = defunct
    BY <1>2, <1>4 DEF DeleteRemove, Without, Dead
  <2> QED BY <1>1, <1>4, <2>1, TakenOffStep DEF DeleteRemove, Owing, grave
<1>5. CASE DeleteLook(t) /\ cpu.stat[victim[t]] # "init"
  <2>1. /\ pc' = [pc EXCEPT ![t] = "remove"] /\ cpu' = cpu /\ UNCHANGED <<lock, clock, grave>>
    BY <1>5 DEF DeleteLook, Owing
  <2>2. Deleting' /\ pc' \in [All -> Steps] /\ Gone' = Gone /\ Work' = Work
    <3>1. {"look", "remove"} \in Stages /\ "remove" \in {"look", "remove"}
      BY DEF Stages
    <3> QED BY <1>1, <1>2, <2>1, <3>1, PcMoves DEF grave
  <2>3. Asleep' = Asleep /\ timers' = timers /\ lock' = lock /\ Dead' = Dead /\ Graves'
    BY <2>1, SameGraves DEF Asleep, clock
  <2>4. /\ Core(cpu)' /\ Ties(cpu, Asleep, Dead, Gone)'
        /\ Owed(cpu, Asleep, timers, lock, Work)'
    BY <2>1, <2>2, <2>3 DEF IInv, Core, Queues, Ties, Owed, Keeps, On
  <2>5. Going' /\ MostUrgentRuns'
    BY <1>1, <1>2, <2>1 DEF IInv, Going, MostUrgentRuns
  <2>6. TypeOK'
    BY <2>1, <2>2 DEF IInv, TypeOK, clock, grave, calls
  <2> QED BY <2>2, <2>3, <2>4, <2>5, <2>6 DEF IInv
<1> QED BY <1>3, <1>4, <1>5

\* rt_timer_detach of the thread that is being deleted.
LEMMA DeleteTimerStep ==
  ASSUME IInv, NEW t \in Thread, DeleteTimer(t)
  PROVE  IInv'
<1>1. /\ t \in All /\ t # Idle /\ cpu.cur = t /\ pc[t] = "detach" /\ cpu.stat[t] = "running"
      /\ pc' = [pc EXCEPT ![t] = "bury"]
      /\ cpu' = cpu /\ lock' = lock /\ UNCHANGED grave
  BY Facts, ThreadAssumption DEF DeleteTimer, Goes, Owing, All
<1>2. /\ Dead' = Dead /\ Graves' /\ Deleting' /\ pc' \in [All -> Steps]
      /\ Gone' = Gone /\ Work' = Work
  <2>1. {"detach", "bury"} \in Stages /\ "bury" \in {"detach", "bury"} /\ pc[t] \in {"detach", "bury"}
    BY <1>1 DEF Stages
  <2> QED BY <1>1, <2>1, SameGraves, PcMoves DEF grave
<1>3. Asleep' \subseteq Asleep /\ timers' \subseteq timers
  BY DEF DeleteTimer, Asleep, TimerStops
<1>4. /\ Core(cpu)' /\ Ties(cpu, Asleep, Dead, Gone)'
      /\ Owed(cpu, Asleep, timers, lock, Work)'
  <2>1. Core(cpu)' /\ Ties(cpu, Asleep, Dead, Gone)'
    BY <1>1, <1>2, <1>3 DEF IInv, Core, Queues, Ties, On
  <2>2. Owed(cpu, Asleep, timers, lock, Work)'
    BY <1>1, <1>2, <1>3 DEF IInv, Owed, Keeps, On
  <2> QED BY <2>1, <2>2
<1>5. Going' /\ MostUrgentRuns'
  BY <1>1 DEF IInv, Going, MostUrgentRuns
<1>6. TypeOK'
  BY <1>1, <1>2, <1>3 DEF IInv, TypeOK, DeleteTimer, grave, calls
<1> QED BY <1>2, <1>4, <1>5, <1>6 DEF IInv

\* The thread that is being deleted is dead.
LEMMA DeleteEndStep ==
  ASSUME IInv, NEW t \in Thread, DeleteEnd(t)
  PROVE  IInv'
<1> DEFINE u == victim[t]
<1>1. /\ t \in All /\ t # Idle /\ cpu.cur = t /\ pc[t] = "bury" /\ cpu.stat[t] = "running"
  BY Facts, ThreadAssumption DEF DeleteEnd, Goes, All
<1>2. /\ u \in Thread /\ u \in All /\ u # t /\ u # Idle /\ u \notin Asleep /\ ~On(cpu, u)
      /\ cpu.stat[u] \in {"init", "ready", "suspend"} /\ pc[u] \in Calm
      /\ \A d \in Thread : d # t => victim[d] # u \/ victim[d] = d
      /\ \A d \in Thread : starts[d] # u \/ starts[d] = d
      /\ victim[u] = u
  <2>1. u # t /\ Gone[t] = u
    BY <1>1 DEF IInv, Deleting, DeleteSteps, Gone
  <2>2. /\ u \in Thread /\ pc[u] \in Calm
        /\ \A d \in Thread : d # t => victim[d] # u \/ victim[d] = d
        /\ \A d \in Thread : starts[d] # u \/ starts[d] = d
    BY <2>1 DEF IInv, Deleting
  <2>3. u \notin Asleep /\ ~On(cpu, u) /\ cpu.stat[u] \in {"init", "ready", "suspend"}
    BY <1>1, <2>1 DEF IInv, Ties
  <2>4. victim[u] = u /\ u \in All /\ u # Idle
    BY <2>2, ThreadAssumption DEF IInv, Deleting, DeleteSteps, Calm, All
  <2> QED BY <2>1, <2>2, <2>3, <2>4
<1>3. /\ cpu' = [cpu EXCEPT !.stat[u] = Closed(u), !.yield[u] = FALSE]
      /\ Bury(u) /\ victim' = [victim EXCEPT ![t] = t]
      /\ pc' = [pc EXCEPT ![t] = "run", ![u] = "run"]
      /\ UNCHANGED <<lock, clock, starts, reaping>>
  BY DEF DeleteEnd
<1> HIDE DEF u
<1>4. Closed(u) \in {"none", "close"} /\ (Closed(u) = "close" <=> u \notin Static)
  BY DEF Closed
<1>5. /\ cpu'.cur = t /\ cpu'.queue = cpu.queue /\ cpu'.group = cpu.group
      /\ cpu'.stat = [cpu.stat EXCEPT ![u] = Closed(u)] /\ cpu'.yield = [cpu.yield EXCEPT ![u] = FALSE]
  BY <1>1, <1>3, Facts DEF Cpu
<1>6. cpu' \in Cpu
  <2>1. cpu'.stat \in [All -> Stats] /\ cpu'.yield \in [All -> BOOLEAN]
    <3>1. cpu.stat \in [All -> Stats] /\ cpu.yield \in [All -> BOOLEAN]
      BY Facts DEF Cpu
    <3>2. Closed(u) \in Stats
      BY <1>4 DEF Stats
    <3> QED BY <1>5, <3>1, <3>2
  <2> QED BY <1>1, <1>3, <1>5, <2>1, Facts DEF Cpu
<1>7. /\ cpu'.stat[u] = Closed(u) /\ \A w \in All : w # u => cpu'.stat[w] = cpu.stat[w]
      /\ Core(cpu') /\ \A w \in All : On(cpu', w) <=> On(cpu, w)
  <2>1. cpu'.stat[u] = Closed(u) /\ \A w \in All : w # u => cpu'.stat[w] = cpu.stat[w]
    BY <1>2, <1>5, Facts DEF Cpu
  <2>2. cpu'.cur = cpu.cur /\ cpu'.stat[u] \notin {"ready", "running"}
    BY <1>1, <1>4, <1>5, <2>1
  <2>3. Core(cpu) /\ ~On(cpu, u) /\ u \in Thread
    BY <1>2, Facts
  <2>4. Core(cpu') /\ \A w \in All : On(cpu', w) <=> On(cpu, w)
    BY <1>5, <1>6, <2>1, <2>2, <2>3, Restated
  <2> QED BY <2>1, <2>4
<1>8. /\ defunct' \in Seq(Thread) /\ Graves'
      /\ Dead' = IF u \in Static THEN Dead ELSE Dead \cup {u}
  BY <1>2, <1>3, Buried
<1>9. /\ victim' \in [All -> All] /\ victim'[t] = t
      /\ \A w \in All : w # t => victim'[w] = victim[w]
  BY <1>1, <1>3, Facts
<1>10. Asleep' = Asleep /\ timers' = timers /\ lock' = lock
  BY <1>3 DEF Asleep, clock
<1>13. /\ pc' \in [All -> Steps] /\ pc'[t] = "run" /\ pc'[u] = "run"
       /\ \A w \in All : w # t /\ w # u => pc'[w] = pc[w]
  BY <1>1, <1>2, <1>3, Facts DEF Steps, Calm
<1>17. Gone' = [Gone EXCEPT ![t] = t] /\ Work' = Work
  <2>1. \A w \in All : /\ w # t => (pc'[w] \in {"detach", "bury"} <=> pc[w] \in {"detach", "bury"})
                       /\ pc'[w] \in {"look", "remove"} <=> pc[w] \in {"look", "remove"}
                       /\ pc'[w] = "mark" <=> pc[w] = "mark"
                       /\ pc'[w] \in {"check", "unlink", "insert"} <=>
                              pc[w] \in {"check", "unlink", "insert"}
    BY <1>1, <1>2, <1>13 DEF Calm
  <2>2. Gone' = [Gone EXCEPT ![t] = t]
    BY <1>1, <1>9, <1>13, <2>1 DEF Gone
  <2>3. Work'.meant = Work.meant
    BY <1>1, <1>9, <2>1 DEF Work
  <2>4. Work'.fresh = Work.fresh /\ Work'.marked = Work.marked
    BY <1>3, <2>1 DEF Work, All
  <2> QED BY <2>2, <2>3, <2>4 DEF Work
<1>11. Ties(cpu', Asleep, Dead', Gone')
  <2>1. Ties(cpu, Asleep, Dead, Gone) /\ Asleep \subseteq Thread /\ Gone \in [All -> All]
    BY Facts DEF IInv
  <2>6. Gone'[t] = t /\ \A w \in All : w # t => Gone'[w] = Gone[w]
    BY <1>1, <1>17, <2>1
  <2>7. Gone[t] = u /\ \A d \in Thread : d # t /\ Gone[d] # d => Gone[d] # u
    BY <1>1, <1>2 DEF Gone, All, u
  <2>2. ASSUME NEW w \in All, cpu'.stat[w] = "ready" PROVE On(cpu', w) \/ Victim(w, Gone')
    <3>1. w # u /\ cpu.stat[w] = "ready"
      BY <1>4, <1>7, <2>2
    <3>2. Victim(w, Gone) => Victim(w, Gone')
      BY <2>6, <2>7, <3>1 DEF Victim, All
    <3> QED BY <1>7, <2>1, <3>1, <3>2 DEF Ties
  <2>3. \A w \in Asleep : cpu'.stat[w] = "suspend"
    BY <1>2, <1>7, <2>1 DEF Ties, All
  <2>4. \A w \in Thread : cpu'.stat[w] = "close" <=> w \in Dead'
    BY <1>2, <1>4, <1>7, <1>8, <2>1 DEF Ties, All
  <2>5. ASSUME NEW e \in Thread, Gone'[e] # e
        PROVE  /\ Gone'[e] \in Thread \ {cpu'.cur} /\ Gone'[e] \notin Asleep /\ ~On(cpu', Gone'[e])
               /\ cpu'.stat[Gone'[e]] \in {"init", "ready", "suspend"}
    <3>1. e # t /\ e \in All /\ Gone'[e] = Gone[e] /\ Gone[e] # e
      BY <2>5, <2>6 DEF All
    <3>2. /\ Gone[e] \in Thread \ {t} /\ Gone[e] \notin Asleep /\ ~On(cpu, Gone[e])
          /\ cpu.stat[Gone[e]] \in {"init", "ready", "suspend"}
      BY <1>1, <2>1, <3>1 DEF Ties
    <3>3. Gone[e] # u /\ Gone[e] \in All
      BY <2>7, <3>1, <3>2 DEF All
    <3> QED BY <1>5, <1>7, <3>1, <3>2, <3>3
  <2> QED BY <2>2, <2>3, <2>4, <2>5 DEF Ties
<1>18. Owed(cpu', Asleep, timers, lock, Work)
  <2>1. Owed(cpu, Asleep, timers, lock, Work)
    BY DEF IInv
  <2>2. Work.fresh \in SUBSET Thread /\ Work.marked \in SUBSET Thread
    BY Facts
  <2>3. ASSUME NEW d \in Thread, Work.meant[d] # d
        PROVE  /\ cpu'.stat[Work.meant[d]] = cpu.stat[Work.meant[d]]
               /\ Keeps(cpu', lock, d, Work.meant[d])
    <3>1. d # t /\ d \in All /\ Work.meant[d] = victim[d] /\ victim[d] # d
      BY <1>1, <2>3 DEF Work, All
    <3>2. Work.meant[d] # u /\ Work.meant[d] \in All /\ Keeps(cpu, lock, d, Work.meant[d])
      BY <1>2, <2>1, <2>3, <3>1 DEF Owed, All
    <3> QED BY <1>1, <1>5, <1>7, <3>1, <3>2 DEF Keeps
  <2>4. u \notin Work.fresh /\ u \notin Work.marked
    BY <1>2 DEF IInv, Deleting, StartSteps, Work, All
  <2>5. \A d \in Work.fresh : cpu'.stat[d] = "init"
    BY <1>7, <2>1, <2>2, <2>4 DEF Owed, All
  <2>6. \A d \in Work.marked : cpu'.stat[d] = "suspend" /\ d \notin Asleep
    BY <1>7, <2>1, <2>2, <2>4 DEF Owed, All
  <2> QED BY <1>1, <1>5, <2>1, <2>3, <2>5, <2>6 DEF Owed
<1>12. Core(cpu)' /\ Ties(cpu, Asleep, Dead, Gone)' /\ Owed(cpu, Asleep, timers, lock, Work)'
  <2>1. Core(cpu)'
    BY <1>7 DEF Core, Queues, On
  <2>2. Ties(cpu, Asleep, Dead, Gone)'
    BY <1>10, <1>11 DEF Ties, On
  <2>4. Work' = Work
    BY <1>17
  <2>3. Owed(cpu, Asleep, timers, lock, Work)'
    BY <1>10, <1>18, <2>4 DEF Owed, Keeps, On
  <2> QED BY <2>1, <2>2, <2>3
<1>14. Deleting'
  <2>1. \A w \in All : /\ pc'[w] \in DeleteSteps <=> victim'[w] # w
                       /\ pc'[w] \in StartSteps <=> pc[w] \in StartSteps
                       /\ pc[w] \in Calm => pc'[w] \in Calm
    BY <1>1, <1>2, <1>9, <1>13 DEF IInv, Deleting, DeleteSteps, StartSteps, Calm
  <2>2. victim'[Idle] = Idle /\ pc'[Idle] = "run"
    BY <1>1, <1>2, <1>9, <1>13 DEF IInv, Deleting, All
  <2>3. \A d \in Thread : d \in All /\ (victim'[d] # d => d # t /\ victim'[d] = victim[d])
    BY <1>9 DEF All
  <2>4. ASSUME NEW d \in Thread, NEW e \in Thread, d # e, victim'[d] = victim'[e]
        PROVE  victim'[d] \in {d, e}
    <3>1. d \in All /\ e \in All
      BY DEF All
    <3>2. CASE d = t \/ e = t
      BY <1>9, <2>4, <3>1, <3>2
    <3>3. CASE d # t /\ e # t
      BY <1>9, <2>4, <3>1, <3>3 DEF IInv, Deleting
    <3> QED BY <3>2, <3>3
  <2>5. \A d \in Thread : victim'[d] # d => victim'[d] \in Thread /\ pc'[victim'[d]] \in Calm
    BY <2>1, <2>3 DEF IInv, Deleting
  <2>6. starts' = starts
    BY <1>3
  <2>7. \A w \in All : pc'[w] \in StartSteps <=> starts'[w] # w
    BY <2>1, <2>6 DEF IInv, Deleting
  <2>8. /\ starts'[Idle] = Idle
        /\ \A d, e \in Thread : d # e /\ starts'[d] = starts'[e] => starts'[d] \in {d, e}
        /\ \A d \in Thread : starts'[d] # d => starts'[d] \in Thread
    BY <2>6 DEF IInv, Deleting
  <2>9. \A d, e \in Thread : victim'[d] # d /\ starts'[e] # e => victim'[d] # starts'[e]
    BY <2>3, <2>6 DEF IInv, Deleting
  <2> QED BY <2>1, <2>2, <2>4, <2>5, <2>7, <2>8, <2>9 DEF Deleting
<1>15. Going' /\ MostUrgentRuns'
  BY <1>1, <1>2, <1>3, <1>5, <1>7, <1>13 DEF IInv, Going, MostUrgentRuns
<1>16. TypeOK'
  BY <1>3, <1>6, <1>8, <1>9, <1>13 DEF IInv, TypeOK, Cpu, clock
<1> QED BY <1>8, <1>12, <1>14, <1>15, <1>16 DEF IInv

\* The first on a list and the rest of it.
LEMMA HeadAndTail ==
  ASSUME NEW q \in Seq(Thread), q # <<>>, Once(q)
  PROVE  /\ Head(q) \in Thread /\ Tail(q) \in Seq(Thread) /\ Once(Tail(q))
         /\ ~OnList(Tail(q), Head(q))
         /\ \A t \in All : OnList(q, t) <=> OnList(Tail(q), t) \/ Head(q) = t
<1> DEFINE w == Tail(q)
<1>1. /\ Len(q) \in Nat \ {0} /\ Head(q) = q[1] /\ q[1] \in Thread
      /\ w \in Seq(Thread) /\ Len(w) = Len(q) - 1
      /\ \A i \in 1..Len(w) : w[i] = q[i + 1]
  OBVIOUS
<1> HIDE DEF w
<1>2. \A i \in 1..Len(w) : i + 1 \in 1..Len(q) /\ i + 1 # 1
  BY <1>1
<1>3. Once(w)
  BY <1>1, <1>2 DEF Once
<1>4. ~OnList(w, Head(q))
  <2>1. ASSUME NEW i \in 1..Len(w) PROVE w[i] # q[1]
    <3>1. 1 \in 1..Len(q)
      BY <1>1
    <3> QED BY <1>1, <1>2, <3>1 DEF Once
  <2> QED BY <1>1, <2>1 DEF OnList
<1>5. ASSUME NEW t \in All PROVE OnList(q, t) <=> OnList(w, t) \/ Head(q) = t
  <2>1. ASSUME OnList(q, t) PROVE OnList(w, t) \/ Head(q) = t
    <3>1. PICK i \in 1..Len(q) : q[i] = t
      BY <2>1 DEF OnList
    <3>2. CASE i = 1
      BY <1>1, <3>1, <3>2
    <3>3. CASE i # 1
      <4>1. i - 1 \in 1..Len(w) /\ (i - 1) + 1 = i
        BY <1>1, <3>3
      <4>2. w[i - 1] = t
        BY <1>1, <3>1, <4>1
      <4> QED BY <4>1, <4>2 DEF OnList
    <3> QED BY <3>2, <3>3
  <2>2. ASSUME OnList(w, t) PROVE OnList(q, t)
    BY <1>1, <1>2, <2>2 DEF OnList
  <2>3. ASSUME Head(q) = t PROVE OnList(q, t)
    <3>1. 1 \in 1..Len(q)
      BY <1>1
    <3> QED BY <1>1, <2>3, <3>1 DEF OnList
  <2> QED BY <2>1, <2>2, <2>3
<1> QED BY <1>1, <1>3, <1>4, <1>5 DEF w

\* The idle thread takes a dead thread off the list.
LEMMA ReapStep ==
  ASSUME IInv, Reap
  PROVE  IInv'
<1>1. /\ cpu' = Schedule(cpu) /\ Asleep' = Asleep /\ UNCHANGED <<lock, clock, pc, calls>>
      /\ reaping = Idle /\ reaping' = Head(defunct) /\ defunct' = Tail(defunct)
      /\ defunct \in Seq(Thread) /\ defunct # <<>> /\ Once(defunct)
  BY DEF Reap, Asleep, clock, IInv, TypeOK, Graves
<1>2. /\ reaping' \in Thread /\ defunct' \in Seq(Thread) /\ Once(defunct')
      /\ ~OnList(defunct', reaping')
      /\ \A t \in All : OnList(defunct, t) <=> OnList(defunct', t) \/ reaping' = t
  BY <1>1, HeadAndTail
<1>3. Dead' = Dead /\ Graves'
  <2>1. Idle \notin Thread
    BY ThreadAssumption
  <2> QED BY <1>1, <1>2, <2>1 DEF Dead, Graves, All
<1>4. Deleting' /\ pc' \in [All -> Steps] /\ Gone' = Gone /\ Work' = Work /\ timers' = timers
  BY <1>1, SameCalls DEF clock
<1>5. /\ cpu' \in Cpu /\ Core(cpu)' /\ Ties(cpu, Asleep, Dead, Gone)'
      /\ Owed(cpu, Asleep, timers, lock, Work)' /\ Going' /\ MostUrgentRuns'
  <2>1. Ties(cpu, Asleep', Dead', Gone') /\ Owed(cpu, Asleep', timers', lock, Work')
    BY <1>1, <1>3, <1>4 DEF IInv
  <2>2. /\ Asleep' \in SUBSET Thread /\ Gone' \in [All -> All] /\ lock' = lock
        /\ Work'.fresh \in SUBSET Thread /\ Work'.marked \in SUBSET Thread
    BY <1>1, <1>4, Facts
  <2> QED BY <1>1, <2>1, <2>2, Facts, AfterSchedule
<1>6. TypeOK'
  BY <1>1, <1>2, <1>4, <1>5 DEF IInv, TypeOK, Cpu, clock, calls, All
<1> QED BY <1>3, <1>4, <1>5, <1>6 DEF IInv

\* The idle thread frees the dead thread it took.
LEMMA FreeStep ==
  ASSUME IInv, Free
  PROVE  IInv'
<1> DEFINE u == reaping
<1>1. /\ u \in Thread /\ u \in All /\ cpu.cur = Idle /\ u # cpu.cur
      /\ cpu.stat[u] = "close" /\ ~On(cpu, u) /\ u \notin Asleep /\ ~OnList(defunct, u)
      /\ ~Victim(u, Gone)
  <2>1. u \in Thread /\ u \in All /\ cpu.cur = Idle /\ u # cpu.cur
    BY ThreadAssumption DEF IInv, TypeOK, Free, Runs, All
  <2>2. cpu.stat[u] = "close" /\ u \notin Asleep /\ ~OnList(defunct, u)
    BY <2>1 DEF IInv, Ties, Dead, Graves
  <2>3. ~On(cpu, u)
    BY <2>1, <2>2, Facts
  <2>4. ~Victim(u, Gone)
    BY <2>1, <2>2 DEF IInv, Ties, Victim
  <2> QED BY <2>1, <2>2, <2>3, <2>4
<1>2. /\ cpu' = [cpu EXCEPT !.stat[u] = "none"] /\ reaping' = Idle
      /\ UNCHANGED <<lock, clock, pc, calls, defunct>>
  BY DEF Free
<1> HIDE DEF u
<1>3. /\ cpu'.cur = cpu.cur /\ cpu'.queue = cpu.queue /\ cpu'.group = cpu.group
      /\ cpu'.stat = [cpu.stat EXCEPT ![u] = "none"] /\ cpu'.yield = cpu.yield
  BY <1>2, Facts DEF Cpu
<1>4. cpu' \in Cpu
  <2>1. cpu'.stat \in [All -> Stats]
    <3>1. cpu.stat \in [All -> Stats]
      BY Facts DEF Cpu
    <3> QED BY <1>3, <3>1 DEF Stats
  <2> QED BY <1>2, <1>3, <2>1, Facts DEF Cpu
<1>5. /\ cpu'.stat[u] = "none" /\ \A w \in All : w # u => cpu'.stat[w] = cpu.stat[w]
      /\ Core(cpu') /\ \A w \in All : On(cpu', w) <=> On(cpu, w)
  <2>1. cpu'.stat[u] = "none" /\ \A w \in All : w # u => cpu'.stat[w] = cpu.stat[w]
    BY <1>1, <1>3, Facts DEF Cpu
  <2>2. cpu'.stat[u] \notin {"ready", "running"} /\ Core(cpu)
    BY <2>1, Facts
  <2>3. Core(cpu') /\ \A w \in All : On(cpu', w) <=> On(cpu, w)
    BY <1>1, <1>3, <1>4, <2>1, <2>2, Restated
  <2> QED BY <2>1, <2>3
<1>6. Asleep' = Asleep /\ timers' = timers /\ Dead' = Dead \ {u} /\ Graves'
  <2>1. Asleep' = Asleep /\ timers' = timers /\ defunct' = defunct
    BY <1>2 DEF Asleep, clock
  <2>2. Dead' = Dead \ {u}
    BY <1>1, <1>2, <2>1, ThreadAssumption DEF Dead, u
  <2>3. ~OnList(defunct, Idle) /\ Once(defunct)
    BY ThreadAssumption DEF IInv, TypeOK, Graves, OnList
  <2> QED BY <1>2, <2>1, <2>2, <2>3 DEF Graves
<1>7. Ties(cpu', Asleep, Dead', Gone)
  <2>1. Ties(cpu, Asleep, Dead, Gone) /\ Asleep \subseteq Thread
    BY Facts DEF IInv
  <2>2. \A w \in All : cpu'.stat[w] = "ready" => On(cpu', w) \/ Victim(w, Gone)
    BY <1>5, <2>1 DEF Ties
  <2>3. \A w \in Asleep : cpu'.stat[w] = "suspend"
    BY <1>1, <1>5, <2>1 DEF Ties, All
  <2>4. \A w \in Thread : cpu'.stat[w] = "close" <=> w \in Dead'
    BY <1>5, <1>6, <2>1 DEF Ties, All
  <2>5. ASSUME NEW e \in Thread, Gone[e] # e
        PROVE  /\ Gone[e] \in Thread \ {cpu'.cur} /\ Gone[e] \notin Asleep
               /\ ~On(cpu', Gone[e])
               /\ cpu'.stat[Gone[e]] \in {"init", "ready", "suspend"}
    <3>1. Gone[e] # u
      BY <1>1, <2>5 DEF Victim
    <3> QED BY <1>3, <1>5, <2>1, <2>5, <3>1 DEF Ties, All
  <2> QED BY <2>2, <2>3, <2>4, <2>5 DEF Ties
<1>8. Deleting' /\ pc' \in [All -> Steps] /\ Gone' = Gone /\ Work' = Work
  BY <1>2, SameCalls
<1>9. Core(cpu)' /\ Ties(cpu, Asleep, Dead, Gone)' /\ Owed(cpu, Asleep, timers, lock, Work)'
  <2>1. Owed(cpu, Asleep, timers, lock, Work)
    BY DEF IInv
  <2>2. \A w \in All : cpu.stat[w] \notin {"none", "close"} => cpu'.stat[w] = cpu.stat[w]
    BY <1>1, <1>5
  <2>3. Work.fresh \in SUBSET Thread /\ Work.marked \in SUBSET Thread
    BY Facts
  <2>4. Owed(cpu', Asleep, timers, lock, Work)
    BY <1>3, <1>5, <2>1, <2>2, <2>3, SameOwed
  <2> QED BY <1>2, <1>5, <1>6, <1>7, <1>8, <2>4 DEF Core, Queues, Ties, Owed, Keeps, On
<1>10. Going' /\ MostUrgentRuns'
  BY <1>1, <1>2, <1>3, <1>5, Facts DEF IInv, Going, MostUrgentRuns
<1>11. TypeOK'
  <2>1. Idle \in All
    BY DEF All
  <2> QED BY <1>2, <1>4, <1>8, <2>1 DEF IInv, TypeOK, Cpu, clock, calls
<1> QED BY <1>6, <1>8, <1>9, <1>10, <1>11 DEF IInv

\* rt_tick_increase.
LEMMA TickStep ==
  ASSUME IInv, Tick
  PROVE  IInv'
<1> DEFINE t == cpu.cur
           c == [cpu EXCEPT !.yield[t] = TRUE]
<1>1. t \in All /\ cpu \in Cpu /\ Core(cpu)
  BY Facts
<1>2. /\ c.cur = cpu.cur /\ c.stat = cpu.stat /\ c.queue = cpu.queue /\ c.group = cpu.group
      /\ c.yield = [cpu.yield EXCEPT ![t] = TRUE]
  BY <1>1 DEF Cpu
<1>3. /\ Asleep' = Asleep /\ Dead' = Dead /\ Graves' /\ UNCHANGED <<lock, timers, listed, pc, grave>>
      /\ Deleting' /\ Gone' = Gone /\ Work' = Work
  BY SameGraves, SameCalls DEF Tick, Asleep, grave
<1>4. /\ cpu' \in Cpu /\ Core(cpu)' /\ Ties(cpu, Asleep, Dead, Gone)'
      /\ Owed(cpu, Asleep, timers, lock, Work)' /\ Going' /\ MostUrgentRuns'
  <2>1. CASE SliceOver(t)
    <3>1. cpu' = Schedule(c)
      BY <2>1 DEF Tick
    <3>2. c \in Cpu
      <4>1. c.yield \in [All -> BOOLEAN]
        BY <1>1, <1>2 DEF Cpu
      <4> HIDE DEF c
      <4>2. c.cur \in All /\ c.stat \in [All -> Stats] /\ c.queue \in [Priority -> Seq(All)]
            /\ c.group \in SUBSET Priority
        BY <1>1, <1>2 DEF Cpu
      <4> QED BY <1>1, <4>1, <4>2 DEF Cpu, c
    <3> HIDE DEF c, t
    <3>3. Core(c)
      BY <1>1, <1>2, <3>2 DEF Core, Queues, On
    <3>4. Ties(c, Asleep', Dead', Gone') /\ Owed(c, Asleep', timers', lock, Work')
      BY <1>2, <1>3 DEF IInv, Ties, Owed, Keeps, On
    <3>5. /\ Asleep' \in SUBSET Thread /\ Gone' \in [All -> All] /\ lock' = lock
          /\ Work'.fresh \in SUBSET Thread /\ Work'.marked \in SUBSET Thread
      BY <1>3, Facts
    <3>6. lock \in Nat /\ (lock # 0 => c.stat[c.cur] = "running")
      BY <1>2, Facts
    <3> QED BY <3>1, <3>3, <3>4, <3>5, <3>6, AfterSchedule
  <2>2. CASE ~SliceOver(t)
    <3>1. cpu' = cpu
      BY <2>2 DEF Tick
    <3>2. /\ Core(cpu)' /\ Ties(cpu, Asleep, Dead, Gone)' /\ cpu' \in Cpu
          /\ Owed(cpu, Asleep, timers, lock, Work)'
      BY <1>1, <1>3, <3>1 DEF IInv, Core, Queues, Ties, Owed, Keeps, On
    <3>3. Going' /\ MostUrgentRuns'
      BY <1>3, <3>1 DEF IInv, Going, MostUrgentRuns
    <3> QED BY <3>2, <3>3
  <2> QED BY <2>1, <2>2
<1>6. slice' \in [All -> Nat] /\ \A u \in All : slice'[u] \in 1..Slice[u]
  <2>1. /\ Slice[t] \in Nat \ {0} /\ slice \in [All -> Nat]
        /\ \A u \in All : slice[u] \in 1..Slice[u]
    BY <1>1, ThreadAssumption DEF IInv, TypeOK, All
  <2>2. \/ slice' = [slice EXCEPT ![t] = Slice[t]]
        \/ slice[t] - 1 # 0 /\ slice' = [slice EXCEPT ![t] = @ - 1]
    BY DEF Tick, SliceOver
  <2> HIDE DEF t
  <2>3. slice[t] \in 1..Slice[t]
    BY <1>1, <2>1
  <2> QED BY <1>1, <2>1, <2>2, <2>3
<1>7. wait' \in [All -> 0..MaxSleep]
  <2>1. ASSUME NEW u \in All
        PROVE  (IF u \in timers THEN wait[u] - 1 ELSE wait[u]) \in 0..MaxSleep
    <3>1. wait[u] \in 0..MaxSleep /\ (u \in timers => wait[u] # 0) /\ MaxSleep \in Nat
      BY ThreadAssumption DEF IInv, TypeOK, Tick, Due
    <3> QED BY <3>1
  <2>2. wait' = [u \in All |-> IF u \in timers THEN wait[u] - 1 ELSE wait[u]]
    BY DEF Tick
  <2> QED BY <2>1, <2>2
<1>8. TypeOK'
  BY <1>3, <1>4, <1>6, <1>7 DEF IInv, TypeOK, Cpu, grave, calls
<1> QED BY <1>3, <1>4, <1>8 DEF IInv

-----------------------------------------------------------------------------
LEMMA NextIInv == IInv /\ Races = {} /\ [Next]_vars => IInv'
<1> SUFFICES ASSUME IInv, Races = {}, [Next]_vars PROVE IInv'
  OBVIOUS
<1>1. ASSUME NEW t \in Thread, Kernel(t) PROVE IInv'
  <2>1. CASE Switch(t)
    BY <2>1, SwitchStep
  <2>2. CASE Yield(t) \/ EnterCritical(t) \/ ExitCritical(t)
    BY <2>2, LockStep
  <2>3. CASE Exit(t)
    BY <2>3, ExitStep
  <2>4. CASE Starts(t)
    BY <2>4, StartMarkStep, StartOnStep, StartInsertStep DEF Starts
  <2>5. CASE Deletes(t)
    BY <2>5, DeleteOnStep, DeleteTimerStep, DeleteEndStep DEF Deletes
  <2>6. ASSUME NEW n \in 0..MaxSleep, Sleep(t, n) \/ Wait(t, n) PROVE IInv'
    BY <2>6, SleepStep
  <2>7. ASSUME NEW u \in Thread, Create(t, u) PROVE IInv'
    BY <2>7, CreateStep
  <2>8. ASSUME NEW u \in Thread, Startup(t, u) PROVE IInv'
    BY <2>8, StartupStep
  <2>9. ASSUME NEW u \in Thread, WakeByThread(t, u) PROVE IInv'
    BY <2>9, WakeByThreadStep
  <2>10. ASSUME NEW u \in Thread, Delete(t, u) PROVE IInv'
    BY <2>10, DeleteStep
  <2> QED BY <1>1, <2>1, <2>2, <2>3, <2>4, <2>5, <2>6, <2>7, <2>8, <2>9, <2>10 DEF Kernel
<1>2. CASE Reap
  BY <1>2, ReapStep
<1>3. CASE Free
  BY <1>3, FreeStep
<1>4. ASSUME NEW u \in Thread, WakeByInterrupt(u) PROVE IInv'
  BY <1>4, WakeByInterruptStep
<1>5. ASSUME NEW u \in Thread, Timeout(u) PROVE IInv'
  BY <1>5, TimeoutStep
<1>6. CASE Tick
  BY <1>6, TickStep
<1>7. CASE UNCHANGED vars
  <2>1. /\ UNCHANGED <<cpu, lock, slice, timers, wait, listed, pc, calls, defunct, reaping>>
    BY <1>7 DEF vars, clock, grave
  <2>2. /\ Asleep' = Asleep /\ Dead' = Dead
        /\ Deleting' /\ pc' \in [All -> Steps] /\ Gone' = Gone /\ Work' = Work
    BY <2>1, SameCalls DEF Asleep, Dead
  <2>3. /\ Core(cpu)' /\ Ties(cpu, Asleep, Dead, Gone)'
        /\ Owed(cpu, Asleep, timers, lock, Work)'
    BY <2>1, <2>2 DEF IInv, Core, Queues, Ties, Owed, Keeps, On
  <2>4. TypeOK' /\ Going' /\ Graves' /\ MostUrgentRuns'
    BY <2>1 DEF IInv, TypeOK, Going, Graves, MostUrgentRuns, calls
  <2> QED BY <2>2, <2>3, <2>4 DEF IInv
<1> QED BY <1>1, <1>2, <1>3, <1>4, <1>5, <1>6, <1>7 DEF Next

LEMMA IInvInPlace == IInv => InPlace
<1> SUFFICES ASSUME IInv PROVE InPlace
  OBVIOUS
<1>1. Queues(cpu) /\ Core(cpu) /\ Ties(cpu, Asleep, Dead, Gone)
  BY Facts DEF IInv
<1>2. \A p \in Priority :
        /\ p \in cpu.group <=> cpu.queue[p] # <<>>
        /\ Once(cpu.queue[p])
        /\ \A t \in All : OnList(cpu.queue[p], t) =>
              Prio[t] = p /\ cpu.stat[t] = "ready" /\ t # cpu.cur
  BY <1>1 DEF Queues, Core
<1>3. \A t \in All : cpu.stat[t] = "ready" => OnList(cpu.queue[Prio[t]], t) \/ TakenOff(t)
  <2>1. \A t \in All : Victim(t, Gone) => TakenOff(t)
    BY DEF Victim, Gone, TakenOff, All
  <2> QED BY <1>1, <2>1 DEF Ties, On
<1>4. \A t \in All : cpu.stat[t] = "running" => t = cpu.cur
  BY <1>1 DEF Core
<1>5. \A t \in timers \cup listed : cpu.stat[t] = "suspend"
  BY <1>1 DEF Ties, Asleep
<1>6. Once(defunct) /\ ~OnList(defunct, reaping)
  BY DEF IInv, Graves
<1>7. \A t \in Thread :
        /\ OnList(defunct, t) \/ reaping = t => cpu.stat[t] = "close"
        /\ cpu.stat[t] = "close" => OnList(defunct, t) \/ reaping = t \/ TakenOff(t)
  BY <1>1 DEF Ties, Dead
<1> QED BY <1>2, <1>3, <1>4, <1>5, <1>6, <1>7 DEF InPlace

LEMMA Invariance ==
  ASSUME Races = {}
  PROVE  Spec => []IInv
<1>1. IInv /\ [Next]_vars => IInv'
  BY NextIInv
<1> QED BY <1>1, InitIInv, PTL DEF Spec

\* As long as callers keep the rules of start and deletion: whatever calls,
\* ticks, time-outs and deaths come in whatever order, every variable of the
\* scheduler keeps its type, and no slice is ever used up and not renewed.
THEOREM TypesHold ==
  ASSUME Races = {}
  PROVE  Spec => []TypeOK
<1>1. IInv => TypeOK
  BY DEF IInv
<1> QED BY <1>1, Invariance, PTL

\* As long as callers keep the rules of start and deletion: between any two
\* regions of starts, deletions and other calls the list node of every thread is
\* in the one list its state names, once, or in none; no ready queue, list of an
\* IPC object or rt_thread_defunct is ever corrupted.
THEOREM EveryThreadInPlace ==
  ASSUME Races = {}
  PROVE  Spec => []InPlace
<1> QED BY IInvInPlace, Invariance, PTL

\* rt_schedule is called after everything that can make it necessary: unless
\* the scheduler is locked or about to be called, the current thread can run
\* and is as urgent as any that can.
THEOREM UrgentThreadRuns ==
  ASSUME Races = {}
  PROVE  Spec => []MostUrgentRuns
<1>1. IInv => MostUrgentRuns
  BY DEF IInv
<1> QED BY <1>1, Invariance, PTL

-----------------------------------------------------------------------------
(***************************************************************************)
(* What EqualsTakeTurns rests on: equals get the processor in the order in *)
(* which they came into their ready queue, and a turn comes to an end.     *)
(***************************************************************************)
Precedes(q, a, b) == \E i, j \in 1..Len(q) : i < j /\ q[i] = a /\ q[j] = b

\* Of two queued threads of b's priority, a gets the processor first.
Before(c, a, b) == Precedes(c.queue[Prio[b]], a, b)

\* Nobody who stays in a queue is overtaken between two scheduler states.
Follows(c, d) ==
    \A b \in All : On(c, b) /\ On(d, b) =>
        \A a \in All : Before(d, a, b) => Before(c, a, b)

\* And the processor goes from one to another of them in the queue's order.
InTurn(c, d) ==
    /\ Follows(c, d)
    /\ \A b \in All : On(c, b) /\ On(d, b) =>
          (d.cur # c.cur /\ Prio[d.cur] = Prio[b] => Before(c, d.cur, b))

NobodyIsOvertaken == [][InTurn(cpu, cpu')]_vars

\* While equals are queued and nobody has locked the scheduler, each tick takes
\* one from the turn of the current thread, and nothing gives one back.
TurnsEnd ==
    [][cpu'.cur = cpu.cur /\ lock = 0 /\ cpu.queue[Prio[cpu.cur]] # <<>> =>
          /\ slice'[cpu.cur] <= slice[cpu.cur]
          /\ Tick => slice'[cpu.cur] < slice[cpu.cur]]_vars

LEMMA WithoutOrder ==
  ASSUME NEW q \in Seq(All), Once(q), NEW t \in All, NEW a, NEW b, Precedes(Without(q, t), a, b)
  PROVE  Precedes(q, a, b)
<1>1. CASE ~OnList(q, t)
  BY <1>1 DEF Without
<1>2. CASE OnList(q, t)
  <2> DEFINE k == CHOOSE i \in 1..Len(q) : q[i] = t
             w == Without(q, t)
             m(l) == IF l < k THEN l ELSE l + 1
  <2>1. k \in 1..Len(q) /\ Len(q) \in Nat
    BY <1>2 DEF OnList
  <2>2. w = [i \in 1..Len(q) - 1 |-> IF i < k THEN q[i] ELSE q[i + 1]]
    BY <1>2 DEF Without
  <2> HIDE DEF k, w
  <2>3. Len(w) = Len(q) - 1 /\ \A i \in 1..Len(q) - 1 : w[i] = q[m(i)]
    <3>1. Len(q) - 1 \in Nat
      BY <2>1
    <3>2. \A i \in 1..Len(q) - 1 : w[i] = q[m(i)]
      BY <2>2
    <3> QED BY <2>2, <3>1, <3>2
  <2>4. PICK i, j \in 1..Len(q) - 1 : i < j /\ w[i] = a /\ w[j] = b
    BY <2>3 DEF Precedes, w
  <2>5. m(i) \in 1..Len(q) /\ m(j) \in 1..Len(q) /\ m(i) < m(j)
    BY <2>1, <2>4
  <2>6. q[m(i)] = a /\ q[m(j)] = b
    BY <2>3, <2>4
  <2> HIDE DEF m
  <2> QED BY <2>5, <2>6 DEF Precedes
<1> QED BY <1>1, <1>2

LEMMA AppendOrder ==
  ASSUME NEW q \in Seq(All), NEW t \in All, ~OnList(q, t), NEW a, NEW b, b # t,
         Precedes(Append(q, t), a, b)
  PROVE  Precedes(q, a, b)
<1> DEFINE w == Append(q, t)
<1>1. /\ Len(q) \in Nat /\ Len(w) = Len(q) + 1
      /\ \A i \in 1..Len(q) : w[i] = q[i]
      /\ w[Len(q) + 1] = t
  OBVIOUS
<1>2. PICK i, j \in 1..Len(w) : i < j /\ w[i] = a /\ w[j] = b
  BY DEF Precedes
<1> HIDE DEF w
<1>3. i \in 1..Len(q) /\ j \in 1..Len(q)
  BY <1>1, <1>2
<1> QED BY <1>1, <1>2, <1>3 DEF Precedes

\* rt_schedule_insert_thread puts a thread behind those of its priority.
LEMMA InsertOrder ==
  ASSUME NEW c, Queues(c), NEW t \in All, c.stat[t] # "ready"
  PROVE  Follows(c, Insert(c, t)) /\ \A u \in All : On(c, u) => On(Insert(c, t), u)
<1> DEFINE d == Insert(c, t)
           q == c.queue[Prio[t]]
<1>1. c \in Cpu /\ Prio[t] \in Priority /\ q \in Seq(All) /\ ~OnList(q, t)
  BY DEF Queues, Priority, Cpu
<1>2. CASE t = c.cur
  <2>1. d.queue = c.queue
    BY <1>1, <1>2 DEF Insert, Cpu
  <2> QED BY <2>1 DEF Follows, Before, On
<1>3. CASE t # c.cur
  <2>1. d.queue = [c.queue EXCEPT ![Prio[t]] = Append(q, t)]
    BY <1>1, <1>3 DEF Insert, Cpu
  <2>2. \A u \in All : On(d, u) <=> On(c, u) \/ u = t
    BY <1>3, InsertQueues
  <2> HIDE DEF d
  <2>3. ASSUME NEW b \in All, On(c, b), NEW a \in All, Before(d, a, b)
        PROVE  Before(c, a, b)
    <3>1. Prio[b] \in Priority /\ b # t
      BY <1>1, <2>3 DEF Priority, On
    <3>2. CASE Prio[b] = Prio[t]
      <4>1. Precedes(Append(q, t), a, b)
        BY <1>1, <2>1, <2>3, <3>2 DEF Before, Cpu
      <4>2. Precedes(q, a, b)
        BY <1>1, <3>1, <4>1, AppendOrder
      <4> QED BY <3>2, <4>2 DEF Before
    <3>3. CASE Prio[b] # Prio[t]
      BY <1>1, <2>1, <2>3, <3>1, <3>3 DEF Before, Cpu
    <3> QED BY <3>2, <3>3
  <2> QED BY <2>2, <2>3 DEF Follows, d
<1> QED BY <1>2, <1>3

\* rt_schedule_remove_thread leaves the others in their order.
LEMMA RemoveOrder ==
  ASSUME NEW c, Queues(c), NEW t \in All
  PROVE  Follows(c, Remove(c, t))
<1> DEFINE d == Remove(c, t)
           q == c.queue[Prio[t]]
<1>1. c \in Cpu /\ Prio[t] \in Priority /\ q \in Seq(All) /\ Once(q)
  BY DEF Queues, Priority, Cpu
<1>2. d.queue = [c.queue EXCEPT ![Prio[t]] = Without(q, t)]
  BY <1>1 DEF Remove, Cpu
<1> HIDE DEF d
<1>3. ASSUME NEW b \in All, NEW a \in All, Before(d, a, b)
      PROVE  Before(c, a, b)
  <2>1. Prio[b] \in Priority
    BY DEF Priority
  <2>2. CASE Prio[b] = Prio[t]
    <3>1. Precedes(Without(q, t), a, b)
      BY <1>1, <1>2, <1>3, <2>2 DEF Before, Cpu
    <3>2. Precedes(q, a, b)
      BY <1>1, <3>1, WithoutOrder
    <3> QED BY <2>2, <3>2 DEF Before
  <2>3. CASE Prio[b] # Prio[t]
    BY <1>1, <1>2, <1>3, <2>1, <2>3 DEF Before, Cpu
  <2> QED BY <2>2, <2>3
<1> QED BY <1>3 DEF Follows, d

\* Order survives two changes if nobody leaves in the first.
LEMMA FollowsOn ==
  ASSUME NEW c, NEW d, NEW e, Follows(c, d), Follows(d, e), \A u \in All : On(c, u) => On(d, u)
  PROVE  Follows(c, e)
BY DEF Follows

\* Whoever loses the processor and can run goes behind its equals.
LEMMA SwitchOrder ==
  ASSUME NEW c, Core(c), NEW to \in All, to # c.cur
  PROVE  Follows(c, SwitchTo(c, to))
<1>1. Queues(c) /\ c \in Cpu /\ c.cur \in All
  BY DEF Core, Queues, Cpu
<1> DEFINE b == [c EXCEPT !.cur = to, !.yield[c.cur] = FALSE]
           e == [c EXCEPT !.cur = to]
           o == IF c.stat[c.cur] = "running" THEN Insert(b, c.cur) ELSE e
           r == Remove(o, to)
           d == SwitchTo(c, to)
<1>2. /\ b \in Cpu /\ b.cur = to /\ b.stat = c.stat /\ b.queue = c.queue /\ b.group = c.group
      /\ e \in Cpu /\ e.cur = to /\ e.stat = c.stat /\ e.queue = c.queue /\ e.group = c.group
  BY <1>1 DEF Cpu
<1> HIDE DEF b, e
<1>3. Queues(b) /\ Queues(e)
  BY <1>1, <1>2 DEF Queues
<1>4. Queues(o) /\ Follows(c, o) /\ \A u \in All : On(c, u) => On(o, u)
  <2>1. CASE c.stat[c.cur] = "running"
    <3>1. b.stat[c.cur] # "ready" /\ c.cur # b.cur
      BY <1>2, <2>1
    <3>2. Queues(Insert(b, c.cur))
      BY <1>1, <1>3, <3>1, InsertQueues
    <3>3. Follows(b, Insert(b, c.cur)) /\ \A u \in All : On(b, u) => On(Insert(b, c.cur), u)
      BY <1>1, <1>3, <3>1, InsertOrder
    <3> QED BY <1>2, <2>1, <3>2, <3>3 DEF Follows, Before, On
  <2>2. CASE c.stat[c.cur] # "running"
    BY <1>2, <1>3, <2>2 DEF Follows, Before, On
  <2> QED BY <2>1, <2>2
<1>5. d = [r EXCEPT !.stat[to] = "running"]
  BY DEF SwitchTo, b, e
<1> HIDE DEF o
<1>6. Queues(r) /\ Follows(o, r)
  BY <1>4, RemoveQueues, RemoveOrder
<1> HIDE DEF r, d
<1>7. d.queue = r.queue
  BY <1>5, <1>6 DEF Queues, Cpu
<1>8. Follows(c, r)
  BY <1>4, <1>6, FollowsOn
<1> QED BY <1>7, <1>8 DEF Follows, Before, On, d

\* rt_schedule takes the first of a queue and overtakes nobody.
LEMMA ScheduleInTurn ==
  ASSUME NEW c, Core(c)
  PROVE  InTurn(c, Schedule(c))
<1>1. c \in Cpu /\ Queues(c)
  BY DEF Core, Queues
<1>2. CASE Schedule(c) = c
  BY <1>2 DEF InTurn, Follows
<1>3. CASE Schedule(c) # c
  <2> DEFINE h == Highest(c)
             to == Head(c.queue[h])
             d == SwitchTo(c, to)
  <2>1. Schedule(c) = d /\ c.group # {}
    BY <1>3 DEF Schedule
  <2>2. h \in c.group /\ to \in All /\ Prio[to] = h /\ On(c, to) /\ c.stat[to] = "ready"
    BY <1>1, <2>1, HighestIsUrgent
  <2>3. to # c.cur
    BY <2>2 DEF Core
  <2>4. to = Head(c.queue[Prio[to]]) /\ c.queue[Prio[to]] \in Seq(All)
    BY <1>1, <2>2 DEF Cpu
  <2> HIDE DEF h, to
  <2>5. d.cur = to /\ \A u \in All : On(d, u) => u # to
    <3>1. /\ d.cur = to
          /\ \A u \in All : On(d, u) <=>
                (On(c, u) \/ (u = c.cur /\ c.stat[c.cur] = "running")) /\ u # to
      BY <2>2, SwitchEffect
    <3> HIDE DEF d
    <3> QED BY <3>1
  <2>6. Follows(c, d)
    BY <2>2, <2>3, SwitchOrder
  <2> HIDE DEF d
  <2>7. ASSUME NEW b \in All, On(c, b), On(d, b), Prio[to] = Prio[b]
        PROVE  Before(c, to, b)
    <3> DEFINE q == c.queue[Prio[b]]
    <3>1. q \in Seq(All) /\ to = Head(q) /\ b # to /\ OnList(q, b)
      BY <2>4, <2>5, <2>7 DEF On
    <3> HIDE DEF q
    <3>2. PICK i \in 1..Len(q) : q[i] = b
      BY <3>1 DEF OnList
    <3>3. 1 \in 1..Len(q) /\ q[1] = to /\ 1 < i
      BY <3>1, <3>2
    <3>4. Precedes(q, to, b)
      BY <3>2, <3>3 DEF Precedes
    <3> QED BY <3>4 DEF Before, q
  <2> QED BY <2>1, <2>5, <2>6, <2>7 DEF InTurn
<1> QED BY <1>2, <1>3

\* A call of rt_schedule after threads were put behind their equals.
LEMMA ScheduledInTurn ==
  ASSUME NEW c, NEW d, Core(d), d.cur = c.cur, Follows(c, d), \A u \in All : On(c, u) => On(d, u)
  PROVE  InTurn(c, Schedule(d))
<1> DEFINE e == Schedule(d)
<1>1. InTurn(d, e)
  BY ScheduleInTurn
<1>2. e.cur \in All
  <2>1. d.cur \in All /\ Queues(d)
    BY DEF Core, Queues, Cpu
  <2>2. CASE e = d
    BY <2>1, <2>2
  <2>3. CASE e # d
    <3> DEFINE to == Head(d.queue[Highest(d)])
    <3>1. d.group # {} /\ e = SwitchTo(d, to)
      BY <2>3 DEF Schedule
    <3>2. to \in All /\ On(d, to) /\ d.stat[to] = "ready"
      BY <2>1, <3>1, HighestIsUrgent
    <3> HIDE DEF to
    <3>3. SwitchTo(d, to).cur = to
      BY <3>2, SwitchEffect
    <3> QED BY <3>1, <3>2, <3>3
  <2> QED BY <2>2, <2>3
<1> HIDE DEF e
<1>3. Follows(c, e)
  BY <1>1, FollowsOn DEF InTurn
<1>4. ASSUME NEW b \in All, On(c, b), On(e, b), e.cur # c.cur, Prio[e.cur] = Prio[b]
      PROVE  Before(c, e.cur, b)
  <2>1. On(d, b) /\ Before(d, e.cur, b)
    BY <1>1, <1>4 DEF InTurn
  <2> QED BY <1>2, <1>4, <2>1 DEF Follows
<1> QED BY <1>3, <1>4 DEF InTurn, e

LEMMA QueuesKept ==
  ASSUME cpu'.queue = cpu.queue, cpu'.cur = cpu.cur
  PROVE  InTurn(cpu, cpu')
BY DEF InTurn, Follows, Before, On

LEMMA StepInTurn ==
  ASSUME IInv, [Next]_vars
  PROVE  InTurn(cpu, cpu')
<1>1. cpu \in Cpu /\ Queues(cpu) /\ Core(cpu) /\ \A t \in Thread : t \in All
  BY Facts DEF All
<1>2. ASSUME NEW u \in All, cpu.stat[u] # "ready", cpu' = Insert(cpu, u)
      PROVE  InTurn(cpu, cpu')
  <2>1. Insert(cpu, u).cur = cpu.cur
    BY <1>1 DEF Insert, Cpu
  <2> QED BY <1>1, <1>2, <2>1, InsertOrder DEF InTurn
<1>3. ASSUME NEW u \in Asleep, cpu' = Schedule(Insert(cpu, u)) PROVE InTurn(cpu, cpu')
  <2>1. u \in Thread /\ cpu.stat[u] = "suspend" /\ ~Victim(u, Gone)
    BY AsleepIsSafe
  <2>2. Core(Insert(cpu, u)) /\ Insert(cpu, u).cur = cpu.cur
    BY <2>1, Inserted
  <2>3. Follows(cpu, Insert(cpu, u)) /\ \A t \in All : On(cpu, t) => On(Insert(cpu, u), t)
    BY <1>1, <2>1, InsertOrder
  <2> QED BY <1>3, <2>2, <2>3, ScheduledInTurn
<1>4. ASSUME NEW t \in Thread, Kernel(t) PROVE InTurn(cpu, cpu')
  <2>1. CASE Switch(t)
    BY <1>1, <2>1, ScheduleInTurn DEF Switch
  <2>2. CASE Yield(t) \/ EnterCritical(t) \/ ExitCritical(t)
    BY <2>2, QueuesKept DEF Yield, EnterCritical, ExitCritical
  <2>3. CASE Deletes(t)
    <3>1. CASE DeleteLook(t) \/ DeleteTimer(t)
      BY <3>1, QueuesKept DEF DeleteLook, DeleteTimer
    <3>2. CASE DeleteEnd(t)
      BY <1>1, <3>2, QueuesKept DEF DeleteEnd, Cpu
    <3>3. CASE DeleteRemove(t)
      <4>1. cpu' = Remove(cpu, victim[t]) /\ victim[t] \in All
        BY <1>1, <3>3, Facts DEF DeleteRemove
      <4> QED BY <1>1, <4>1, RemoveQueues, RemoveOrder DEF InTurn
    <3> QED BY <2>3, <3>1, <3>2, <3>3 DEF Deletes
  <2>9. CASE Starts(t)
    <3>1. CASE StartMark(t)
      BY <1>1, <3>1, QueuesKept DEF StartMark, Cpu
    <3>2. CASE StartCheck(t)
      BY <3>2, QueuesKept DEF StartCheck
    <3>3. CASE StartUnlink(t)
      <4>1. pc[t] \in StartSteps /\ cpu.cur = t
        BY <3>3 DEF StartUnlink, Goes, StartSteps
      <4>2. ~On(cpu, starts[t])
        BY <4>1, StartFacts
      <4>3. cpu' = [cpu EXCEPT !.queue[Prio[starts[t]]] = cpu.queue[Prio[starts[t]]]]
        BY <3>3, <4>2 DEF StartUnlink, Without, On
      <4> QED BY <1>1, <4>3, QueuesKept DEF Cpu
    <3>4. CASE StartInsert(t)
      <4>1. pc[t] = "insert" /\ pc[t] \in StartSteps /\ cpu.cur = t
        BY <3>4 DEF StartInsert, Goes, StartSteps
      <4>2. starts[t] \in All /\ cpu.stat[starts[t]] # "ready"
        BY <4>1, StartFacts
      <4> QED BY <1>2, <3>4, <4>2 DEF StartInsert
    <3> QED BY <2>9, <3>1, <3>2, <3>3, <3>4 DEF Starts
  <2>4. CASE Exit(t)
    <3>1. PICK d \in Cpu :
             /\ cpu' = Schedule(d) /\ Core(d)
             /\ d.cur = t /\ d.queue = Remove(cpu, t).queue
             /\ \A u \in All : On(d, u) <=> On(cpu, u) /\ u # t
      BY <2>4, ExitEffect
    <3>2. cpu.cur = t /\ ~On(cpu, t)
      BY <1>1, <2>4, Facts DEF Exit, Runs, Core
    <3>3. Follows(cpu, d)
      BY <1>1, <3>1, RemoveOrder DEF Follows, Before, On
    <3> QED BY <3>1, <3>2, <3>3, ScheduledInTurn
  <2>5. ASSUME NEW n \in 0..MaxSleep, Sleep(t, n) \/ Wait(t, n) PROVE InTurn(cpu, cpu')
    <3>1. cpu' = [Remove(cpu, t) EXCEPT !.stat[t] = "suspend"]
      BY <2>5 DEF Sleep, Wait, Suspend
    <3>2. Queues(Remove(cpu, t)) /\ Remove(cpu, t).cur = cpu.cur /\ Follows(cpu, Remove(cpu, t))
      BY <1>1, RemoveQueues, RemoveOrder
    <3>3. cpu'.queue = Remove(cpu, t).queue /\ cpu'.cur = cpu.cur
      BY <3>1, <3>2 DEF Queues, Cpu
    <3> QED BY <3>2, <3>3 DEF InTurn, Follows, Before, On
  <2>6. ASSUME NEW u \in Thread, Create(t, u) PROVE InTurn(cpu, cpu')
    BY <1>1, <2>6, QueuesKept DEF Create, Cpu
  <2>7. ASSUME NEW u \in Thread, WakeByThread(t, u) PROVE InTurn(cpu, cpu')
    <3>1. cpu.stat[u] # "ready"
      BY <2>7, AsleepIsSafe DEF WakeByThread, Resume, Asleep
    <3> QED BY <1>1, <1>2, <2>7, <3>1 DEF WakeByThread
  <2>8. ASSUME NEW u \in Thread, Startup(t, u) \/ Delete(t, u) PROVE InTurn(cpu, cpu')
    BY <2>8, QueuesKept DEF Startup, Delete
  <2> QED BY <1>4, <2>1, <2>2, <2>3, <2>4, <2>5, <2>6, <2>7, <2>8, <2>9 DEF Kernel
<1>5. CASE Reap
  BY <1>1, <1>5, ScheduleInTurn DEF Reap
<1>6. CASE Free
  BY <1>1, <1>6, QueuesKept DEF Free, Cpu
<1>7. ASSUME NEW u \in Thread, WakeByInterrupt(u) \/ Timeout(u) PROVE InTurn(cpu, cpu')
  BY <1>3, <1>7 DEF WakeByInterrupt, Timeout, Resume, Asleep
<1>8. CASE Tick
  <2> DEFINE c == [cpu EXCEPT !.yield[cpu.cur] = TRUE]
  <2>1. CASE cpu' = Schedule(c)
    <3>1. /\ c.cur = cpu.cur /\ c.stat = cpu.stat /\ c.queue = cpu.queue /\ c.group = cpu.group
          /\ c \in Cpu
      BY <1>1 DEF Cpu
    <3> HIDE DEF c
    <3>2. Core(c) /\ Follows(cpu, c) /\ \A u \in All : On(cpu, u) => On(c, u)
      BY <1>1, <3>1 DEF Core, Queues, Follows, Before, On
    <3> QED BY <2>1, <3>1, <3>2, ScheduledInTurn
  <2>2. CASE cpu' = cpu
    BY <2>2, QueuesKept
  <2> QED BY <1>8, <2>1, <2>2 DEF Tick
<1>9. CASE UNCHANGED vars
  BY <1>9, QueuesKept DEF vars
<1> QED BY <1>4, <1>5, <1>6, <1>7, <1>8, <1>9 DEF Next

\* The tick is all that counts a slice down, and a thread gets a new one at the
\* end of the old or when it is created.
LEMMA WhoseSliceChanges ==
  ASSUME [Next]_vars
  PROVE  slice' = slice \/ Tick \/ \E t, u \in Thread : Create(t, u)
BY DEF Next, Kernel, vars, clock, Switch, Yield, EnterCritical, ExitCritical, Exit, Sleep, Wait,
       Suspend, Startup, Starts, StartMark, StartCheck, StartUnlink, StartInsert, Delete, Deletes,
       DeleteLook, DeleteRemove, DeleteTimer, DeleteEnd, WakeByThread, Resume, Reap, Free,
       WakeByInterrupt, Timeout

LEMMA TickTakesOne ==
  ASSUME IInv, Tick, cpu'.cur = cpu.cur, lock = 0, cpu.queue[Prio[cpu.cur]] # <<>>
  PROVE  slice'[cpu.cur] < slice[cpu.cur]
<1> DEFINE t == cpu.cur
           c == [cpu EXCEPT !.yield[t] = TRUE]
<1>1. /\ t \in All /\ cpu \in Cpu /\ Queues(cpu) /\ Core(cpu)
      /\ slice \in [All -> Nat] /\ Prio[t] \in Priority
  BY Facts DEF IInv, TypeOK, Priority
<1>2. CASE SliceOver(t)
  <2>1. /\ c.cur = t /\ c.stat = cpu.stat /\ c.queue = cpu.queue /\ c.group = cpu.group
        /\ c.yield[t] /\ c \in Cpu
    BY <1>1 DEF Cpu
  <2>2. cpu' = Schedule(c)
    BY <1>2 DEF Tick
  <2> HIDE DEF c
  <2>3. Core(c) /\ Queues(c)
    BY <1>1, <2>1 DEF Core, Queues, On
  <2>4. Prio[t] \in c.group
    BY <1>1, <2>1 DEF Queues
  <2> DEFINE to == Head(c.queue[Highest(c)])
  <2>5. /\ Highest(c) \in c.group /\ Highest(c) <= Prio[t]
        /\ to \in All /\ On(c, to) /\ c.stat[to] = "ready"
    BY <2>3, <2>4, HighestIsUrgent
  <2>6. ~Stays(c)
    <3>1. Highest(c) \in Nat /\ Prio[t] \in Nat
      BY <2>3, <2>4, <2>5, ThreadAssumption DEF Queues, Cpu, Priority, All
    <3> QED BY <2>1, <2>5, <3>1 DEF Stays
  <2>7. Schedule(c) = SwitchTo(c, to)
    BY <2>4, <2>6 DEF Schedule
  <2> HIDE DEF to
  <2>8. SwitchTo(c, to).cur # c.cur
    <3>1. to # c.cur
      BY <2>3, <2>5 DEF Core
    <3>2. SwitchTo(c, to).cur = to
      BY <2>3, <2>5, SwitchEffect
    <3> QED BY <3>1, <3>2
  <2> QED BY <2>1, <2>2, <2>7, <2>8
<1>3. CASE ~SliceOver(t)
  <2>1. slice' = [slice EXCEPT ![t] = @ - 1]
    BY <1>3 DEF Tick
  <2> QED BY <1>1, <2>1
<1> QED BY <1>2, <1>3

LEMMA TurnGoesOn ==
  ASSUME IInv, [Next]_vars, cpu'.cur = cpu.cur, lock = 0, cpu.queue[Prio[cpu.cur]] # <<>>
  PROVE  /\ slice'[cpu.cur] <= slice[cpu.cur]
         /\ Tick => slice'[cpu.cur] < slice[cpu.cur]
<1>1. cpu.cur \in All /\ slice \in [All -> Nat]
  BY Facts DEF IInv, TypeOK
<1>2. CASE Tick
  <2>1. slice'[cpu.cur] < slice[cpu.cur]
    BY <1>2, TickTakesOne
  <2>2. slice'[cpu.cur] \in Int /\ slice[cpu.cur] \in Int
    <3>1. Slice[cpu.cur] \in Nat
      BY <1>1, ThreadAssumption DEF All
    <3> QED BY <1>1, <1>2, <3>1 DEF Tick
  <2> QED BY <2>1, <2>2
<1>3. CASE ~Tick
  <2>1. slice'[cpu.cur] = slice[cpu.cur]
    <3>1. ASSUME NEW t \in Thread, NEW u \in Thread, Create(t, u)
          PROVE  slice'[cpu.cur] = slice[cpu.cur]
      <4>1. cpu.stat[cpu.cur] = "running" /\ cpu.stat[u] = "none"
        BY <3>1, Facts DEF Create, Runs
      <4> QED BY <1>1, <3>1, <4>1 DEF Create
    <3> QED BY <1>3, <3>1, WhoseSliceChanges
  <2> QED BY <1>1, <1>3, <2>1
<1> QED BY <1>2, <1>3

\* As long as callers keep the rules of start and deletion, the safety half of
\* EqualsTakeTurns: whatever sleeps, wakes, yields and deaths come in between, a
\* thread in a ready queue is passed by no equal, so that each of them gets the
\* processor at most once before it does.
THEOREM EqualsKeepTheirOrder ==
  ASSUME Races = {}
  PROVE  Spec => NobodyIsOvertaken
<1>1. IInv /\ [Next]_vars => [InTurn(cpu, cpu')]_vars
  BY StepInTurn
<1> QED BY <1>1, Invariance, PTL DEF Spec, NobodyIsOvertaken

\* And a turn is over after as many ticks as its slice has, unless the thread
\* locks the scheduler: preemptions, wakes and calls renew no slice.
THEOREM EveryTurnEnds ==
  ASSUME Races = {}
  PROVE  Spec => TurnsEnd
<1>1. IInv /\ [Next]_vars =>
        [cpu'.cur = cpu.cur /\ lock = 0 /\ cpu.queue[Prio[cpu.cur]] # <<>> =>
            /\ slice'[cpu.cur] <= slice[cpu.cur]
            /\ Tick => slice'[cpu.cur] < slice[cpu.cur]]_vars
  BY TurnGoesOn
<1> QED BY <1>1, Invariance, PTL DEF Spec, TurnsEnd
=============================================================================
