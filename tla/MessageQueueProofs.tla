------------------------- MODULE MessageQueueProofs -------------------------
(***************************************************************************)
(* For every set of threads, every pool and every timeout: the message     *)
(* queue keeps its types and never loses or shares a message block; its    *)
(* wait lists are exact, no wake-up is lost, nobody waits in a circle and  *)
(* nobody wakes without a reason; and what callers see is QueueService.    *)
(* TypeOK /\ PoolConserved is inductive by itself; IInv adds to it what a  *)
(* waiting thread may rely on.  Then a map of the states to the service's. *)
(* Last, the safety half of TimedCallReturns: what a timeout is spent on.  *)
(***************************************************************************)
EXTENDS MessageQueue, LeastNumber, SequenceTheorems, TLAPS

\* A thread that rt_thread_resume wakes stays inside its call, outside any
\* copy; every other thread is untouched.
LEMMA ResumedFacts ==
    ASSUME TypeOK, NEW T
    PROVE  /\ Resumed(T) \in [Thread -> {"idle", "sendCopy", "sendLink", "sendWait",
                  "sendWoken", "recvCopy", "recvFree", "recvWait", "recvWoken"}]
           /\ \A t \in Thread :
                 Resumed(T)[t] \in {"sendCopy", "sendLink", "recvCopy", "recvFree"} <=> InCopy(t)
<1>1. DOMAIN Woken = {"sendWait", "recvWait"}
   /\ Woken["sendWait"] = "sendWoken" /\ Woken["recvWait"] = "recvWoken"
    BY DEF Woken
<1> QED
    BY <1>1 DEF TypeOK, Resumed, Waiting, InCopy

\* The initial state is typed, and every block is free.
LEMMA InitOK == Init => TypeOK /\ PoolConserved
<1> SUFFICES ASSUME Init PROVE TypeOK /\ PoolConserved
    OBVIOUS
<1> USE SlotAssumption DEF Init
<1>1. TypeOK
    BY DEF TypeOK, NoCall, Call, InCopy
<1>2. PoolConserved
    BY DEF PoolConserved, Linked, Holds
<1> QED
    BY <1>1, <1>2

\* Taking a block off the free list moves it into the hands of one thread
\* that held nothing.
LEMMA TakeFreeOK ==
    ASSUME TypeOK, PoolConserved,
           NEW t \in Thread, NEW c \in Call, ~InCopy(t),
           TakeFree(t, c), UNCHANGED <<queue, entry, buf, receivers, life>>
    PROVE  TypeOK' /\ PoolConserved'
<1> USE SlotAssumption
<1>1. PICK s \in free : free' = free \ {s} /\ held' = [held EXCEPT ![t] = s]
    BY DEF TakeFree
<1>2. TypeOK'
    BY <1>1 DEF TypeOK, TakeFree, InCopy
<1>3. /\ held[t] = NoSlot /\ held'[t] = s
      /\ \A u \in Thread \ {t} : held'[u] = held[u]
    BY <1>1 DEF TypeOK
<1>4. UNCHANGED <<queue, entry>>
    OBVIOUS
<1>5. s \in Slot /\ free' = free \ {s} /\ ~Linked(s) /\ \A u \in Thread : held[u] # s
    BY <1>1 DEF TypeOK, PoolConserved, Holds
<1>6. \A b \in Slot : Linked(b)' <=> Linked(b)
    BY <1>4 DEF Linked
<1>7. \A b \in Slot : b \in free' \/ Linked(b)' \/ \E u \in Thread : Holds(u, b)'
    BY <1>3, <1>5, <1>6 DEF PoolConserved, Holds
<1>8. \A b \in free' : ~Linked(b)' /\ \A u \in Thread : ~Holds(u, b)'
    BY <1>3, <1>5, <1>6 DEF TypeOK, PoolConserved, Holds
<1>9. \A b \in Slot : Linked(b)' => \A u \in Thread : ~Holds(u, b)'
    BY <1>3, <1>5, <1>6 DEF PoolConserved, Holds
<1>10. \A u, v \in Thread : Holds(u, held[v])' /\ held'[v] # NoSlot => u = v
    BY <1>3, <1>5 DEF PoolConserved, Holds
<1> QED
    BY <1>2, <1>4, <1>7, <1>8, <1>9, <1>10 DEF PoolConserved

\* Any step that leaves the lists, the counter and the blocks in hand alone.
LEMMA PoolUntouched ==
    ASSUME PoolConserved, UNCHANGED <<free, queue, entry, held>>
    PROVE  PoolConserved'
    BY DEF PoolConserved, Linked, Holds

\* A turn that takes nothing ends the call or suspends the thread.
LEMMA NoTurnTyped ==
    ASSUME TypeOK, NEW t \in Thread, NEW c \in Call, ~InCopy(t),
           UNCHANGED <<free, queue, entry, buf, held, life>>,
           \/ Return(t) /\ UNCHANGED err
           \/ Wait(t, "sendWait", c) /\ UNCHANGED out
           \/ Wait(t, "recvWait", c) /\ UNCHANGED out
    PROVE  TypeOK'
<1>1. NoCall \in Call
    BY DEF NoCall, Call
<1>2. CASE Return(t) /\ UNCHANGED err
    BY <1>1, <1>2 DEF TypeOK, Return, InCopy
<1>3. CASE Wait(t, "sendWait", c) /\ UNCHANGED out
    BY <1>3 DEF TypeOK, Wait, InCopy
<1>4. CASE Wait(t, "recvWait", c) /\ UNCHANGED out
    BY <1>4 DEF TypeOK, Wait, InCopy
<1> QED
    BY <1>2, <1>3, <1>4

\* One turn of the sending loop, from the entry or after a wake-up.
LEMMA SendTurnOK ==
    ASSUME TypeOK, PoolConserved,
           NEW t \in Thread, NEW c \in Call, ~InCopy(t), SendTurn(t, c)
    PROVE  TypeOK' /\ PoolConserved'
<1>1. CASE free # {} /\ TakeFree(t, c)
    BY <1>1, TakeFreeOK DEF SendTurn
<1>2. CASE ~(free # {} /\ TakeFree(t, c))
    <2>1. UNCHANGED <<free, queue, entry, buf, held, life>>
        BY <1>2 DEF SendTurn
    <2>2. \/ Return(t) /\ UNCHANGED err
          \/ Wait(t, "sendWait", c) /\ UNCHANGED out
        BY <1>2 DEF SendTurn
    <2>3. TypeOK'
        BY <2>1, <2>2, NoTurnTyped
    <2> QED
        BY <2>1, <2>3, PoolUntouched
<1> QED
    BY <1>1, <1>2

\* One turn of the receiving loop: the head block moves into one hand.
LEMMA RecvTurnOK ==
    ASSUME TypeOK, PoolConserved,
           NEW t \in Thread, NEW c \in Call, ~InCopy(t), RecvTurn(t, c)
    PROVE  TypeOK' /\ PoolConserved'
<1> USE SlotAssumption
<1>1. CASE entry # 0
    <2>1. /\ held' = [held EXCEPT ![t] = Head(queue)]
          /\ queue' = Tail(queue)
          /\ entry' = entry - 1
          /\ pc' = [pc EXCEPT ![t] = "recvCopy"]
          /\ call' = [call EXCEPT ![t] = c]
          /\ UNCHANGED <<free, buf, out, err, life>>
        BY <1>1 DEF RecvTurn
    <2>2. queue \in Seq(Slot) /\ queue # <<>> /\ entry = Len(queue)
        BY <1>1 DEF TypeOK, PoolConserved
    <2>3. /\ queue' \in Seq(Slot)
          /\ Len(queue') = Len(queue) - 1
          /\ Head(queue) = queue[1]
          /\ DOMAIN queue = 1..Len(queue) /\ DOMAIN queue' = 1..Len(queue')
          /\ \A i \in 1..Len(queue') : queue'[i] = queue[i + 1]
        BY <2>1, <2>2
    <2>4. TypeOK'
        BY <1>1, <2>1, <2>2, <2>3 DEF TypeOK, InCopy
    <2>5. PoolConserved'
        <3>1. \A s \in Slot : Linked(s)' <=> Linked(s) /\ s # Head(queue)
            <4>1. ASSUME NEW s \in Slot, NEW i \in DOMAIN queue', queue'[i] = s
                  PROVE  Linked(s) /\ s # Head(queue)
                <5>1. i + 1 \in DOMAIN queue /\ i + 1 # 1 /\ 1 \in DOMAIN queue /\ queue[i + 1] = s
                    BY <2>2, <2>3, <4>1
                <5> QED
                    BY <2>3, <5>1 DEF PoolConserved, Linked
            <4>2. ASSUME NEW s \in Slot, NEW i \in DOMAIN queue, queue[i] = s,
                         s # Head(queue)
                  PROVE  Linked(s)'
                <5>1. i # 1 /\ i - 1 \in 1..Len(queue')
                    BY <2>2, <2>3, <4>2
                <5> QED
                    BY <2>3, <4>2, <5>1 DEF Linked
            <4> QED
                BY <4>1, <4>2 DEF Linked
        <3>2. Head(queue) \in Slot /\ Linked(Head(queue))
            BY <2>2, <2>3 DEF Linked
        <3>3. ASSUME NEW i \in DOMAIN queue', NEW j \in DOMAIN queue', queue'[i] = queue'[j]
              PROVE  i = j
            <4>1. i + 1 \in DOMAIN queue /\ j + 1 \in DOMAIN queue /\ queue[i + 1] = queue[j + 1]
                BY <2>2, <2>3, <3>3
            <4>2. i + 1 = j + 1
                BY <4>1 DEF PoolConserved
            <4> QED
                BY <2>3, <4>2
        <3>4. \A u \in Thread, s \in Slot :
                 Holds(u, s)' <=> IF u = t THEN s = Head(queue) ELSE Holds(u, s)
            BY <2>1 DEF TypeOK, Holds
        <3>5. \A s \in Slot : ~Holds(t, s)
            BY DEF TypeOK, Holds
        <3>6. entry' = Len(queue')
            BY <2>1, <2>2, <2>3
        <3> HIDE DEF Linked
        <3>7. \A s \in Slot : s \in free' \/ Linked(s)' \/ \E u \in Thread : Holds(u, s)'
            BY <2>1, <3>1, <3>4, <3>5 DEF PoolConserved
        <3>8. \A s \in free' : ~Linked(s)' /\ \A u \in Thread : ~Holds(u, s)'
            BY <2>1, <3>1, <3>2, <3>4 DEF PoolConserved, TypeOK
        <3>9. \A s \in Slot : Linked(s)' => \A u \in Thread : ~Holds(u, s)'
            BY <3>1, <3>4 DEF PoolConserved
        <3>10. \A u, v \in Thread : Holds(u, held[v])' /\ held'[v] # NoSlot => u = v
            BY <2>1, <3>2 DEF PoolConserved, TypeOK, Holds
        <3> QED
            BY <3>3, <3>6, <3>7, <3>8, <3>9, <3>10 DEF PoolConserved
    <2> QED
        BY <2>4, <2>5
<1>2. CASE entry = 0
    <2>1. UNCHANGED <<free, queue, entry, buf, held, life>>
        BY <1>2 DEF RecvTurn
    <2>2. \/ Return(t) /\ UNCHANGED err
          \/ Wait(t, "recvWait", c) /\ UNCHANGED out
        BY <1>2 DEF RecvTurn
    <2>3. TypeOK'
        BY <2>1, <2>2, NoTurnTyped
    <2> QED
        BY <2>1, <2>3, PoolUntouched
<1> QED
    BY <1>1, <1>2

\* A woken thread that found an error leaves its call with empty hands.
LEMMA LeaveOK ==
    ASSUME TypeOK, PoolConserved, NEW t \in Thread, ~InCopy(t), Return(t),
           UNCHANGED <<free, queue, entry, buf, receivers, senders, held, err, life>>
    PROVE  TypeOK' /\ PoolConserved'
<1>1. NoCall \in Call
    BY DEF NoCall, Call
<1>2. TypeOK'
    BY <1>1 DEF TypeOK, Return, InCopy
<1> QED
    BY <1>2, PoolUntouched

\* What is left of a timeout is again a timeout.
LEMMA RemainingTyped ==
    ASSUME NEW c \in Call
    PROVE  [c EXCEPT !.timeout = Remaining(c), !.elapsed = 0] \in Call
<1>1. c.timeout \in Int /\ c.elapsed \in Nat
    BY DEF Call
<1>2. Remaining(c) \in Int
    <2>1. CASE c.timeout <= 0
        BY <1>1, <2>1 DEF Remaining
    <2>2. CASE ~(c.timeout <= 0) /\ c.timeout > c.elapsed
        BY <1>1, <2>2 DEF Remaining
    <2>3. CASE ~(c.timeout <= 0) /\ ~(c.timeout > c.elapsed)
        BY <1>1, <2>3 DEF Remaining
    <2> QED
        BY <2>1, <2>2, <2>3
<1> QED
    BY <1>2 DEF Call

\* Copying touches one buffer and the program counter.
LEMMA CopyOK ==
    ASSUME TypeOK, PoolConserved, NEW t \in Thread, SendCopy(t) \/ RecvCopy(t)
    PROVE  TypeOK' /\ PoolConserved'
<1>1. held[t] \in Slot
    BY DEF TypeOK, InCopy, SendCopy, RecvCopy
<1>2. TypeOK'
    <2>1. CASE SendCopy(t)
        BY <1>1, <2>1 DEF TypeOK, SendCopy, InCopy, Call
    <2>2. CASE RecvCopy(t)
        BY <1>1, <2>2 DEF TypeOK, RecvCopy, InCopy
    <2> QED
        BY <2>1, <2>2
<1> QED
    BY <1>2, PoolUntouched DEF SendCopy, RecvCopy

\* A block put on the queue, at either end, leaves one hand for one place.
LEMMA SendLinkOK ==
    ASSUME TypeOK, PoolConserved, NEW t \in Thread, SendLink(t)
    PROVE  TypeOK' /\ PoolConserved'
<1> USE SlotAssumption
<1> DEFINE s == held[t]
           woken == Resumed(First(receivers))
<1>1. /\ held' = [held EXCEPT ![t] = NoSlot]
      /\ pc' = [woken EXCEPT ![t] = "idle"]
      /\ call' = [call EXCEPT ![t] = NoCall]
      /\ entry' = entry + 1
      /\ queue' = <<s>> \o queue \/ queue' = Append(queue, s)
      /\ UNCHANGED <<free, buf, senders, out, err, life>>
    BY DEF SendLink, Placed, Release, Cons
<1>2. s \in Slot /\ queue \in Seq(Slot) /\ entry = Len(queue)
    BY DEF TypeOK, PoolConserved, SendLink, InCopy
<1>3. /\ queue' \in Seq(Slot)
      /\ Len(queue') = Len(queue) + 1
      /\ DOMAIN queue = 1..Len(queue) /\ DOMAIN queue' = 1..Len(queue')
      /\ \/ queue'[1] = s /\ \A i \in 1..Len(queue) : queue'[i + 1] = queue[i]
         \/ queue'[Len(queue')] = s /\ \A i \in 1..Len(queue) : queue'[i] = queue[i]
    <2>1. CASE queue' = Append(queue, s)
        BY <1>2, <2>1
    <2>2. CASE queue' = <<s>> \o queue
        <3>1. <<s>> \in Seq(Slot) /\ Len(<<s>>) = 1 /\ <<s>>[1] = s
            BY <1>2
        <3>2. /\ queue' \in Seq(Slot)
              /\ Len(queue') = 1 + Len(queue)
              /\ \A i \in 1..(1 + Len(queue)) :
                    queue'[i] = IF i <= 1 THEN <<s>>[i] ELSE queue[i - 1]
            BY <1>2, <2>2, <3>1, ConcatProperties
        <3> QED
            BY <1>2, <3>1, <3>2
    <2> QED
        BY <1>1, <2>1, <2>2
<1>4. TypeOK'
    <2>1. NoCall \in Call
        BY DEF NoCall, Call
    <2>2. /\ woken \in [Thread -> {"idle", "sendCopy", "sendLink", "sendWait",
                "sendWoken", "recvCopy", "recvFree", "recvWait", "recvWoken"}]
          /\ \A u \in Thread :
                woken[u] \in {"sendCopy", "sendLink", "recvCopy", "recvFree"} <=> InCopy(u)
        BY ResumedFacts
    <2> HIDE DEF woken
    <2> QED
        BY <1>1, <1>3, <2>1, <2>2 DEF TypeOK, InCopy
<1>5. PoolConserved'
    <2>1. \A x \in Slot : Linked(x)' <=> Linked(x) \/ x = s
        <3>1. ASSUME NEW x \in Slot, NEW i \in DOMAIN queue', queue'[i] = x
              PROVE  Linked(x) \/ x = s
            <4>1. CASE queue'[1] = s /\ \A j \in 1..Len(queue) : queue'[j + 1] = queue[j]
                <5>1. i = 1 \/ i - 1 \in 1..Len(queue)
                    BY <1>3, <1>2
                <5> QED
                    BY <1>3, <3>1, <4>1, <5>1 DEF Linked
            <4>2. CASE queue'[Len(queue')] = s /\ \A j \in 1..Len(queue) : queue'[j] = queue[j]
                BY <1>2, <1>3, <3>1, <4>2 DEF Linked
            <4> QED
                BY <1>3, <4>1, <4>2
        <3>2. ASSUME NEW x \in Slot, NEW i \in DOMAIN queue, queue[i] = x
              PROVE  Linked(x)'
            BY <1>2, <1>3, <3>2 DEF Linked
        <3>3. \E i \in DOMAIN queue' : queue'[i] = s
            BY <1>2, <1>3
        <3>4. \A x \in Slot : Linked(x)' => Linked(x) \/ x = s
            BY <3>1 DEF Linked
        <3>5. \A x \in Slot : Linked(x) => Linked(x)'
            BY <3>2 DEF Linked
        <3>6. \A x \in Slot : x = s => Linked(x)'
            BY <3>3 DEF Linked
        <3> QED
            BY <3>4, <3>5, <3>6
    <2>2. \A u \in Thread, x \in Slot : Holds(u, x)' <=> Holds(u, x) /\ u # t
        BY <1>1 DEF TypeOK, Holds
    <2>3. ~Linked(s) /\ Holds(t, s) /\ s \notin free
        BY <1>2 DEF PoolConserved, Holds
    <2>4. \A i, j \in DOMAIN queue' : queue'[i] = queue'[j] => i = j
        <3>1. \A i \in DOMAIN queue : queue[i] # s
            BY <2>3 DEF Linked
        <3>2. CASE queue'[1] = s /\ \A j \in 1..Len(queue) : queue'[j + 1] = queue[j]
            <4>1. \A i \in DOMAIN queue' : i # 1 =>
                     i - 1 \in 1..Len(queue) /\ queue'[i] = queue[i - 1]
                BY <1>2, <1>3, <3>2
            <4> QED
                BY <1>2, <1>3, <3>1, <3>2, <4>1 DEF PoolConserved
        <3>3. CASE queue'[Len(queue')] = s /\ \A j \in 1..Len(queue) : queue'[j] = queue[j]
            BY <1>2, <1>3, <3>1, <3>3 DEF PoolConserved
        <3> QED
            BY <1>3, <3>2, <3>3
    <2>5. \A u, v \in Thread : Holds(u, held[v])' /\ held'[v] # NoSlot => u = v
        BY <1>1 DEF PoolConserved, TypeOK, Holds
    <2>6. entry' = Len(queue')
        BY <1>1, <1>2, <1>3
    <2>7. \A x \in Slot : x \in free' \/ Linked(x)' \/ \E u \in Thread : Holds(u, x)'
        BY <1>1, <2>1, <2>2 DEF PoolConserved, Holds
    <2>8. \A x \in free' : ~Linked(x)' /\ \A u \in Thread : ~Holds(u, x)'
        BY <1>1, <2>1, <2>2, <2>3 DEF PoolConserved, TypeOK
    <2>9. \A x \in Slot : Linked(x)' => \A u \in Thread : ~Holds(u, x)'
        BY <1>2, <2>1, <2>2, <2>3 DEF PoolConserved, Holds
    <2> QED
        BY <2>4, <2>5, <2>6, <2>7, <2>8, <2>9 DEF PoolConserved
<1> QED
    BY <1>4, <1>5

\* A received block goes back from one hand to the free list.
LEMMA RecvFreeOK ==
    ASSUME TypeOK, PoolConserved, NEW t \in Thread, RecvFree(t)
    PROVE  TypeOK' /\ PoolConserved'
<1> USE SlotAssumption
<1> DEFINE woken == Resumed(First(senders))
<1>1. /\ held' = [held EXCEPT ![t] = NoSlot]
      /\ free' = free \union {held[t]}
      /\ pc' = [woken EXCEPT ![t] = "idle"]
      /\ call' = [call EXCEPT ![t] = NoCall]
      /\ out' = [out EXCEPT ![t] = NoMsg]
      /\ UNCHANGED <<queue, entry, buf, err, life>>
    BY DEF RecvFree, Release
<1>2. held[t] \in Slot
    BY DEF TypeOK, RecvFree, InCopy
<1>3. TypeOK'
    <2>1. NoCall \in Call
        BY DEF NoCall, Call
    <2>2. /\ woken \in [Thread -> {"idle", "sendCopy", "sendLink", "sendWait",
                "sendWoken", "recvCopy", "recvFree", "recvWait", "recvWoken"}]
          /\ \A u \in Thread :
                woken[u] \in {"sendCopy", "sendLink", "recvCopy", "recvFree"} <=> InCopy(u)
        BY ResumedFacts
    <2> HIDE DEF woken
    <2> QED
        BY <1>1, <1>2, <2>1, <2>2 DEF TypeOK, InCopy
<1>4. PoolConserved'
    BY <1>1, <1>2 DEF TypeOK, PoolConserved, Linked, Holds
<1> QED
    BY <1>3, <1>4

\* The tick interrupt and a reset or detach wake threads but move no hands;
\* a reset empties the queue into the free list.
LEMMA EnvironmentOK ==
    ASSUME TypeOK, PoolConserved, Tick \/ Reset \/ Detach
    PROVE  TypeOK' /\ PoolConserved'
<1>1. ASSUME NEW T, pc' = Resumed(T)
      PROVE  /\ pc' \in [Thread -> {"idle", "sendCopy", "sendLink", "sendWait",
                   "sendWoken", "recvCopy", "recvFree", "recvWait", "recvWoken"}]
             /\ \A t \in Thread : InCopy(t)' <=> InCopy(t)
    BY <1>1, ResumedFacts DEF InCopy
<1>2. CASE Tick
    <2>1. UNCHANGED <<free, queue, entry, buf, held, out, life>>
        BY <1>2 DEF Tick
    <2>2. call' \in [Thread -> Call]
        <3>1. ASSUME NEW t \in Thread
              PROVE  [call[t] EXCEPT !.elapsed = @ + 1] \in Call
            <4>1. call[t] \in Call
                BY DEF TypeOK
            <4> QED
                BY <4>1 DEF Call
        <3> QED
            BY <1>2, <3>1 DEF Tick, TypeOK
    <2>3. err' \in [Thread -> {"EOK", "ETIMEOUT", "ERROR"}]
        BY <1>2 DEF Tick, TypeOK
    <2>4. TypeOK'
        BY <1>1, <1>2, <2>1, <2>2, <2>3 DEF TypeOK, Tick
    <2> QED
        BY <2>1, <2>4, PoolUntouched
<1>3. CASE Reset
    <2>1. /\ free' = free \union ToSet(queue)
          /\ queue' = <<>> /\ entry' = 0
          /\ UNCHANGED <<buf, call, held, out, life>>
        BY <1>3 DEF Reset, Reclaimed
    <2>2. \A s \in Slot : s \in ToSet(queue) <=> Linked(s)
        BY DEF ToSet, Linked
    <2>3. ToSet(queue) \subseteq Slot
        BY DEF ToSet, TypeOK
    <2>4. err' \in [Thread -> {"EOK", "ETIMEOUT", "ERROR"}]
        BY <1>3 DEF Reset, WakeWithError, TypeOK
    <2>5. TypeOK'
        <3>1. pc' = Resumed(ToSet(receivers) \union ToSet(senders))
            BY <1>3 DEF Reset, WakeWithError
        <3>2. queue' \in Seq(Slot) /\ entry' \in Nat /\ free' \subseteq Slot
            BY <2>1, <2>3, EmptySeq DEF TypeOK
        <3>3. \A t \in Thread : InCopy(t)' <=> InCopy(t)
            BY <1>1, <3>1
        <3>4. pc' \in [Thread -> {"idle", "sendCopy", "sendLink", "sendWait",
                   "sendWoken", "recvCopy", "recvFree", "recvWait", "recvWoken"}]
            BY <1>1, <3>1
        <3> QED
            BY <2>1, <2>4, <3>2, <3>3, <3>4 DEF TypeOK
    <2>6. PoolConserved'
        <3>1. \A s \in Slot : ~Linked(s)'
            BY <2>1 DEF Linked
        <3>2. \A s \in Slot, t \in Thread : Holds(t, s)' <=> Holds(t, s)
            BY <2>1 DEF Holds
        <3>3. \A t, u \in Thread : Holds(t, held[u])' /\ held'[u] # NoSlot => t = u
            BY <2>1 DEF PoolConserved, Holds
        <3>4. \A s \in free' : \A t \in Thread : ~Holds(t, s)
            BY <2>1, <2>2, <2>3 DEF PoolConserved, TypeOK
        <3>5. \A s \in Slot : s \in free' \/ \E t \in Thread : Holds(t, s)'
            BY <2>1, <2>2, <3>2 DEF PoolConserved
        <3>6. free' \subseteq Slot
            BY <2>1, <2>3 DEF TypeOK
        <3> QED
            BY <2>1, <3>1, <3>2, <3>3, <3>4, <3>5, <3>6 DEF PoolConserved
    <2> QED
        BY <2>5, <2>6
<1>4. CASE Detach
    <2>1. UNCHANGED <<free, queue, entry, buf, call, held, out>>
        BY <1>4 DEF Detach, DetachLook, DetachWake, DetachHalt, DetachObject
    <2>2. /\ err' \in [Thread -> {"EOK", "ETIMEOUT", "ERROR"}]
          /\ life' \in {"up", "receivers", "wakeReceiver", "senders", "wakeSender",
                       "leaving", "detached", "halted"}
        BY <1>4 DEF Detach, DetachLook, DetachWake, DetachHalt, DetachObject,
                    WakeWithError, TypeOK
    <2>3. \/ UNCHANGED pc
          \/ \E T : pc' = Resumed(T)
        BY <1>4 DEF Detach, DetachLook, DetachWake, DetachHalt, DetachObject,
                    WakeWithError
    <2>4. TypeOK'
        BY <1>1, <2>1, <2>2, <2>3 DEF TypeOK, InCopy
    <2> QED
        BY <2>1, <2>4, PoolUntouched
<1> QED
    BY <1>2, <1>3, <1>4

\* Every step, and every stuttering step, keeps both.
LEMMA StepOK == TypeOK /\ PoolConserved /\ [Next]_vars => TypeOK' /\ PoolConserved'
<1> SUFFICES ASSUME TypeOK, PoolConserved, [Next]_vars
             PROVE  TypeOK' /\ PoolConserved'
    OBVIOUS
<1>1. ASSUME NEW t \in Thread, Begin(t)
      PROVE  TypeOK' /\ PoolConserved'
    <2>1. pc[t] = "idle" /\ ~InCopy(t)
        BY <1>1 DEF Begin, SendCall, UrgentCall, RecvCall, InCopy
    <2>2. CASE \E m \in Msg, n \in Timeout : SendCall(t, m, n)
        <3>1. PICK m \in Msg, n \in Timeout : SendCall(t, m, n)
            BY <2>2
        <3>2. [NoCall EXCEPT !.op = "send", !.msg = m, !.timeout = n] \in Call
            BY TimeoutAssumption DEF NoCall, Call
        <3> QED
            BY <2>1, <3>1, <3>2, SendTurnOK DEF SendCall
    <2>3. CASE \E m \in Msg : UrgentCall(t, m)
        <3>1. PICK m \in Msg : UrgentCall(t, m)
            BY <2>3
        <3>2. [NoCall EXCEPT !.op = "urgent", !.msg = m] \in Call
            <4>1. NoCall \in Call
                BY DEF NoCall, Call
            <4> QED
                BY <4>1 DEF Call
        <3> QED
            BY <2>1, <3>1, <3>2, TakeFreeOK DEF UrgentCall
    <2>4. CASE \E n \in Timeout : RecvCall(t, n)
        <3>1. PICK n \in Timeout : RecvCall(t, n)
            BY <2>4
        <3>2. [NoCall EXCEPT !.op = "recv", !.timeout = n] \in Call
            BY TimeoutAssumption DEF NoCall, Call
        <3> QED
            BY <2>1, <3>1, <3>2, RecvTurnOK DEF RecvCall
    <2> QED
        BY <1>1, <2>2, <2>3, <2>4 DEF Begin
<1>2. ASSUME NEW t \in Thread, SendResume(t) \/ RecvResume(t)
      PROVE  TypeOK' /\ PoolConserved'
    <2>1. ~InCopy(t)
        BY <1>2 DEF SendResume, RecvResume, InCopy
    <2>2. call[t] \in Call
        BY DEF TypeOK
    <2> DEFINE c == [call[t] EXCEPT !.timeout = Remaining(call[t]), !.elapsed = 0]
    <2>3. c \in Call
        BY <2>2, RemainingTyped
    <2>4. \/ Return(t) /\ UNCHANGED <<free, queue, entry, buf, receivers, senders, held, err, life>>
          \/ SendTurn(t, c)
          \/ RecvTurn(t, c)
        BY <1>2 DEF SendResume, RecvResume
    <2> HIDE DEF c
    <2> QED
        BY <2>1, <2>3, <2>4, LeaveOK, SendTurnOK, RecvTurnOK
<1>3. ASSUME NEW t \in Thread, Continue(t)
      PROVE  TypeOK' /\ PoolConserved'
    BY <1>2, <1>3, CopyOK, SendLinkOK, RecvFreeOK DEF Continue
<1>4. CASE UNCHANGED vars
    <2>1. TypeOK'
        BY <1>4 DEF TypeOK, InCopy, vars
    <2>2. PoolConserved'
        BY <1>4, PoolUntouched DEF vars
    <2> QED
        BY <2>1, <2>2
<1> QED
    BY <1>1, <1>3, <1>4, EnvironmentOK DEF Next

\* Every variable of the message queue keeps its type, and a thread holds a
\* block exactly while it copies.
THEOREM Typed == Spec => []TypeOK
<1>1. TypeOK /\ PoolConserved /\ [Next]_vars => (TypeOK /\ PoolConserved)'
    BY StepOK
<1> QED
    BY InitOK, <1>1, PTL DEF Spec

\* No call, time-out, reset or detach loses a message block or hands it out
\* twice, whatever the threads, the pool and the interleaving.
THEOREM PoolIsConserved == Spec => []PoolConserved
<1>1. TypeOK /\ PoolConserved /\ [Next]_vars => (TypeOK /\ PoolConserved)'
    BY StepOK
<1> QED
    BY InitOK, <1>1, PTL DEF Spec

-----------------------------------------------------------------------------
(* Wait lists: a list, the threads asleep on it, those told to wake. *)

Ordered(list) ==
    \A i, j \in DOMAIN list :
       i < j => list[i] # list[j] /\ (Flag = "PRIO" => Prio[list[i]] <= Prio[list[j]])

\* rt_ipc_list_suspend adds one thread, in its place.
LEMMA SuspendedList ==
    ASSUME NEW list \in Seq(Thread), NEW t \in Thread, ~Contains(list, t), Ordered(list)
    PROVE  /\ Suspended(list, t) \in Seq(Thread)
           /\ Suspended(list, t) # <<>>
           /\ \A u \in Thread : Contains(Suspended(list, t), u) <=> Contains(list, u) \/ u = t
           /\ Ordered(Suspended(list, t))
<1> DEFINE behind == {i \in DOMAIN list : Flag = "PRIO" /\ Prio[t] < Prio[list[i]]}
           n == Len(list)
           p == Min(behind \union {n + 1})
           q == Suspended(list, t)
<1>1. n \in Nat /\ DOMAIN list = 1..n /\ \A i \in 1..n : list[i] \in Thread
    OBVIOUS
<1>2. \A u \in Thread : Prio[u] \in Nat
    BY FlagAssumption
<1>3. p \in behind \union {n + 1} /\ \A i \in behind \union {n + 1} : p <= i
    <2> DEFINE B == behind \union {n + 1}
    <2>1. B \in SUBSET Nat /\ B # {}
        BY <1>1
    <2> HIDE DEF B
    <2>2. \E x \in B : \A y \in B : x <= y
        BY <2>1, LeastNat
    <2>3. Min(B) \in B /\ \A y \in B : Min(B) <= y
        BY <2>2 DEF Min
    <2> QED
        BY <2>3 DEF B
<1>4. p \in 1..n + 1
    BY <1>1, <1>3
<1>5. \A j \in 1..n : j < p /\ Flag = "PRIO" => Prio[list[j]] <= Prio[t]
    <2>1. ASSUME NEW j \in 1..n, j < p PROVE j \notin behind
        <3> HIDE DEF behind, p
        <3> QED
            BY <1>1, <1>3, <1>4, <2>1
    <2> QED
        BY <1>1, <1>2, <2>1
<1>6. p <= n => Flag = "PRIO" /\ Prio[t] < Prio[list[p]]
    BY <1>1, <1>3
<1>7. /\ q = InsertAt(list, p, t)
      /\ q = SubSeq(list, 1, p - 1) \o <<t>> \o SubSeq(list, p, n)
    BY DEF Suspended, InsertAt
<1> HIDE DEF p, behind, q
<1>8. /\ q \in Seq(Thread) /\ Len(q) = n + 1
      /\ \A j \in 1..n + 1 : q[j] = IF j < p THEN list[j] ELSE IF j = p THEN t ELSE list[j - 1]
    <2> DEFINE front == SubSeq(list, 1, p - 1)
               back == SubSeq(list, p, n)
    <2>1. /\ front \in Seq(Thread) /\ Len(front) = p - 1
          /\ \A j \in 1..p - 1 : front[j] = list[j]
        BY <1>1, <1>4
    <2>2. /\ back \in Seq(Thread) /\ Len(back) = n + 1 - p
          /\ \A j \in 1..n + 1 - p : back[j] = list[p - 1 + j]
        BY <1>1, <1>4
    <2> HIDE DEF front, back
    <2> DEFINE mid == front \o <<t>>
    <2>3. /\ mid \in Seq(Thread) /\ Len(mid) = p
          /\ \A j \in 1..p : mid[j] = IF j < p THEN list[j] ELSE t
        BY <1>4, <2>1
    <2> HIDE DEF mid
    <2>4. q = mid \o back
        BY <1>7 DEF mid, front, back
    <2>5. /\ q \in Seq(Thread) /\ Len(q) = n + 1
          /\ \A j \in 1..n + 1 : q[j] = IF j <= p THEN mid[j] ELSE back[j - p]
        <3>1. Len(mid) + Len(back) = n + 1
            BY <1>1, <1>4, <2>2, <2>3
        <3> QED
            BY <2>2, <2>3, <2>4, <3>1, ConcatProperties
    <2>6. \A j \in 1..n + 1 : ~(j <= p) => j - p \in 1..n + 1 - p /\ p - 1 + (j - p) = j - 1
        BY <1>1, <1>4
    <2> QED
        BY <1>1, <1>4, <2>2, <2>3, <2>5, <2>6
<1>9. \A u \in Thread : Contains(q, u) <=> Contains(list, u) \/ u = t
    <2>1. \A u \in Thread : Contains(q, u) => Contains(list, u) \/ u = t
        BY <1>1, <1>4, <1>8 DEF Contains
    <2>2. Contains(q, t)
        BY <1>1, <1>4, <1>8 DEF Contains
    <2>3. ASSUME NEW u \in Thread, NEW i \in 1..n, list[i] = u PROVE Contains(q, u)
        <3>1. CASE i < p
            BY <1>1, <1>8, <2>3, <3>1 DEF Contains
        <3>2. CASE ~(i < p)
            <4>1. i + 1 \in 1..n + 1 /\ q[i + 1] = u
                BY <1>1, <1>4, <1>8, <2>3, <3>2
            <4> QED
                BY <1>8, <4>1 DEF Contains
        <3> QED
            BY <3>1, <3>2
    <2> QED
        BY <1>1, <2>1, <2>2, <2>3 DEF Contains
<1>10. Ordered(q)
    <2>1. \A j \in 1..n : list[j] # t
        BY <1>1 DEF Contains
    <2>2. \A j \in 1..n : p <= j => Flag = "PRIO" /\ Prio[t] <= Prio[list[j]]
        BY <1>1, <1>2, <1>4, <1>6 DEF Ordered
    <2>3. ASSUME NEW i \in 1..n + 1, NEW j \in 1..n + 1, i < j
          PROVE  q[i] # q[j] /\ (Flag = "PRIO" => Prio[q[i]] <= Prio[q[j]])
        <3>1. CASE i < p /\ j < p
            <4>1. i \in DOMAIN list /\ j \in DOMAIN list /\ q[i] = list[i] /\ q[j] = list[j]
                BY <1>1, <1>4, <1>8, <3>1
            <4> QED
                BY <2>3, <4>1 DEF Ordered
        <3>2. CASE i < p /\ j = p
            BY <1>1, <1>4, <1>5, <1>8, <2>1, <3>2
        <3>3. CASE i < p /\ p < j
            <4>1. /\ i \in DOMAIN list /\ j - 1 \in DOMAIN list /\ i < j - 1
                  /\ q[i] = list[i] /\ q[j] = list[j - 1]
                BY <1>1, <1>4, <1>8, <3>3
            <4> QED
                BY <4>1 DEF Ordered
        <3>4. CASE i = p
            <4>1. j - 1 \in 1..n /\ p <= j - 1 /\ q[i] = t /\ q[j] = list[j - 1]
                BY <1>1, <1>4, <1>8, <2>3, <3>4
            <4> QED
                BY <2>1, <2>2, <4>1
        <3>5. CASE p < i
            <4>1. /\ i - 1 \in DOMAIN list /\ j - 1 \in DOMAIN list /\ i - 1 < j - 1
                  /\ q[i] = list[i - 1] /\ q[j] = list[j - 1]
                BY <1>1, <1>4, <1>8, <2>3, <3>5
            <4> QED
                BY <4>1 DEF Ordered
        <3> QED
            BY <1>1, <1>4, <2>3, <3>1, <3>2, <3>3, <3>4, <3>5
    <2>4. DOMAIN q = 1..n + 1
        BY <1>1, <1>8
    <2> QED
        BY <2>3, <2>4 DEF Ordered
<1> QED
    BY <1>1, <1>8, <1>9, <1>10 DEF q

\* rt_ipc_list_resume takes the first thread off.
LEMMA RestOfList ==
    ASSUME NEW list \in Seq(Thread), Ordered(list)
    PROVE  /\ Rest(list) \in Seq(Thread)
           /\ Rest(list) # <<>> => list # <<>>
           /\ First(list) \subseteq Thread
           /\ \A u \in Thread : Contains(Rest(list), u) <=> Contains(list, u) /\ u \notin First(list)
           /\ Ordered(Rest(list))
           /\ \A u \in First(list) : Contains(list, u)
<1>1. CASE list = <<>>
    BY <1>1 DEF Rest, First, Contains, Ordered
<1>2. CASE list # <<>>
    <2> DEFINE q == Tail(list)
    <2>1. Rest(list) = q /\ First(list) = {list[1]}
        BY <1>2 DEF Rest, First
    <2>2. /\ q \in Seq(Thread) /\ Len(q) = Len(list) - 1 /\ Len(list) \in Nat /\ Len(list) > 0
          /\ \A i \in 1..Len(q) : q[i] = list[i + 1]
          /\ DOMAIN q = 1..Len(q) /\ DOMAIN list = 1..Len(list)
          /\ list[1] \in Thread
        BY <1>2
    <2> HIDE DEF q
    <2>3. Ordered(q)
        <3>1. \A i, j \in 1..Len(q) : i < j => i + 1 < j + 1 /\ i + 1 \in 1..Len(list) /\ j + 1 \in 1..Len(list)
            BY <2>2
        <3>2. ASSUME NEW i \in 1..Len(q), NEW j \in 1..Len(q), i < j
              PROVE  q[i] # q[j] /\ (Flag = "PRIO" => Prio[q[i]] <= Prio[q[j]])
            <4>1. /\ list[i + 1] # list[j + 1]
                  /\ Flag = "PRIO" => Prio[list[i + 1]] <= Prio[list[j + 1]]
                BY <2>2, <3>1, <3>2 DEF Ordered
            <4> QED
                BY <2>2, <4>1
        <3>3. DOMAIN q = 1..Len(q)
            BY <2>2
        <3> QED
            BY <3>2, <3>3 DEF Ordered
    <2>4. ASSUME NEW u \in Thread, NEW i \in 1..Len(list), list[i] = u, u # list[1]
          PROVE  Contains(q, u)
        <3>1. i - 1 \in 1..Len(q) /\ q[i - 1] = u
            BY <2>2, <2>4
        <3> QED
            BY <3>1 DEF Contains
    <2>5. \A i \in 1..Len(q) : q[i] # list[1] /\ q[i] = list[i + 1] /\ i + 1 \in 1..Len(list)
        BY <2>2 DEF Ordered
    <2>6. \A u \in Thread : Contains(q, u) <=> Contains(list, u) /\ u # list[1]
        BY <2>4, <2>5 DEF Contains
    <2> QED
        BY <1>2, <2>1, <2>2, <2>3, <2>6 DEF Contains
<1> QED
    BY <1>1, <1>2

\* The time-outs of a tick take some threads off and keep the order.
LEMMA KeptList ==
    ASSUME NEW list \in Seq(Thread), NEW T, NEW q \in Kept(list, T), Ordered(list)
    PROVE  /\ q \in Seq(Thread)
           /\ q # <<>> => list # <<>>
           /\ \A u \in Thread : Contains(q, u) <=> Contains(list, u) /\ u \notin T
           /\ Ordered(q)
<1> DEFINE rest == {i \in DOMAIN list : list[i] \notin T}
           n == Cardinality(rest)
<1>1. Len(list) \in Nat /\ DOMAIN list = 1..Len(list) /\ \A i \in 1..Len(list) : list[i] \in Thread
    OBVIOUS
<1>2. n \in Nat
    <2>1. IsFiniteSet(DOMAIN list)
        BY <1>1, FS_Interval
    <2> QED
        BY <2>1, FS_Subset, FS_CardinalityType
<1>3. PICK f \in [1..n -> rest] :
         /\ \A i, j \in 1..n : i < j => f[i] < f[j]
         /\ \A k \in rest : \E i \in 1..n : f[i] = k
         /\ q = [i \in 1..n |-> list[f[i]]]
    BY DEF Kept
<1>4. \A i \in 1..n : f[i] \in 1..Len(list) /\ list[f[i]] \in Thread /\ list[f[i]] \notin T
    <2>1. \A k \in rest : k \in 1..Len(list) /\ list[k] \in Thread /\ list[k] \notin T
        BY <1>1
    <2> HIDE DEF rest, n
    <2> QED
        BY <1>3, <2>1
<1>5. \A k \in 1..Len(list) : list[k] \notin T => \E i \in 1..n : f[i] = k
    <2>1. \A k \in 1..Len(list) : list[k] \notin T => k \in rest
        BY <1>1
    <2> HIDE DEF rest, n
    <2> QED
        BY <1>3, <2>1
<1> HIDE DEF rest, n
<1>6. q \in Seq(Thread) /\ Len(q) = n /\ DOMAIN q = 1..n /\ \A i \in 1..n : q[i] = list[f[i]]
    <2>1. q \in [1..n -> Thread]
        BY <1>3, <1>4
    <2> QED
        BY <1>2, <1>3, <2>1
<1>7. q # <<>> => list # <<>>
    <2>1. q # <<>> => 1 \in 1..n
        BY <1>2, <1>6
    <2> QED
        BY <1>1, <1>4, <2>1
<1>8. \A u \in Thread : Contains(q, u) => Contains(list, u) /\ u \notin T
    BY <1>4, <1>6 DEF Contains
<1>9. ASSUME NEW u \in Thread, u \notin T, NEW k \in 1..Len(list), list[k] = u
      PROVE  Contains(q, u)
    BY <1>5, <1>6, <1>9 DEF Contains
<1>10. Ordered(q)
    <2>1. ASSUME NEW i \in 1..n, NEW j \in 1..n, i < j
          PROVE  q[i] # q[j] /\ (Flag = "PRIO" => Prio[q[i]] <= Prio[q[j]])
        <3>1. f[i] < f[j] /\ f[i] \in DOMAIN list /\ f[j] \in DOMAIN list
            BY <1>1, <1>3, <1>4, <2>1
        <3>2. /\ list[f[i]] # list[f[j]]
              /\ Flag = "PRIO" => Prio[list[f[i]]] <= Prio[list[f[j]]]
            BY <3>1 DEF Ordered
        <3> QED
            BY <1>6, <3>2
    <2> QED
        BY <1>6, <2>1 DEF Ordered
<1> QED
    BY <1>6, <1>7, <1>8, <1>9, <1>10 DEF Contains

-----------------------------------------------------------------------------
(* One wait list and those it concerns: p and e stand for pc and err, before *)
(* or after a step, at for where the threads of the list sleep or wake, n    *)
(* for the number of things that they wait for.                              *)

Listed(p, list, at) ==
    /\ list \in Seq(Thread)
    /\ \A t \in Thread : p[t] = at <=> Contains(list, t)
    /\ Ordered(list)

Awake(p, e, at) == {t \in Thread : p[t] = at /\ e[t] = "EOK"}

Told(p, e, list, n, at) == list # <<>> => n <= Cardinality(Awake(p, e, at))

\* A list stays exact as long as the same threads are asleep.
LEMMA ListKept ==
    ASSUME NEW p, NEW q, NEW list, NEW at, Listed(p, list, at),
           \A t \in Thread : q[t] = at <=> p[t] = at
    PROVE  Listed(q, list, at)
    BY DEF Listed

\* A thread that falls asleep is put on its list.
LEMMA ListGrows ==
    ASSUME NEW p, NEW q, NEW list, NEW at, Listed(p, list, at),
           NEW t \in Thread, p[t] # at, q[t] = at,
           \A u \in Thread \ {t} : q[u] = p[u]
    PROVE  Listed(q, Suspended(list, t), at)
<1>1. ~Contains(list, t)
    BY DEF Listed
<1> QED
    BY <1>1, SuspendedList DEF Listed

\* The thread that is woken from a list leaves it.
LEMMA ListShrinks ==
    ASSUME NEW p, NEW q, NEW list, NEW at, Listed(p, list, at),
           \A t \in Thread : q[t] = at <=> p[t] = at /\ t \notin First(list)
    PROVE  Listed(q, Rest(list), at)
    BY RestOfList DEF Listed

\* The threads that are due leave their list.
LEMMA ListExpires ==
    ASSUME NEW p, NEW q, NEW list, NEW at, Listed(p, list, at),
           NEW T, NEW rest \in Kept(list, T),
           \A t \in Thread : q[t] = at <=> p[t] = at /\ t \notin T
    PROVE  Listed(q, rest, at)
    BY KeptList DEF Listed

\* The awakened threads can be counted.
LEMMA AwakeCounts ==
    ASSUME NEW p, NEW e, NEW at
    PROVE  IsFiniteSet(Awake(p, e, at)) /\ Cardinality(Awake(p, e, at)) \in Nat
    BY FiniteAssumption, FS_Subset, FS_CardinalityType DEF Awake

\* Nothing is left to be told of.
LEMMA ToldOfNone ==
    ASSUME NEW p, NEW e, NEW at, NEW list
    PROVE  Told(p, e, list, 0, at)
    BY AwakeCounts DEF Told

\* The awake stay awake, and nothing has come.
LEMMA ToldStill ==
    ASSUME NEW p, NEW e, NEW q, NEW f, NEW at, NEW list, NEW left, NEW n,
           Told(p, e, list, n, at), left # <<>> => list # <<>>, n \in Nat,
           \A t \in Thread : p[t] = at /\ e[t] = "EOK" => q[t] = at /\ f[t] = "EOK"
    PROVE  Told(q, f, left, n, at)
<1>1. Awake(p, e, at) \subseteq Awake(q, f, at)
    BY DEF Awake
<1>2. Cardinality(Awake(p, e, at)) <= Cardinality(Awake(q, f, at))
    BY <1>1, AwakeCounts, FS_Subset
<1> QED
    BY <1>2, AwakeCounts DEF Told

\* One thing is taken, by one who may have been told of it.
LEMMA ToldOneLess ==
    ASSUME NEW p, NEW e, NEW q, NEW f, NEW at, NEW list, NEW n,
           Told(p, e, list, n, at), n \in Nat, NEW t \in Thread,
           \A u \in Thread \ {t} : p[u] = at /\ e[u] = "EOK" => q[u] = at /\ f[u] = "EOK"
    PROVE  Told(q, f, list, n - 1, at)
<1> DEFINE A == Awake(p, e, at)
           B == Awake(q, f, at)
<1>1. A \ {t} \subseteq B
    BY DEF Awake
<1>2. /\ IsFiniteSet(A) /\ Cardinality(A) \in Nat
      /\ IsFiniteSet(B) /\ Cardinality(B) \in Nat
    BY AwakeCounts
<1> HIDE DEF A, B
<1>3. Cardinality(A \ {t}) = IF t \in A THEN Cardinality(A) - 1 ELSE Cardinality(A)
    BY <1>2, FS_RemoveElement
<1>4. Cardinality(A \ {t}) <= Cardinality(B)
    BY <1>1, <1>2, FS_Subset
<1>5. Cardinality(A) - 1 <= Cardinality(B)
    BY <1>2, <1>3, <1>4
<1> QED
    BY <1>2, <1>5 DEF Told, A, B

\* One thing has come, and the first of the list is woken for it.
LEMMA ToldOneMore ==
    ASSUME NEW p, NEW e, NEW q, NEW f, NEW at, NEW list \in Seq(Thread), NEW n,
           Ordered(list), Told(p, e, list, n, at), n \in Nat,
           \A t \in First(list) : p[t] # at /\ q[t] = at /\ f[t] = "EOK",
           \A t \in Thread : p[t] = at /\ e[t] = "EOK" => q[t] = at /\ f[t] = "EOK"
    PROVE  Told(q, f, Rest(list), n + 1, at)
<1> DEFINE A == Awake(p, e, at)
           B == Awake(q, f, at)
           x == Head(list)
<1> SUFFICES ASSUME list # <<>> PROVE n + 1 <= Cardinality(B)
    BY RestOfList DEF Told
<1>1. First(list) = {x} /\ x \in Thread
    BY DEF First
<1>2. x \notin A /\ A \union {x} \subseteq B
    BY <1>1 DEF Awake
<1>3. /\ IsFiniteSet(A) /\ Cardinality(A) \in Nat
      /\ IsFiniteSet(B) /\ Cardinality(B) \in Nat
    BY AwakeCounts
<1>4. n <= Cardinality(A)
    BY DEF Told
<1> HIDE DEF A, B, x
<1>5. Cardinality(A \union {x}) = Cardinality(A) + 1
    BY <1>2, <1>3, FS_AddElement
<1>6. Cardinality(A \union {x}) <= Cardinality(B)
    BY <1>2, <1>3, FS_Subset
<1> QED
    BY <1>3, <1>4, <1>5, <1>6

-----------------------------------------------------------------------------
(* The inductive invariant. *)

\* A sleeper has no error yet, and who was woken with one was woken for it.
Errors ==
    \A t \in Thread :
       /\ Waiting(t) => err[t] = "EOK"
       /\ pc[t] \in {"sendWoken", "recvWoken"} =>
             /\ err[t] = "ETIMEOUT" => call[t].elapsed = call[t].timeout
             /\ err[t] = "ERROR" => MayReset \/ MayDetach

\* A thread sleeps in the call it made, and links what it has copied.
Calls ==
    \A t \in Thread :
       /\ pc[t] \in {"sendCopy", "sendLink", "sendWait", "sendWoken"} => call[t].msg \in Msg
       /\ pc[t] \in {"sendWait", "sendWoken"} => call[t].op = "send"
       /\ pc[t] \in {"recvWait", "recvWoken"} => call[t].op = "recv"
       /\ pc[t] = "sendLink" => buf[held[t]] = call[t].msg

\* WaitLists and NoLostWakeup.
Receivers ==
    /\ Listed(pc, receivers, "recvWait")
    /\ Told(pc, err, receivers, Len(queue), "recvWoken")
Senders ==
    /\ Listed(pc, senders, "sendWait")
    /\ Told(pc, err, senders, Cardinality(free), "sendWoken")

IInv == TypeOK /\ PoolConserved /\ Errors /\ Calls /\ Receivers /\ Senders

\* Where a thread that is woken goes on.
LEMMA WokenFacts ==
    /\ DOMAIN Woken = {"sendWait", "recvWait"}
    /\ Woken["sendWait"] = "sendWoken" /\ Woken["recvWait"] = "recvWoken"
    BY DEF Woken

\* The messages and the free blocks can be counted.
LEMMA Numbers ==
    ASSUME TypeOK
    PROVE  Len(queue) \in Nat /\ Cardinality(free) \in Nat
<1>1. IsFiniteSet(free)
    BY FiniteAssumption, FS_Subset DEF TypeOK
<1> QED
    BY <1>1, FS_CardinalityType DEF TypeOK

\* A thread that is neither asleep nor awakened, or that leaves for good, goes
\* on: that changes nothing for the others.
LEMMA ReceiversStay ==
    ASSUME IInv, NEW t \in Thread, pc[t] # "recvWait", pc'[t] # "recvWait",
           pc[t] = "recvWoken" => err[t] # "EOK" \/ queue = <<>>,
           \A u \in Thread \ {t} : pc'[u] = pc[u] /\ err'[u] = err[u],
           UNCHANGED <<queue, receivers>>
    PROVE  Receivers'
<1>1. Listed(pc', receivers, "recvWait")
    BY ListKept DEF IInv, Receivers
<1>2. CASE queue = <<>>
    BY <1>1, <1>2, ToldOfNone DEF Receivers
<1>3. CASE queue # <<>>
    <2>1. Told(pc', err', receivers, Len(queue), "recvWoken")
        BY <1>3, Numbers, ToldStill DEF IInv, Receivers
    <2> QED
        BY <1>1, <2>1 DEF Receivers
<1> QED
    BY <1>2, <1>3

\* The same for the senders.
LEMMA SendersStay ==
    ASSUME IInv, NEW t \in Thread, pc[t] # "sendWait", pc'[t] # "sendWait",
           pc[t] = "sendWoken" => err[t] # "EOK" \/ free = {},
           \A u \in Thread \ {t} : pc'[u] = pc[u] /\ err'[u] = err[u],
           UNCHANGED <<free, senders>>
    PROVE  Senders'
<1>1. Listed(pc', senders, "sendWait")
    BY ListKept DEF IInv, Senders
<1>2. CASE free = {}
    BY <1>1, <1>2, ToldOfNone, FS_EmptySet DEF Senders
<1>3. CASE free # {}
    <2>1. Told(pc', err', senders, Cardinality(free), "sendWoken")
        BY <1>3, Numbers, ToldStill DEF IInv, Senders
    <2> QED
        BY <1>1, <2>1 DEF Senders
<1> QED
    BY <1>2, <1>3

\* What one thread's step means for Errors and Calls.
LEMMA ErrorsStay ==
    ASSUME IInv, NEW t \in Thread,
           \A u \in Thread \ {t} : pc'[u] = pc[u] /\ err'[u] = err[u] /\ call'[u] = call[u],
           pc'[t] \notin {"sendWoken", "recvWoken"},
           pc'[t] \in {"sendWait", "recvWait"} => err'[t] = "EOK"
    PROVE  Errors'
    BY WokenFacts DEF IInv, Errors, Waiting

\* What one thread's step means for Calls.
LEMMA CallsStay ==
    ASSUME IInv, NEW t \in Thread, UNCHANGED buf,
           \A u \in Thread \ {t} : pc'[u] = pc[u] /\ call'[u] = call[u] /\ held'[u] = held[u],
           pc'[t] \notin {"sendLink", "sendWoken", "recvWoken"},
           pc'[t] \in {"sendCopy", "sendWait"} => call'[t].msg \in Msg,
           pc'[t] = "sendWait" => call'[t].op = "send",
           pc'[t] = "recvWait" => call'[t].op = "recv"
    PROVE  Calls'
    BY DEF IInv, Calls

\* A block is taken off the free list, by a thread that was woken for it or not.
LEMMA TakeFreeServes ==
    ASSUME IInv, NEW t \in Thread, NEW c \in Call, pc[t] \in {"idle", "sendWoken"},
           c.msg \in Msg, TakeFree(t, c), UNCHANGED <<queue, entry, buf, receivers, life>>
    PROVE  Errors' /\ Calls' /\ Receivers' /\ Senders'
<1>1. PICK s \in free : free' = free \ {s} /\ held' = [held EXCEPT ![t] = s]
    BY DEF TakeFree
<1>2. /\ pc' = [pc EXCEPT ![t] = "sendCopy"] /\ call' = [call EXCEPT ![t] = c]
      /\ UNCHANGED <<senders, out, err>>
    BY DEF TakeFree
<1>3. /\ pc'[t] = "sendCopy" /\ call'[t] = c /\ UNCHANGED buf
      /\ \A u \in Thread \ {t} :
            /\ pc'[u] = pc[u] /\ err'[u] = err[u] /\ call'[u] = call[u]
            /\ held'[u] = held[u]
    BY <1>1, <1>2 DEF IInv, TypeOK
<1>4. Errors' /\ Calls'
    BY <1>3, ErrorsStay, CallsStay
<1>5. Receivers'
    BY <1>3, ReceiversStay
<1>6. Senders'
    <2>1. Listed(pc', senders, "sendWait")
        BY <1>3, ListKept DEF IInv, Senders
    <2>2. Cardinality(free') = Cardinality(free) - 1
        BY <1>1, FiniteAssumption, FS_Subset, FS_RemoveElement DEF IInv, TypeOK
    <2>3. Told(pc', err', senders, Cardinality(free) - 1, "sendWoken")
        BY <1>3, Numbers, ToldOneLess DEF IInv, Senders
    <2> QED
        BY <1>2, <2>1, <2>2, <2>3 DEF Senders
<1> QED
    BY <1>4, <1>5, <1>6

\* One turn of rt_mq_send_wait's loop.
LEMMA SendTurnServes ==
    ASSUME IInv, NEW t \in Thread, NEW c \in Call, pc[t] \in {"idle", "sendWoken"},
           c.msg \in Msg, c.op = "send", SendTurn(t, c)
    PROVE  Errors' /\ Calls' /\ Receivers' /\ Senders'
<1>1. CASE free # {} /\ TakeFree(t, c)
    BY <1>1, TakeFreeServes DEF SendTurn
<1>2. CASE free = {} /\ Return(t) /\ UNCHANGED <<free, held, senders, err>>
    <2>1. /\ pc'[t] = "idle" /\ UNCHANGED <<queue, receivers, buf>>
          /\ \A u \in Thread \ {t} :
                /\ pc'[u] = pc[u] /\ err'[u] = err[u] /\ call'[u] = call[u]
                /\ held'[u] = held[u]
        BY <1>2 DEF IInv, TypeOK, Return, SendTurn
    <2>2. Errors' /\ Calls'
        BY <2>1, ErrorsStay, CallsStay
    <2>3. Receivers'
        BY <2>1, ReceiversStay
    <2>4. Senders'
        BY <1>2, <2>1, SendersStay
    <2> QED
        BY <2>2, <2>3, <2>4
<1>3. CASE /\ free = {} /\ senders' = Suspended(senders, t)
           /\ Wait(t, "sendWait", c) /\ UNCHANGED <<free, held, out>>
    <2>1. /\ pc'[t] = "sendWait" /\ err'[t] = "EOK" /\ call'[t] = c
          /\ UNCHANGED <<queue, receivers, buf>>
          /\ \A u \in Thread \ {t} :
                /\ pc'[u] = pc[u] /\ err'[u] = err[u] /\ call'[u] = call[u]
                /\ held'[u] = held[u]
        BY <1>3 DEF IInv, TypeOK, Wait, SendTurn
    <2>2. Listed(pc', senders', "sendWait")
        BY <1>3, <2>1, ListGrows DEF IInv, Senders
    <2>3. Senders'
        BY <1>3, <2>2, ToldOfNone, FS_EmptySet DEF Senders
    <2> QED
        BY <2>1, <2>3, ErrorsStay, CallsStay, ReceiversStay
<1> QED
    BY <1>1, <1>2, <1>3 DEF SendTurn

\* mq->entry says whether there is a message.
LEMMA NoEntry ==
    ASSUME IInv, entry = 0
    PROVE  queue = <<>> /\ Len(queue) = 0
<1>1. queue \in Seq(Slot) /\ Len(queue) = 0
    BY DEF IInv, TypeOK, PoolConserved
<1> QED
    BY <1>1

\* One turn of rt_mq_recv's loop.
LEMMA RecvTurnServes ==
    ASSUME IInv, NEW t \in Thread, NEW c \in Call, pc[t] \in {"idle", "recvWoken"},
           c.op = "recv", RecvTurn(t, c)
    PROVE  Errors' /\ Calls' /\ Receivers' /\ Senders'
<1>1. CASE /\ entry # 0 /\ held' = [held EXCEPT ![t] = Head(queue)]
           /\ queue' = Tail(queue) /\ pc' = [pc EXCEPT ![t] = "recvCopy"]
           /\ call' = [call EXCEPT ![t] = c] /\ UNCHANGED <<receivers, out, err>>
    <2>1. /\ pc'[t] = "recvCopy" /\ UNCHANGED <<free, senders, receivers>> /\ UNCHANGED buf
          /\ \A u \in Thread \ {t} :
                /\ pc'[u] = pc[u] /\ err'[u] = err[u] /\ call'[u] = call[u]
                /\ held'[u] = held[u]
        BY <1>1 DEF IInv, TypeOK, RecvTurn
    <2>2. Errors' /\ Calls'
        BY <2>1, ErrorsStay, CallsStay
    <2>3. Senders'
        BY <2>1, SendersStay
    <2>4. Listed(pc', receivers, "recvWait")
        BY <2>1, ListKept DEF IInv, Receivers
    <2>5. Len(queue') = Len(queue) - 1
        BY <1>1 DEF IInv, TypeOK, PoolConserved
    <2>6. Told(pc', err', receivers, Len(queue) - 1, "recvWoken")
        <3> DEFINE n == Len(queue)
        <3>1. Told(pc, err, receivers, n, "recvWoken") /\ n \in Nat
            BY Numbers DEF IInv, Receivers
        <3> HIDE DEF n
        <3>2. Told(pc', err', receivers, n - 1, "recvWoken")
            BY <2>1, <3>1, ToldOneLess
        <3> QED
            BY <3>2 DEF n
    <2>7. Receivers'
        BY <2>1, <2>4, <2>5, <2>6 DEF Receivers
    <2> QED
        BY <2>2, <2>3, <2>7
<1>2. CASE entry = 0 /\ Return(t) /\ UNCHANGED <<queue, entry, held, receivers, err>>
    <2>1. /\ pc'[t] = "idle" /\ UNCHANGED <<free, senders>> /\ UNCHANGED buf
          /\ \A u \in Thread \ {t} :
                /\ pc'[u] = pc[u] /\ err'[u] = err[u] /\ call'[u] = call[u]
                /\ held'[u] = held[u]
        BY <1>2 DEF IInv, TypeOK, Return, RecvTurn
    <2>2. queue = <<>>
        BY <1>2, NoEntry
    <2>3. Errors' /\ Calls'
        BY <2>1, ErrorsStay, CallsStay
    <2>4. Receivers'
        BY <1>2, <2>1, <2>2, ReceiversStay
    <2>5. Senders'
        BY <2>1, SendersStay
    <2> QED
        BY <2>3, <2>4, <2>5
<1>3. CASE /\ entry = 0 /\ receivers' = Suspended(receivers, t)
           /\ Wait(t, "recvWait", c) /\ UNCHANGED <<queue, entry, held, out>>
    <2>1. /\ pc'[t] = "recvWait" /\ err'[t] = "EOK" /\ call'[t] = c
          /\ UNCHANGED <<free, senders>> /\ UNCHANGED buf
          /\ \A u \in Thread \ {t} :
                /\ pc'[u] = pc[u] /\ err'[u] = err[u] /\ call'[u] = call[u]
                /\ held'[u] = held[u]
        BY <1>3 DEF IInv, TypeOK, Wait, RecvTurn
    <2>2. Listed(pc', receivers', "recvWait")
        BY <1>3, <2>1, ListGrows DEF IInv, Receivers
    <2>3. queue = <<>> /\ Len(queue) = 0
        BY <1>3, NoEntry
    <2>4. Receivers'
        BY <1>3, <2>2, <2>3, ToldOfNone DEF Receivers
    <2>5. Errors' /\ Calls'
        BY <2>1, ErrorsStay, CallsStay
    <2>6. Senders'
        BY <2>1, SendersStay
    <2> QED
        BY <2>4, <2>5, <2>6
<1> QED
    BY <1>1, <1>2, <1>3 DEF RecvTurn

\* Awakened with an error, a thread leaves its call.
LEMMA LeaveServes ==
    ASSUME IInv, NEW t \in Thread, pc[t] \in {"sendWoken", "recvWoken"}, err[t] # "EOK",
           Return(t), UNCHANGED <<free, queue, entry, buf, receivers, senders, held, err, life>>
    PROVE  Errors' /\ Calls' /\ Receivers' /\ Senders'
<1>1. /\ pc'[t] = "idle" /\ UNCHANGED <<queue, receivers>> /\ UNCHANGED <<free, senders>>
      /\ UNCHANGED buf
      /\ \A u \in Thread \ {t} :
            /\ pc'[u] = pc[u] /\ err'[u] = err[u] /\ call'[u] = call[u]
            /\ held'[u] = held[u]
    BY DEF IInv, TypeOK, Return
<1>2. Errors' /\ Calls'
    BY <1>1, ErrorsStay, CallsStay
<1>3. Receivers'
    BY <1>1, ReceiversStay
<1>4. Senders'
    BY <1>1, SendersStay
<1> QED
    BY <1>2, <1>3, <1>4

\* The copies touch a block that is in no other hand.
LEMMA CopyServes ==
    ASSUME IInv, NEW t \in Thread, SendCopy(t) \/ RecvCopy(t)
    PROVE  Errors' /\ Calls' /\ Receivers' /\ Senders'
<1>1. /\ pc[t] \in {"sendCopy", "recvCopy"} /\ pc'[t] \in {"sendLink", "recvFree"}
      /\ UNCHANGED <<queue, receivers>> /\ UNCHANGED <<free, senders>>
      /\ \A u \in Thread \ {t} :
            /\ pc'[u] = pc[u] /\ err'[u] = err[u] /\ call'[u] = call[u]
            /\ held'[u] = held[u]
    BY DEF IInv, TypeOK, SendCopy, RecvCopy
<1>2. Receivers'
    BY <1>1, ReceiversStay
<1>3. Senders'
    BY <1>1, SendersStay
<1>4. Errors'
    BY <1>1, ErrorsStay
<1>5. CASE RecvCopy(t)
    <2>1. pc'[t] = "recvFree" /\ UNCHANGED buf
        BY <1>5 DEF RecvCopy, IInv, TypeOK
    <2> QED
        BY <1>1, <1>2, <1>3, <1>4, <2>1, CallsStay
<1>6. CASE SendCopy(t)
    <2>1. /\ pc[t] = "sendCopy" /\ pc'[t] = "sendLink" /\ held' = held /\ call' = call
          /\ buf' = [buf EXCEPT ![held[t]] = call[t].msg]
        BY <1>6 DEF SendCopy, IInv, TypeOK
    <2>2. held[t] \in Slot
        BY <2>1 DEF IInv, TypeOK, InCopy
    <2>3. buf'[held'[t]] = call'[t].msg
        BY <2>1, <2>2 DEF IInv, TypeOK
    <2>4. ASSUME NEW u \in Thread \ {t}, pc[u] = "sendLink"
          PROVE  buf'[held'[u]] = call'[u].msg
        <3>1. held[u] # NoSlot /\ held[u] # held[t]
            BY <2>4 DEF IInv, TypeOK, InCopy, PoolConserved, Holds
        <3>2. held[u] \in Slot /\ buf[held[u]] = call[u].msg
            BY <2>4, <3>1 DEF IInv, TypeOK, Calls
        <3> QED
            BY <2>1, <3>1, <3>2 DEF IInv, TypeOK
    <2>5. Calls'
        BY <1>1, <2>1, <2>3, <2>4 DEF IInv, Calls
    <2> QED
        BY <1>2, <1>3, <1>4, <2>5
<1> QED
    BY <1>5, <1>6

\* The end of a send wakes the first receiver.
LEMMA SendLinkServes ==
    ASSUME IInv, NEW t \in Thread, SendLink(t)
    PROVE  Errors' /\ Calls' /\ Receivers' /\ Senders'
<1> DEFINE F == First(receivers)
<1>1. \A u \in F : u \in Thread /\ pc[u] = "recvWait"
    BY RestOfList DEF IInv, Receivers, Listed
<1>2. /\ pc[t] = "sendLink" /\ pc'[t] = "idle"
      /\ \A u \in Thread \ {t} : pc'[u] = IF u \in F THEN "recvWoken" ELSE pc[u]
      /\ t \notin F
    BY <1>1, WokenFacts DEF SendLink, IInv, TypeOK, Resumed, Waiting
<1>3. /\ receivers' = Rest(receivers) /\ queue' = Placed(t)
      /\ UNCHANGED free /\ UNCHANGED senders /\ UNCHANGED err /\ UNCHANGED buf
      /\ held' = [held EXCEPT ![t] = NoSlot] /\ call' = [call EXCEPT ![t] = NoCall]
    BY DEF SendLink, Release
<1> HIDE DEF F
<1>4. \A u \in F : err[u] = "EOK"
    BY <1>1, WokenFacts DEF IInv, Errors, Waiting
<1>5. Len(queue') = Len(queue) + 1
    <2>1. held[t] \in Slot
        BY <1>2 DEF IInv, TypeOK, InCopy
    <2> QED
        BY <1>3, <2>1 DEF Placed, Cons, IInv, TypeOK
<1>6. Listed(pc', receivers', "recvWait")
    <2>1. \A u \in Thread : pc'[u] = "recvWait" <=> pc[u] = "recvWait" /\ u \notin F
        BY <1>1, <1>2
    <2> QED
        BY <1>3, <2>1, ListShrinks DEF IInv, Receivers, F
<1>7. Told(pc', err', receivers', Len(queue'), "recvWoken")
    <2>1. receivers \in Seq(Thread) /\ Ordered(receivers) /\ Len(queue) \in Nat
        BY Numbers DEF IInv, Receivers, Listed
    <2>2. Told(pc, err, receivers, Len(queue), "recvWoken")
        BY DEF IInv, Receivers
    <2>3. \A u \in First(receivers) : pc[u] # "recvWoken" /\ pc'[u] = "recvWoken" /\ err'[u] = "EOK"
        BY <1>1, <1>2, <1>3, <1>4 DEF F
    <2>4. \A u \in Thread : pc[u] = "recvWoken" /\ err[u] = "EOK" => pc'[u] = "recvWoken" /\ err'[u] = "EOK"
        BY <1>2, <1>3
    <2>5. Told(pc', err', Rest(receivers), Len(queue) + 1, "recvWoken")
        BY <2>1, <2>2, <2>3, <2>4, ToldOneMore
    <2> QED
        BY <1>3, <1>5, <2>5
<1>8. Listed(pc', senders', "sendWait")
    <2>1. \A u \in Thread : pc'[u] = "sendWait" <=> pc[u] = "sendWait"
        BY <1>1, <1>2
    <2> QED
        BY <1>3, <2>1, ListKept DEF IInv, Senders
<1>9. Told(pc', err', senders', Cardinality(free'), "sendWoken")
    <2>1. \A u \in Thread : pc[u] = "sendWoken" /\ err[u] = "EOK" => pc'[u] = "sendWoken" /\ err'[u] = "EOK"
        BY <1>1, <1>2, <1>3
    <2> QED
        BY <1>3, <2>1, Numbers, ToldStill DEF IInv, Senders
<1>10. Errors'
    BY <1>1, <1>2, <1>3, <1>4, WokenFacts DEF IInv, TypeOK, Errors, Waiting
<1>11. Calls'
    BY <1>1, <1>2, <1>3 DEF IInv, TypeOK, Calls
<1> QED
    BY <1>6, <1>7, <1>8, <1>9, <1>10, <1>11 DEF Receivers, Senders

\* The end of a receive wakes the first sender.
LEMMA RecvFreeServes ==
    ASSUME IInv, NEW t \in Thread, RecvFree(t)
    PROVE  Errors' /\ Calls' /\ Receivers' /\ Senders'
<1> DEFINE F == First(senders)
<1>1. \A u \in F : u \in Thread /\ pc[u] = "sendWait"
    BY RestOfList DEF IInv, Senders, Listed
<1>2. /\ pc[t] = "recvFree" /\ pc'[t] = "idle"
      /\ \A u \in Thread \ {t} : pc'[u] = IF u \in F THEN "sendWoken" ELSE pc[u]
      /\ t \notin F
    BY <1>1, WokenFacts DEF RecvFree, IInv, TypeOK, Resumed, Waiting
<1>3. /\ senders' = Rest(senders) /\ free' = free \union {held[t]}
      /\ UNCHANGED queue /\ UNCHANGED receivers /\ UNCHANGED err /\ UNCHANGED buf
      /\ held' = [held EXCEPT ![t] = NoSlot] /\ call' = [call EXCEPT ![t] = NoCall]
    BY DEF RecvFree, Release
<1> HIDE DEF F
<1>4. \A u \in F : err[u] = "EOK"
    BY <1>1, WokenFacts DEF IInv, Errors, Waiting
<1>5. Cardinality(free') = Cardinality(free) + 1
    <2>1. held[t] \in Slot /\ held[t] \notin free
        BY <1>2 DEF IInv, TypeOK, InCopy, PoolConserved, Holds
    <2>2. IsFiniteSet(free)
        BY FiniteAssumption, FS_Subset DEF IInv, TypeOK
    <2> QED
        BY <1>3, <2>1, <2>2, FS_AddElement
<1>6. Listed(pc', senders', "sendWait")
    <2>1. \A u \in Thread : pc'[u] = "sendWait" <=> pc[u] = "sendWait" /\ u \notin F
        BY <1>1, <1>2
    <2> QED
        BY <1>3, <2>1, ListShrinks DEF IInv, Senders, F
<1>7. Told(pc', err', senders', Cardinality(free'), "sendWoken")
    <2>1. senders \in Seq(Thread) /\ Ordered(senders) /\ Cardinality(free) \in Nat
        BY Numbers DEF IInv, Senders, Listed
    <2>2. Told(pc, err, senders, Cardinality(free), "sendWoken")
        BY DEF IInv, Senders
    <2>3. \A u \in First(senders) : pc[u] # "sendWoken" /\ pc'[u] = "sendWoken" /\ err'[u] = "EOK"
        BY <1>1, <1>2, <1>3, <1>4 DEF F
    <2>4. \A u \in Thread : pc[u] = "sendWoken" /\ err[u] = "EOK" => pc'[u] = "sendWoken" /\ err'[u] = "EOK"
        BY <1>2, <1>3
    <2>5. Told(pc', err', Rest(senders), Cardinality(free) + 1, "sendWoken")
        BY <2>1, <2>2, <2>3, <2>4, ToldOneMore
    <2> QED
        BY <1>3, <1>5, <2>5
<1>8. Listed(pc', receivers', "recvWait")
    <2>1. \A u \in Thread : pc'[u] = "recvWait" <=> pc[u] = "recvWait"
        BY <1>1, <1>2
    <2> QED
        BY <1>3, <2>1, ListKept DEF IInv, Receivers
<1>9. Told(pc', err', receivers', Len(queue'), "recvWoken")
    <2>1. \A u \in Thread : pc[u] = "recvWoken" /\ err[u] = "EOK" => pc'[u] = "recvWoken" /\ err'[u] = "EOK"
        BY <1>1, <1>2, <1>3
    <2> QED
        BY <1>3, <2>1, Numbers, ToldStill DEF IInv, Receivers
<1>10. Errors'
    BY <1>1, <1>2, <1>3, <1>4, WokenFacts DEF IInv, TypeOK, Errors, Waiting
<1>11. Calls'
    <2>1. \A u \in F : call'[u] = call[u] /\ call[u].op = "send" /\ call[u].msg \in Msg
        BY <1>1, <1>2, <1>3 DEF IInv, TypeOK, Calls
    <2> QED
        BY <1>1, <1>2, <1>3, <2>1 DEF IInv, TypeOK, Calls
<1> QED
    BY <1>6, <1>7, <1>8, <1>9, <1>10, <1>11 DEF Receivers, Senders

\* Sleepers that are woken with an error are told of nothing.
LEMMA WakeWithErrorServes ==
    ASSUME IInv, NEW T, MayReset \/ MayDetach, \A t \in T : t \in Thread /\ Waiting(t),
           WakeWithError(T), UNCHANGED <<buf, call, held>>
    PROVE  /\ Errors' /\ Calls'
           /\ \A t \in Thread, at \in {"sendWait", "recvWait"} :
                 pc'[t] = at <=> pc[t] = at /\ t \notin T
           /\ \A t \in Thread, at \in {"sendWoken", "recvWoken"} :
                 pc[t] = at /\ err[t] = "EOK" => pc'[t] = at /\ err'[t] = "EOK"
<1>1. \A t \in Thread :
         /\ pc'[t] = IF t \in T THEN IF pc[t] = "sendWait" THEN "sendWoken" ELSE "recvWoken"
                                ELSE pc[t]
         /\ err'[t] = IF t \in T THEN "ERROR" ELSE err[t]
    BY WokenFacts DEF WakeWithError, Resumed, Waiting
<1>2. \A t \in T : pc[t] \in {"sendWait", "recvWait"}
    BY WokenFacts DEF Waiting
<1>3. Errors'
    BY <1>1, <1>2, WokenFacts DEF IInv, Errors, Waiting
<1>4. Calls'
    BY <1>1, <1>2 DEF IInv, Calls
<1> QED
    BY <1>1, <1>2, <1>3, <1>4

\* The sleepers of a list, and no others, are on it.
LEMMA OnListsWait ==
    ASSUME IInv
    PROVE  /\ \A i \in DOMAIN receivers : receivers[i] \in Thread /\ pc[receivers[i]] = "recvWait"
           /\ \A i \in DOMAIN senders : senders[i] \in Thread /\ pc[senders[i]] = "sendWait"
           /\ \A t \in Thread : pc[t] = "recvWait" <=> t \in ToSet(receivers)
           /\ \A t \in Thread : pc[t] = "sendWait" <=> t \in ToSet(senders)
<1>1. ASSUME NEW list \in Seq(Thread)
      PROVE  /\ \A i \in DOMAIN list : list[i] \in Thread /\ Contains(list, list[i])
             /\ \A t \in Thread : Contains(list, t) <=> t \in ToSet(list)
    <2>1. DOMAIN list = 1..Len(list)
        OBVIOUS
    <2> QED
        BY <2>1 DEF Contains, ToSet
<1> QED
    BY <1>1 DEF IInv, Receivers, Senders, Listed

\* A reset wakes every sleeper with an error and empties both lists.
LEMMA ResetServes ==
    ASSUME IInv, Reset
    PROVE  Errors' /\ Calls' /\ Receivers' /\ Senders'
<1> DEFINE T == ToSet(receivers) \union ToSet(senders)
<1>1. /\ WakeWithError(T) /\ MayReset /\ UNCHANGED <<buf, call, held>>
      /\ receivers' = <<>> /\ senders' = <<>>
    BY DEF Reset
<1>2. \A t \in T : t \in Thread /\ Waiting(t)
    BY OnListsWait, WokenFacts DEF ToSet, Waiting
<1>3. \A t \in Thread : pc[t] \in {"sendWait", "recvWait"} => t \in T
    BY OnListsWait
<1> HIDE DEF T
<1>4. /\ Errors' /\ Calls'
      /\ \A t \in Thread : pc'[t] # "sendWait" /\ pc'[t] # "recvWait"
    BY <1>1, <1>2, <1>3, WakeWithErrorServes
<1>5. Receivers' /\ Senders'
    BY <1>1, <1>4 DEF Receivers, Senders, Listed, Told, Ordered, Contains
<1> QED
    BY <1>4, <1>5

\* A detach wakes one sleeper with an error, or nobody.
LEMMA DetachServes ==
    ASSUME IInv, Detach
    PROVE  Errors' /\ Calls' /\ Receivers' /\ Senders'
<1>1. MayDetach /\ UNCHANGED <<free, queue, buf, call, held>>
    BY DEF Detach, DetachLook, DetachWake, DetachHalt, DetachObject
<1>2. CASE receivers # <<>> /\ WakeWithError({Head(receivers)}) /\ receivers' = Tail(receivers)
           /\ UNCHANGED senders
    <2>1. First(receivers) = {Head(receivers)} /\ receivers' = Rest(receivers)
        BY <1>2 DEF First, Rest
    <2>2. \A t \in First(receivers) : t \in Thread /\ pc[t] = "recvWait" /\ Waiting(t)
        BY RestOfList, WokenFacts DEF IInv, Receivers, Listed, Waiting
    <2>3. /\ Errors' /\ Calls'
          /\ \A t \in Thread, at \in {"sendWait", "recvWait"} :
                pc'[t] = at <=> pc[t] = at /\ t \notin First(receivers)
          /\ \A t \in Thread, at \in {"sendWoken", "recvWoken"} :
                pc[t] = at /\ err[t] = "EOK" => pc'[t] = at /\ err'[t] = "EOK"
        BY <1>1, <1>2, <2>1, <2>2, WakeWithErrorServes
    <2>4. Listed(pc', receivers', "recvWait")
        BY <2>1, <2>3, ListShrinks DEF IInv, Receivers
    <2>5. Listed(pc', senders, "sendWait")
        BY <2>2, <2>3, ListKept DEF IInv, Senders
    <2>6. Told(pc', err', receivers', Len(queue), "recvWoken")
        BY <1>2, <2>3, Numbers, ToldStill DEF IInv, Receivers
    <2>7. Told(pc', err', senders, Cardinality(free), "sendWoken")
        BY <2>3, Numbers, ToldStill DEF IInv, Senders
    <2> QED
        BY <1>1, <1>2, <2>3, <2>4, <2>5, <2>6, <2>7 DEF Receivers, Senders
<1>3. CASE senders # <<>> /\ WakeWithError({Head(senders)}) /\ senders' = Tail(senders)
           /\ UNCHANGED receivers
    <2>1. First(senders) = {Head(senders)} /\ senders' = Rest(senders)
        BY <1>3 DEF First, Rest
    <2>2. \A t \in First(senders) : t \in Thread /\ pc[t] = "sendWait" /\ Waiting(t)
        BY RestOfList, WokenFacts DEF IInv, Senders, Listed, Waiting
    <2>3. /\ Errors' /\ Calls'
          /\ \A t \in Thread, at \in {"sendWait", "recvWait"} :
                pc'[t] = at <=> pc[t] = at /\ t \notin First(senders)
          /\ \A t \in Thread, at \in {"sendWoken", "recvWoken"} :
                pc[t] = at /\ err[t] = "EOK" => pc'[t] = at /\ err'[t] = "EOK"
        BY <1>1, <1>3, <2>1, <2>2, WakeWithErrorServes
    <2>4. Listed(pc', senders', "sendWait")
        BY <2>1, <2>3, ListShrinks DEF IInv, Senders
    <2>5. Listed(pc', receivers, "recvWait")
        BY <2>2, <2>3, ListKept DEF IInv, Receivers
    <2>6. Told(pc', err', receivers, Len(queue), "recvWoken")
        BY <2>3, Numbers, ToldStill DEF IInv, Receivers
    <2>7. Told(pc', err', senders', Cardinality(free), "sendWoken")
        BY <1>3, <2>3, Numbers, ToldStill DEF IInv, Senders
    <2> QED
        BY <1>1, <1>3, <2>3, <2>4, <2>5, <2>6, <2>7 DEF Receivers, Senders
<1>4. CASE UNCHANGED <<pc, err, receivers, senders>>
    BY <1>1, <1>4 DEF IInv, Errors, Waiting, Calls, Receivers, Senders
<1> QED
    BY <1>2, <1>3, <1>4 DEF Detach, DetachLook, DetachWake, DetachHalt, DetachObject

\* A tick counts; what a call wants stays as it is.
LEMMA TickOfCalls ==
    ASSUME TypeOK, Tick
    PROVE  \A t \in Thread : call'[t].op = call[t].op /\ call'[t].msg = call[t].msg
                             /\ call'[t].timeout = call[t].timeout
<1>1. \A c \in Call : LET d == [c EXCEPT !.elapsed = @ + 1]
                      IN  d.op = c.op /\ d.msg = c.msg /\ d.timeout = c.timeout
    BY DEF Call
<1>2. \A t \in Thread : call[t] \in Call
    BY DEF TypeOK
<1>3. \A t \in Thread :
         call'[t] = IF Timed(t) THEN [call[t] EXCEPT !.elapsed = @ + 1] ELSE call[t]
    BY DEF Tick
<1> QED
    BY <1>1, <1>2, <1>3

\* A tick: those whose time has come leave their lists with RT_ETIMEOUT.
LEMMA TickServes ==
    ASSUME IInv, Tick
    PROVE  Errors' /\ Calls' /\ Receivers' /\ Senders'
<1> DEFINE due == {t \in Thread : /\ Waiting(t) /\ Timed(t)
                                  /\ call[t].elapsed + 1 = call[t].timeout}
<1>1. /\ pc' = Resumed(due)
      /\ err' = [t \in Thread |-> IF t \in due THEN "ETIMEOUT" ELSE err[t]]
      /\ receivers' \in Kept(receivers, due) /\ senders' \in Kept(senders, due)
      /\ UNCHANGED <<free, queue, buf, held>>
    BY DEF Tick
<1>2. \A t \in Thread :
         call'[t] = IF Timed(t) THEN [call[t] EXCEPT !.elapsed = @ + 1] ELSE call[t]
    BY DEF Tick
<1>3. \A t \in due : t \in Thread /\ pc[t] \in {"sendWait", "recvWait"}
    BY WokenFacts DEF Waiting
<1>4. \A t \in Thread :
         /\ pc'[t] = IF t \in due THEN IF pc[t] = "sendWait" THEN "sendWoken" ELSE "recvWoken"
                                  ELSE pc[t]
         /\ err'[t] = IF t \in due THEN "ETIMEOUT" ELSE err[t]
    BY <1>1, <1>3, WokenFacts DEF Resumed, Waiting
<1>5. \A t \in Thread : call'[t].op = call[t].op /\ call'[t].msg = call[t].msg
                        /\ call'[t].timeout = call[t].timeout
    BY TickOfCalls DEF IInv
<1>6. \A t \in due : call'[t].elapsed = call'[t].timeout
    <2>1. \A t \in due : t \in Thread /\ Timed(t) /\ call[t].elapsed + 1 = call[t].timeout
        OBVIOUS
    <2>2. \A t \in Thread : Timed(t) => call'[t].elapsed = call[t].elapsed + 1
        BY <1>2 DEF IInv, TypeOK, Call
    <2> QED
        BY <1>5, <2>1, <2>2
<1>7. \A t \in Thread : call[t].elapsed = call[t].timeout => call'[t] = call[t]
    <2>1. \A t \in Thread : call[t].elapsed = call[t].timeout => ~Timed(t)
        BY DEF IInv, TypeOK, Call, Timed
    <2> QED
        BY <1>2, <2>1
<1> HIDE DEF due
<1>8. Errors'
    BY <1>3, <1>4, <1>6, <1>7, WokenFacts DEF IInv, Errors, Waiting
<1>9. Calls'
    BY <1>1, <1>3, <1>4, <1>5 DEF IInv, Calls
<1>10. Listed(pc', receivers', "recvWait") /\ Listed(pc', senders', "sendWait")
    <2>1. \A t \in Thread, at \in {"sendWait", "recvWait"} :
             pc'[t] = at <=> pc[t] = at /\ t \notin due
        BY <1>3, <1>4
    <2> QED
        BY <1>1, <2>1, ListExpires DEF IInv, Receivers, Senders
<1>11. \A t \in Thread, at \in {"sendWoken", "recvWoken"} :
          pc[t] = at /\ err[t] = "EOK" => pc'[t] = at /\ err'[t] = "EOK"
    BY <1>3, <1>4
<1>12. /\ receivers' # <<>> => receivers # <<>>
       /\ senders' # <<>> => senders # <<>>
    BY <1>1, KeptList DEF IInv, Receivers, Senders, Listed
<1>13. Told(pc', err', receivers', Len(queue), "recvWoken")
    BY <1>11, <1>12, Numbers, ToldStill DEF IInv, Receivers
<1>14. Told(pc', err', senders', Cardinality(free), "sendWoken")
    BY <1>11, <1>12, Numbers, ToldStill DEF IInv, Senders
<1> QED
    BY <1>1, <1>8, <1>9, <1>10, <1>13, <1>14 DEF Receivers, Senders

\* Nobody waits in the beginning.
LEMMA InitServes == Init => IInv
<1> SUFFICES ASSUME Init PROVE IInv
    OBVIOUS
<1>1. TypeOK /\ PoolConserved
    BY InitOK
<1>2. Errors /\ Calls
    BY WokenFacts DEF Init, Errors, Calls, Waiting
<1>3. Receivers /\ Senders
    BY DEF Init, Receivers, Senders, Listed, Told, Ordered, Contains
<1> QED
    BY <1>1, <1>2, <1>3 DEF IInv

\* IInv is inductive.
LEMMA StepServes == IInv /\ [Next]_vars => IInv'
<1> SUFFICES ASSUME IInv, [Next]_vars PROVE Errors' /\ Calls' /\ Receivers' /\ Senders'
    BY StepOK DEF IInv
<1>1. ASSUME NEW t \in Thread, Begin(t)
      PROVE  Errors' /\ Calls' /\ Receivers' /\ Senders'
    <2>1. CASE \E m \in Msg, n \in Timeout : SendCall(t, m, n)
        <3>1. PICK m \in Msg, n \in Timeout : SendCall(t, m, n)
            BY <2>1
        <3> DEFINE c == [NoCall EXCEPT !.op = "send", !.msg = m, !.timeout = n]
        <3>2. c \in Call /\ c.op = "send" /\ c.msg \in Msg
            BY TimeoutAssumption DEF NoCall, Call
        <3>3. pc[t] = "idle" /\ SendTurn(t, c)
            BY <3>1 DEF SendCall
        <3> HIDE DEF c
        <3> QED
            BY <3>2, <3>3, SendTurnServes
    <2>2. CASE \E m \in Msg : UrgentCall(t, m)
        <3>1. PICK m \in Msg : UrgentCall(t, m)
            BY <2>2
        <3> DEFINE c == [NoCall EXCEPT !.op = "urgent", !.msg = m]
        <3>2. c \in Call /\ c.msg \in Msg
            <4>1. NoCall \in Call
                BY DEF NoCall, Call
            <4> QED
                BY <4>1 DEF Call
        <3>3. pc[t] = "idle" /\ TakeFree(t, c) /\ UNCHANGED <<queue, entry, buf, receivers, life>>
            BY <3>1 DEF UrgentCall
        <3> HIDE DEF c
        <3> QED
            BY <3>2, <3>3, TakeFreeServes
    <2>3. CASE \E n \in Timeout : RecvCall(t, n)
        <3>1. PICK n \in Timeout : RecvCall(t, n)
            BY <2>3
        <3> DEFINE c == [NoCall EXCEPT !.op = "recv", !.timeout = n]
        <3>2. c \in Call /\ c.op = "recv"
            BY TimeoutAssumption DEF NoCall, Call
        <3>3. pc[t] = "idle" /\ RecvTurn(t, c)
            BY <3>1 DEF RecvCall
        <3> HIDE DEF c
        <3> QED
            BY <3>2, <3>3, RecvTurnServes
    <2> QED
        BY <1>1, <2>1, <2>2, <2>3 DEF Begin
<1>2. ASSUME NEW t \in Thread, SendResume(t) \/ RecvResume(t)
      PROVE  Errors' /\ Calls' /\ Receivers' /\ Senders'
    <2> DEFINE c == [call[t] EXCEPT !.timeout = Remaining(call[t]), !.elapsed = 0]
    <2>1. call[t] \in Call
        BY DEF IInv, TypeOK
    <2>2. c \in Call /\ c.op = call[t].op /\ c.msg = call[t].msg
        BY <2>1, RemainingTyped DEF Call
    <2>3. CASE err[t] # "EOK"
        BY <1>2, <2>3, LeaveServes DEF SendResume, RecvResume
    <2>4. CASE SendResume(t) /\ err[t] = "EOK"
        <3>1. pc[t] = "sendWoken" /\ SendTurn(t, c)
            BY <2>4 DEF SendResume
        <3>2. call[t].op = "send" /\ call[t].msg \in Msg
            BY <3>1 DEF IInv, Calls
        <3> HIDE DEF c
        <3> QED
            BY <2>2, <3>1, <3>2, SendTurnServes
    <2>5. CASE RecvResume(t) /\ err[t] = "EOK"
        <3>1. pc[t] = "recvWoken" /\ RecvTurn(t, c)
            BY <2>5 DEF RecvResume
        <3>2. call[t].op = "recv"
            BY <3>1 DEF IInv, Calls
        <3> HIDE DEF c
        <3> QED
            BY <2>2, <3>1, <3>2, RecvTurnServes
    <2> QED
        BY <1>2, <2>3, <2>4, <2>5
<1>3. ASSUME NEW t \in Thread, Continue(t)
      PROVE  Errors' /\ Calls' /\ Receivers' /\ Senders'
    BY <1>2, <1>3, CopyServes, SendLinkServes, RecvFreeServes DEF Continue
<1>4. CASE UNCHANGED vars
    BY <1>4 DEF IInv, vars, Errors, Waiting, Calls, Receivers, Senders
<1> QED
    BY <1>1, <1>3, <1>4, TickServes, ResetServes, DetachServes DEF Next

\* IInv holds in every reachable state.
LEMMA Invariance == Spec => []IInv
    BY InitServes, StepServes, PTL DEF Spec

\* A wait list holds the suspended threads, each once and in PRIO mode the
\* most urgent first, for any threads, time-outs, resets and detaches.
THEOREM ListsAreExact == Spec => []WaitLists
<1>1. IInv => WaitLists
    BY DEF IInv, Receivers, Senders, Listed, Ordered, WaitLists, ListOf
<1> QED
    BY <1>1, Invariance, PTL

\* While a receiver sleeps, every message has an awakened receiver on its way
\* to it, and while a sender sleeps every free block has a sender: woken
\* threads may be robbed and time out, but wake-ups are not lost.
THEOREM NoWakeupIsLost == Spec => []NoLostWakeup
<1>1. IInv => NoLostWakeup
    BY DEF IInv, Receivers, Senders, Told, Awake, NoLostWakeup, WokenWell
<1> QED
    BY <1>1, Invariance, PTL

\* With at least one block, senders and receivers never all sleep on each other.
THEOREM NobodyWaitsInCircles ==
    ASSUME Slot # {}
    PROVE  Spec => []NoMutualWait
<1>1. ASSUME IInv, receivers # <<>>, senders # <<>>,
             \A t \in Thread : ~InCopy(t) /\ pc[t] \notin {"sendWoken", "recvWoken"}
      PROVE  FALSE
    <2>1. Awake(pc, err, "recvWoken") = {} /\ Awake(pc, err, "sendWoken") = {}
        BY <1>1 DEF Awake
    <2>2. Len(queue) <= 0 /\ Cardinality(free) <= 0
        BY <1>1, <2>1, FS_EmptySet DEF IInv, Receivers, Senders, Told
    <2>3. free = {}
        <3>1. IsFiniteSet(free)
            BY <1>1, FiniteAssumption, FS_Subset DEF IInv, TypeOK
        <3> QED
            BY <1>1, <2>2, <3>1, Numbers, FS_EmptySet DEF IInv
    <2>4. queue = <<>>
        BY <1>1, <2>2 DEF IInv, TypeOK
    <2>5. \A t \in Thread : held[t] = NoSlot
        BY <1>1 DEF IInv, TypeOK
    <2>6. PICK s \in Slot : TRUE
        OBVIOUS
    <2> QED
        BY <1>1, <2>3, <2>4, <2>5, <2>6, SlotAssumption DEF IInv, PoolConserved, Linked, Holds
<1>2. IInv => NoMutualWait
    BY <1>1 DEF NoMutualWait
<1> QED
    BY <1>2, Invariance, PTL

\* A call gives up only for a reason of its own turn: its whole time-out has
\* passed, the queue was reset or detached, or it had no time left and there
\* is nothing for it; a stale error or timer is never acted upon.
THEOREM ReasonsAreGood == Spec => WakesForReason
<1> DEFINE Reason(t) ==
          \/ err[t] = "ETIMEOUT" /\ call[t].elapsed = call[t].timeout
          \/ err[t] = "ERROR" /\ (MayReset \/ MayDetach)
          \/ err[t] = "EOK" /\ Remaining(call[t]) = 0
             /\ (IF call[t].op = "recv" THEN queue = <<>> ELSE free = {})
<1>1. ASSUME IInv, Next, NEW t \in Thread,
             pc[t] \in {"sendWoken", "recvWoken"}, pc'[t] = "idle"
      PROVE  Reason(t)
    <2>1. CASE err[t] # "EOK"
        <3>1. err[t] \in {"ETIMEOUT", "ERROR"}
            BY <1>1, <2>1 DEF IInv, TypeOK
        <3> QED
            BY <1>1, <3>1 DEF IInv, Errors
    <2>2. CASE err[t] = "EOK"
        <3>1. SendResume(t) \/ RecvResume(t)
            <4>1. \A T : Resumed(T)[t] # "idle"
                BY <1>1, WokenFacts DEF Resumed, Waiting
            <4>2. \A u \in Thread : u # t /\ (Begin(u) \/ Continue(u)) => pc'[t] # "idle"
                <5>1. ASSUME NEW u \in Thread, u # t,
                             \/ \E x : pc' = [pc EXCEPT ![u] = x]
                             \/ \E T, x : pc' = [Resumed(T) EXCEPT ![u] = x]
                      PROVE  pc'[t] # "idle"
                    BY <1>1, <4>1, <5>1 DEF IInv, TypeOK, Resumed
                <5>2. ASSUME NEW u \in Thread, NEW c, SendTurn(u, c) \/ RecvTurn(u, c)
                      PROVE  \E x : pc' = [pc EXCEPT ![u] = x]
                    BY <5>2 DEF SendTurn, RecvTurn, TakeFree, Return, Wait
                <5>3. ASSUME NEW u \in Thread, Begin(u)
                      PROVE  \E x : pc' = [pc EXCEPT ![u] = x]
                    BY <5>2, <5>3 DEF Begin, SendCall, UrgentCall, RecvCall, TakeFree
                <5>4. ASSUME NEW u \in Thread, SendResume(u) \/ RecvResume(u)
                      PROVE  \E x : pc' = [pc EXCEPT ![u] = x]
                    BY <5>2, <5>4 DEF SendResume, RecvResume, Return
                <5>5. ASSUME NEW u \in Thread, SendCopy(u) \/ RecvCopy(u)
                      PROVE  \E x : pc' = [pc EXCEPT ![u] = x]
                    BY <5>5 DEF SendCopy, RecvCopy
                <5>6. ASSUME NEW u \in Thread, SendLink(u) \/ RecvFree(u)
                      PROVE  \E T, x : pc' = [Resumed(T) EXCEPT ![u] = x]
                    BY <5>6 DEF SendLink, RecvFree
                <5> QED
                    BY <5>1, <5>3, <5>4, <5>5, <5>6 DEF Continue
            <4>3. ~Tick /\ ~Reset /\ ~Detach
                BY <1>1, <4>1 DEF Tick, Reset, WakeWithError,
                                  Detach, DetachLook, DetachWake, DetachHalt, DetachObject
            <4>4. ~Begin(t)
                BY <1>1 DEF Begin, SendCall, UrgentCall, RecvCall
            <4> QED
                BY <1>1, <4>2, <4>3, <4>4
                   DEF Next, Continue, SendCopy, SendLink, RecvCopy, RecvFree
        <3> DEFINE c == [call[t] EXCEPT !.timeout = Remaining(call[t]), !.elapsed = 0]
        <3>2. c.timeout = Remaining(call[t])
            BY <1>1, RemainingTyped DEF IInv, TypeOK, Call
        <3> HIDE DEF c
        <3>3. CASE SendResume(t)
            <4>1. SendTurn(t, c) /\ call[t].op = "send"
                BY <1>1, <2>2, <3>3 DEF c, SendResume, IInv, Calls
            <4>2. free = {} /\ c.timeout = 0
                BY <1>1, <4>1 DEF SendTurn, TakeFree, Wait, IInv, TypeOK
            <4> QED
                BY <2>2, <3>2, <4>1, <4>2
        <3>4. CASE RecvResume(t)
            <4>1. RecvTurn(t, c) /\ call[t].op = "recv"
                BY <1>1, <2>2, <3>4 DEF c, RecvResume, IInv, Calls
            <4>2. entry = 0 /\ c.timeout = 0
                BY <1>1, <4>1 DEF RecvTurn, Wait, IInv, TypeOK
            <4> QED
                BY <1>1, <2>2, <3>2, <4>1, <4>2, NoEntry
        <3> QED
            BY <3>1, <3>3, <3>4
    <2> QED
        BY <2>1, <2>2
<1>2. IInv /\ [Next]_vars =>
        [\A t \in Thread : pc[t] \in {"sendWoken", "recvWoken"} /\ pc'[t] = "idle"
            => Reason(t)]_vars
    BY <1>1
<1> QED
    BY <1>2, Invariance, PTL DEF Spec, WakesForReason

-----------------------------------------------------------------------------
(* Every step is a step of QueueService, or none at all. *)

\* Every block is free, linked or in one hand.
LEMMA RoomKept ==
    ASSUME TypeOK, PoolConserved
    PROVE  Cardinality(free) = Cardinality(Slot) - Len(queue)
                                 - Cardinality({t \in Thread : InCopy(t)})
<1> DEFINE linked == {queue[i] : i \in DOMAIN queue}
           takers == {t \in Thread : InCopy(t)}
           taken == {held[t] : t \in takers}
<1>1. Len(queue) \in Nat /\ DOMAIN queue = 1..Len(queue) /\ linked \subseteq Slot
    BY DEF TypeOK
<1>2. IsFiniteSet(linked) /\ Cardinality(linked) = Len(queue)
    <2>1. queue \in Bijection(1..Len(queue), linked)
        <3>1. queue \in [1..Len(queue) -> linked]
            BY <1>1 DEF TypeOK
        <3>2. \A i, j \in 1..Len(queue) : queue[i] = queue[j] => i = j
            BY <1>1 DEF PoolConserved
        <3> QED
            BY <1>1, <3>1, <3>2 DEF Bijection, Injection, Surjection, IsInjective
    <2>2. ExistsBijection(1..Len(queue), linked)
        BY <2>1 DEF ExistsBijection
    <2>3. IsFiniteSet(1..Len(queue)) /\ Cardinality(1..Len(queue)) = Len(queue)
        <3>1. \A n \in Nat : IsFiniteSet(1..n) /\ Cardinality(1..n) = n
            <4>1. ASSUME NEW n \in Nat
                  PROVE  IsFiniteSet(1..n) /\ Cardinality(1..n) = n
                <5>1. 1 \in Int /\ n \in Int /\ (n < 1 => n = 0) /\ n - 1 + 1 = n
                    OBVIOUS
                <5>2. /\ IsFiniteSet(1..n)
                      /\ Cardinality(1..n) = IF 1 > n THEN 0 ELSE n - 1 + 1
                    BY <5>1, FS_Interval
                <5> QED
                    BY <5>1, <5>2
            <4> QED
                BY <4>1
        <3> QED
            BY <1>1, <3>1
    <2> HIDE DEF linked
    <2> QED
        BY <2>2, <2>3, FS_Bijection
<1>3. IsFiniteSet(taken) /\ Cardinality(taken) = Cardinality(takers)
    <2> DEFINE hand == [t \in takers |-> held[t]]
    <2>1. hand \in Bijection(takers, taken)
        <3>1. hand \in [takers -> taken]
            OBVIOUS
        <3>2. \A t, u \in takers : hand[t] = hand[u] => t = u
            BY DEF TypeOK, PoolConserved, Holds
        <3>3. \A s \in taken : \E t \in takers : hand[t] = s
            OBVIOUS
        <3> HIDE DEF hand, takers, taken
        <3> QED
            BY <3>1, <3>2, <3>3 DEF Bijection, Injection, Surjection, IsInjective
    <2>2. ExistsBijection(takers, taken)
        BY <2>1 DEF ExistsBijection
    <2>3. IsFiniteSet(takers)
        BY FiniteAssumption, FS_Subset
    <2> HIDE DEF takers, taken
    <2> QED
        BY <2>2, <2>3, FS_Bijection
<1>4. /\ Slot = (free \union linked) \union taken
      /\ free \cap linked = {} /\ (free \union linked) \cap taken = {}
    <2>1. \A s \in Slot : s \in linked <=> Linked(s)
        BY DEF Linked
    <2>2. \A s \in Slot : s \in taken <=> \E t \in Thread : Holds(t, s)
        BY SlotAssumption DEF TypeOK, Holds
    <2>3. free \subseteq Slot /\ taken \subseteq Slot
        BY DEF TypeOK
    <2> HIDE DEF linked, taken
    <2> QED
        BY <1>1, <2>1, <2>2, <2>3 DEF PoolConserved
<1>5. IsFiniteSet(free) /\ Cardinality(free) \in Nat
    BY FiniteAssumption, FS_Subset, FS_CardinalityType DEF TypeOK
<1>6. Cardinality(takers) \in Nat
    BY FiniteAssumption, FS_Subset, FS_CardinalityType
<1> HIDE DEF linked, taken, takers
<1>7. ASSUME NEW S, NEW T, IsFiniteSet(S), IsFiniteSet(T), S \cap T = {}
      PROVE  /\ IsFiniteSet(S \union T)
             /\ Cardinality(S \union T) = Cardinality(S) + Cardinality(T)
    <2>1. Cardinality(S) \in Nat /\ Cardinality(T) \in Nat
        BY <1>7, FS_CardinalityType
    <2>2. Cardinality(S \cap T) = 0
        BY <1>7, FS_EmptySet
    <2>3. /\ IsFiniteSet(S \union T)
          /\ Cardinality(S \union T)
                = Cardinality(S) + Cardinality(T) - Cardinality(S \cap T)
        BY <1>7, FS_Union
    <2> QED
        BY <2>1, <2>2, <2>3
<1>8. Cardinality(Slot) = Cardinality(free) + Len(queue) + Cardinality(takers)
    <2>1. /\ IsFiniteSet(free \union linked)
          /\ Cardinality(free \union linked) = Cardinality(free) + Cardinality(linked)
        BY <1>2, <1>4, <1>5, <1>7
    <2>2. Cardinality((free \union linked) \union taken)
             = Cardinality(free \union linked) + Cardinality(taken)
        BY <1>3, <1>4, <1>7, <2>1
    <2> QED
        BY <1>2, <1>3, <1>4, <2>1, <2>2
<1> QED
    BY <1>1, <1>5, <1>6, <1>8 DEF takers

\* A thread whose stage a step leaves alone.
LEMMA SameStage ==
    ASSUME NEW t \in Thread,
           \/ /\ pc'[t] = pc[t] /\ held'[t] = held[t] /\ out'[t] = out[t]
              /\ call'[t].msg = call[t].msg /\ call'[t].op = call[t].op
              /\ pc[t] = "recvCopy" => buf'[held[t]] = buf[held[t]]
           \/ /\ pc[t] \in {"sendWait", "sendWoken", "recvWait", "recvWoken"}
              /\ pc'[t] \in {"sendWait", "sendWoken", "recvWait", "recvWoken"}
    PROVE  Stages'[t] = Stages[t]
    BY DEF Stages, Stage

\* The stage of a call, by the thread's program counter.
LEMMA StageOf ==
    ASSUME NEW t \in Thread
    PROVE  /\ pc[t] = "idle" => Stages[t] = [at |-> "idle"]
           /\ pc[t] \in {"sendWait", "sendWoken", "recvWait", "recvWoken"} =>
                 Stages[t] = [at |-> "blocked"]
           /\ pc[t] \in {"sendCopy", "sendLink"} =>
                 Stages[t] = [at |-> "putting", msg |-> call[t].msg,
                              urgent |-> call[t].op = "urgent"]
           /\ pc[t] = "recvCopy" => Stages[t] = [at |-> "getting", msg |-> buf[held[t]]]
           /\ pc[t] = "recvFree" => Stages[t] = [at |-> "delivered", msg |-> out[t]]
    BY DEF Stages, Stage

\* One thread goes from stage to stage, the others stay.
LEMMA OneBecomes ==
    ASSUME NEW t \in Thread, \A u \in Thread \ {t} : Stages'[u] = Stages[u]
    PROVE  Service!Becomes(t, Stages'[t])
    BY DEF Service!Becomes, Stages

\* No thread changes its stage.
LEMMA NobodyBecomes ==
    ASSUME \A t \in Thread : Stages'[t] = Stages[t]
    PROVE  Stages' = Stages
    BY DEF Stages

\* The calls the service sees under way are the copies.
LEMMA InFlight ==
    ASSUME TypeOK
    PROVE  Service!InFlight = {t \in Thread : InCopy(t)}
<1>1. ASSUME NEW t \in Thread
      PROVE  Stages[t].at \in {"putting", "getting", "delivered"} <=> InCopy(t)
    <2>1. Stages[t].at = CASE pc[t] = "idle" -> "idle"
                           [] pc[t] \in {"sendCopy", "sendLink"} -> "putting"
                           [] pc[t] = "recvCopy" -> "getting"
                           [] pc[t] = "recvFree" -> "delivered"
                           [] OTHER -> "blocked"
        BY DEF Stages, Stage
    <2> QED
        BY <2>1 DEF TypeOK, InCopy
<1> QED
    BY <1>1 DEF Service!InFlight

\* A turn that takes nothing blocks its call, keeps it blocked or ends it.
LEMMA NoTurnServed ==
    ASSUME NEW t \in Thread, pc[t] \in {"idle", "sendWoken", "recvWoken"},
           pc'[t] \in {"idle", "sendWait", "recvWait"}, UNCHANGED Visible,
           \A u \in Thread \ {t} : Stages'[u] = Stages[u]
    PROVE  [Service!SNext]_(Service!svars)
<1>1. /\ pc'[t] = "idle" => Stages'[t] = [at |-> "idle"]
      /\ pc'[t] \in {"sendWait", "recvWait"} => Stages'[t] = [at |-> "blocked"]
    BY DEF Stages, Stage
<1>2. Service!Becomes(t, Stages'[t])
    BY OneBecomes
<1>3. CASE pc[t] = "idle" /\ pc'[t] = "idle"
    <2>1. Stages' = Stages
        BY <1>1, <1>3, StageOf, NobodyBecomes
    <2> QED
        BY <2>1 DEF Service!svars
<1>4. CASE pc[t] = "idle" /\ pc'[t] # "idle"
    <2>1. Service!Block(t)
        BY <1>1, <1>2, <1>4, StageOf DEF Service!Block, Service!Idle, Service!Blocked
    <2> QED
        BY <2>1 DEF Service!SNext
<1>5. CASE pc[t] # "idle" /\ pc'[t] = "idle"
    <2>1. Service!GiveUp(t)
        BY <1>1, <1>2, <1>5, StageOf DEF Service!GiveUp, Service!Idle, Service!Blocked
    <2> QED
        BY <2>1 DEF Service!SNext
<1>6. CASE pc[t] # "idle" /\ pc'[t] # "idle"
    <2>1. Stages' = Stages
        BY <1>1, <1>6, StageOf, NobodyBecomes
    <2> QED
        BY <2>1 DEF Service!svars
<1> QED
    BY <1>3, <1>4, <1>5, <1>6

\* The messages behind a list of blocks, as the service lists them.
Read(list) == [i \in DOMAIN list |-> buf[list[i]]]

\* Reading the blocks commutes with adding to and taking from their list.
LEMMA ReadLists ==
    ASSUME NEW list \in Seq(Slot), NEW s \in Slot
    PROVE  /\ Len(Read(list)) = Len(list)
           /\ Read(Append(list, s)) = Append(Read(list), buf[s])
           /\ Read(<<s>> \o list) = <<buf[s]>> \o Read(list)
           /\ list # <<>> => /\ Read(list) # <<>>
                             /\ Head(Read(list)) = buf[Head(list)]
                             /\ Read(Tail(list)) = Tail(Read(list))
<1> DEFINE S == {buf[r] : r \in Slot}
           n == Len(list)
<1>1. n \in Nat /\ DOMAIN list = 1..n /\ \A i \in 1..n : list[i] \in Slot
    OBVIOUS
<1>2. Read(list) \in Seq(S) /\ Len(Read(list)) = n /\ \A i \in 1..n : Read(list)[i] = buf[list[i]]
    BY <1>1 DEF Read
<1>3. buf[s] \in S
    OBVIOUS
<1> HIDE DEF S
<1>4. Read(Append(list, s)) = Append(Read(list), buf[s])
    BY <1>1, <1>2, <1>3 DEF Read
<1>5. Read(<<s>> \o list) = <<buf[s]>> \o Read(list)
    <2> DEFINE l == <<s>> \o list
               r == <<buf[s]>> \o Read(list)
    <2>1. /\ DOMAIN l = 1..n + 1 /\ l[1] = s
          /\ \A i \in 2..n + 1 : l[i] = list[i - 1]
        BY <1>1
    <2>2. /\ r \in Seq(S) /\ DOMAIN r = 1..n + 1 /\ r[1] = buf[s]
          /\ \A i \in 2..n + 1 : r[i] = Read(list)[i - 1]
        BY <1>1, <1>2, <1>3
    <2> HIDE DEF l, r
    <2>3. \A i \in 1..n + 1 : buf[l[i]] = r[i]
        BY <1>1, <1>2, <2>1, <2>2
    <2>4. r = [i \in 1..n + 1 |-> r[i]]
        BY <2>2
    <2>5. Read(l) = [i \in 1..n + 1 |-> buf[l[i]]]
        BY <2>1 DEF Read
    <2>6. Read(l) = r
        BY <2>3, <2>4, <2>5
    <2> QED
        BY <2>6 DEF l, r
<1>6. ASSUME list # <<>>
      PROVE  /\ Read(list) # <<>> /\ Head(Read(list)) = buf[Head(list)]
             /\ Read(Tail(list)) = Tail(Read(list))
    BY <1>1, <1>2, <1>6 DEF Read
<1> QED
    BY <1>2, <1>4, <1>5, <1>6

\* What a step does with one thread, and with the messages a receive can find.
LEMMA OthersStay ==
    ASSUME NEW t \in Thread,
           \A u \in Thread \ {t} :
              /\ held'[u] = held[u] /\ out'[u] = out[u]
              /\ call'[u].msg = call[u].msg /\ call'[u].op = call[u].op
              /\ pc[u] = "recvCopy" => buf'[held[u]] = buf[held[u]]
              /\ \/ pc'[u] = pc[u]
                 \/ /\ pc[u] \in {"sendWait", "sendWoken", "recvWait", "recvWoken"}
                    /\ pc'[u] \in {"sendWait", "sendWoken", "recvWait", "recvWoken"}
    PROVE  /\ \A u \in Thread \ {t} : Stages'[u] = Stages[u]
           /\ Service!Becomes(t, Stages'[t])
<1>1. \A u \in Thread \ {t} : Stages'[u] = Stages[u]
    BY SameStage
<1> QED
    BY <1>1, OneBecomes

\* A step that keeps the queue and what its blocks hold.
LEMMA VisibleStays ==
    ASSUME UNCHANGED queue, \A i \in DOMAIN queue : buf'[queue[i]] = buf[queue[i]]
    PROVE  UNCHANGED Visible
    BY DEF Visible

\* A block taken off the free list is room the service had.
LEMMA ClaimServed ==
    ASSUME IInv, NEW t \in Thread, NEW c \in Call, pc[t] \in {"idle", "sendWoken"},
           c.msg \in Msg, TakeFree(t, c), UNCHANGED <<queue, entry, buf, receivers, life>>
    PROVE  Service!SNext
<1>1. PICK s \in free : free' = free \ {s} /\ held' = [held EXCEPT ![t] = s]
    BY DEF TakeFree
<1>2. /\ pc' = [pc EXCEPT ![t] = "sendCopy"] /\ call' = [call EXCEPT ![t] = c]
      /\ UNCHANGED out
    BY DEF TakeFree
<1>3. pc'[t] = "sendCopy" /\ call'[t] = c
    BY <1>2 DEF IInv, TypeOK
<1>4. Service!Becomes(t, Stages'[t])
    <2>1. \A u \in Thread \ {t} :
             /\ held'[u] = held[u] /\ out'[u] = out[u] /\ call'[u] = call[u]
             /\ buf' = buf /\ pc'[u] = pc[u]
        BY <1>1, <1>2 DEF IInv, TypeOK
    <2> QED
        BY <2>1, OthersStay
<1>5. Stages'[t] = Service!Putting(c.msg, c.op = "urgent")
    BY <1>3 DEF Stages, Stage, Service!Putting
<1>6. Service!Uncommitted(t)
    BY StageOf DEF Service!Uncommitted, Service!Idle, Service!Blocked
<1>7. Service!Room > 0
    <2>1. Len(Visible) = Len(queue) /\ Len(queue) \in Nat
        BY DEF Visible, IInv, TypeOK
    <2>2. IsFiniteSet(free) /\ Cardinality(free) \in Nat /\ Cardinality(free) # 0
        BY <1>1, FiniteAssumption, FS_Subset, FS_CardinalityType, FS_EmptySet DEF IInv, TypeOK
    <2>3. Cardinality({u \in Thread : InCopy(u)}) \in Nat /\ Cardinality(Slot) \in Nat
        BY FiniteAssumption, FS_Subset, FS_CardinalityType
    <2>4. Cardinality(free) = Cardinality(Slot) - Len(queue)
                                - Cardinality({u \in Thread : InCopy(u)})
        BY RoomKept DEF IInv
    <2>5. Service!Room = Cardinality(Slot) - Len(queue)
                           - Cardinality({u \in Thread : InCopy(u)})
        <3> DEFINE takers == {u \in Thread : InCopy(u)}
        <3>1. Service!InFlight = takers
            BY InFlight DEF IInv
        <3>2. Service!Room = Cardinality(Slot) - Len(Visible) - Cardinality(Service!InFlight)
            <4>1. Service!Cardinality(Service!InFlight) = Cardinality(Service!InFlight)
                BY DEF Service!Cardinality, Cardinality
            <4> QED
                BY <4>1 DEF Service!Room
        <3> HIDE DEF takers
        <3>3. Service!Room = Cardinality(Slot) - Len(queue) - Cardinality(takers)
            BY <2>1, <3>1, <3>2
        <3> QED
            BY <3>3 DEF takers
    <2> QED
        BY <2>2, <2>4, <2>5
<1>8. UNCHANGED Visible
    BY VisibleStays
<1>9. Service!Claim(t)
    BY <1>4, <1>5, <1>6, <1>7, <1>8 DEF Service!Claim
<1> QED
    BY <1>9 DEF Service!SNext

\* A turn of rt_mq_send_wait claims room, blocks or gives up.
LEMMA SendTurnServed ==
    ASSUME IInv, NEW t \in Thread, NEW c \in Call, pc[t] \in {"idle", "sendWoken"},
           c.msg \in Msg, SendTurn(t, c)
    PROVE  [Service!SNext]_(Service!svars)
<1>1. CASE free # {} /\ TakeFree(t, c)
    BY <1>1, ClaimServed DEF SendTurn
<1>2. CASE ~(free # {} /\ TakeFree(t, c))
    <2>1. /\ UNCHANGED <<queue, buf, held>>
          /\ \/ pc' = [pc EXCEPT ![t] = "idle"]
             \/ pc' = [pc EXCEPT ![t] = "sendWait"]
          /\ \A u \in Thread \ {t} : call'[u] = call[u] /\ out'[u] = out[u]
        BY <1>2 DEF SendTurn, Return, Wait, IInv, TypeOK
    <2>2. pc'[t] \in {"idle", "sendWait"} /\ \A u \in Thread \ {t} : pc'[u] = pc[u]
        BY <2>1 DEF IInv, TypeOK
    <2>3. \A u \in Thread \ {t} : Stages'[u] = Stages[u]
        BY <2>1, <2>2, OthersStay
    <2>4. UNCHANGED Visible
        BY <2>1, VisibleStays
    <2> QED
        BY <2>2, <2>3, <2>4, NoTurnServed
<1> QED
    BY <1>1, <1>2

\* A block unlinked from the head is the message the service removes.
LEMMA RecvTurnServed ==
    ASSUME IInv, NEW t \in Thread, NEW c \in Call, pc[t] \in {"idle", "recvWoken"},
           RecvTurn(t, c)
    PROVE  [Service!SNext]_(Service!svars)
<1>1. CASE entry # 0
    <2>1. /\ held' = [held EXCEPT ![t] = Head(queue)] /\ queue' = Tail(queue)
          /\ pc' = [pc EXCEPT ![t] = "recvCopy"] /\ call' = [call EXCEPT ![t] = c]
          /\ UNCHANGED <<out, buf>>
        BY <1>1 DEF RecvTurn
    <2>2. queue \in Seq(Slot) /\ queue # <<>> /\ Head(queue) \in Slot
        BY <1>1 DEF IInv, TypeOK, PoolConserved
    <2>3. pc'[t] = "recvCopy" /\ held'[t] = Head(queue)
        BY <2>1 DEF IInv, TypeOK
    <2>4. Service!Becomes(t, Stages'[t])
        <3>1. \A u \in Thread \ {t} :
                 /\ held'[u] = held[u] /\ out'[u] = out[u] /\ call'[u] = call[u]
                 /\ buf' = buf /\ pc'[u] = pc[u]
            BY <2>1 DEF IInv, TypeOK
        <3> QED
            BY <3>1, OthersStay
    <2>5. Stages'[t] = Service!Getting(buf[Head(queue)])
        BY <2>1, <2>3 DEF Stages, Stage, Service!Getting
    <2>6. /\ Visible # <<>> /\ Head(Visible) = buf[Head(queue)]
          /\ Visible' = Tail(Visible)
        <3>1. Visible = Read(queue) /\ Visible' = Read(Tail(queue))
            BY <2>1 DEF Visible, Read
        <3> QED
            BY <2>2, <3>1, ReadLists
    <2>7. Service!Uncommitted(t)
        BY StageOf DEF Service!Uncommitted, Service!Idle, Service!Blocked
    <2>8. Service!Remove(t)
        BY <2>4, <2>5, <2>6, <2>7 DEF Service!Remove
    <2> QED
        BY <2>8 DEF Service!SNext
<1>2. CASE entry = 0
    <2>1. /\ UNCHANGED <<queue, buf, held>>
          /\ \/ pc' = [pc EXCEPT ![t] = "idle"]
             \/ pc' = [pc EXCEPT ![t] = "recvWait"]
          /\ \A u \in Thread \ {t} : call'[u] = call[u] /\ out'[u] = out[u]
        BY <1>2 DEF RecvTurn, Return, Wait, IInv, TypeOK
    <2>2. pc'[t] \in {"idle", "recvWait"} /\ \A u \in Thread \ {t} : pc'[u] = pc[u]
        BY <2>1 DEF IInv, TypeOK
    <2>3. \A u \in Thread \ {t} : Stages'[u] = Stages[u]
        BY <2>1, <2>2, OthersStay
    <2>4. UNCHANGED Visible
        BY <2>1, VisibleStays
    <2> QED
        BY <2>2, <2>3, <2>4, NoTurnServed
<1> QED
    BY <1>1, <1>2

\* A call that ends with an error has claimed and removed nothing.
LEMMA LeaveServed ==
    ASSUME IInv, NEW t \in Thread, pc[t] \in {"sendWoken", "recvWoken"}, Return(t),
           UNCHANGED <<free, queue, entry, buf, receivers, senders, held, err, life>>
    PROVE  [Service!SNext]_(Service!svars)
<1>1. /\ pc'[t] = "idle" /\ UNCHANGED <<queue, buf, held>>
      /\ \A u \in Thread \ {t} : pc'[u] = pc[u] /\ call'[u] = call[u] /\ out'[u] = out[u]
    BY DEF Return, IInv, TypeOK
<1>2. \A u \in Thread \ {t} : Stages'[u] = Stages[u]
    BY <1>1, OthersStay
<1>3. UNCHANGED Visible
    BY <1>1, VisibleStays
<1> QED
    BY <1>1, <1>2, <1>3, NoTurnServed

\* The copies: a send's fills a block no receive can find yet, a receive's
\* delivers what the block holds.
LEMMA SendCopyServed ==
    ASSUME IInv, NEW t \in Thread, SendCopy(t)
    PROVE  UNCHANGED Service!svars
<1>1. /\ pc[t] = "sendCopy" /\ pc'[t] = "sendLink"
      /\ buf' = [buf EXCEPT ![held[t]] = call[t].msg]
      /\ UNCHANGED <<queue, call, held, out>>
      /\ \A u \in Thread \ {t} : pc'[u] = pc[u]
    BY DEF SendCopy, IInv, TypeOK
<1>2. held[t] \in Slot /\ held[t] # NoSlot
    BY <1>1, SlotAssumption DEF IInv, TypeOK, InCopy
<1>3. \A s : s # held[t] /\ s \in Slot => buf'[s] = buf[s]
    BY <1>1 DEF IInv, TypeOK
<1>4. \A i \in DOMAIN queue : queue[i] \in Slot /\ queue[i] # held[t]
    <2>1. \A i \in DOMAIN queue : queue[i] \in Slot
        BY DEF IInv, TypeOK
    <2>2. ~Linked(held[t])
        BY <1>2 DEF IInv, PoolConserved, Holds
    <2> QED
        BY <2>1, <2>2 DEF Linked
<1>5. \A u \in Thread \ {t} : pc[u] = "recvCopy" => held[u] \in Slot /\ held[u] # held[t]
    BY <1>2, SlotAssumption DEF IInv, TypeOK, InCopy, PoolConserved, Holds
<1>6. UNCHANGED Visible
    BY <1>1, <1>3, <1>4, VisibleStays
<1>7. \A u \in Thread \ {t} : Stages'[u] = Stages[u]
    BY <1>1, <1>3, <1>5, OthersStay
<1>8. Stages'[t] = Stages[t]
    BY <1>1 DEF Stages, Stage
<1> QED
    BY <1>6, <1>7, <1>8, NobodyBecomes DEF Service!svars

\* The receiver's copy delivers what its block holds.
LEMMA RecvCopyServed ==
    ASSUME IInv, NEW t \in Thread, RecvCopy(t)
    PROVE  Service!Deliver(t)
<1>1. /\ pc[t] = "recvCopy" /\ pc'[t] = "recvFree" /\ out'[t] = buf[held[t]]
      /\ UNCHANGED <<queue, buf, call, held>>
      /\ \A u \in Thread \ {t} : pc'[u] = pc[u] /\ out'[u] = out[u]
    BY DEF RecvCopy, IInv, TypeOK
<1>2. Service!Becomes(t, Stages'[t])
    BY <1>1, OthersStay
<1>3. Stages[t] = [at |-> "getting", msg |-> buf[held[t]]]
    BY <1>1, StageOf
<1>4. Stages'[t] = Service!Delivered(buf[held[t]])
    BY <1>1 DEF Stages, Stage, Service!Delivered
<1>5. UNCHANGED Visible
    BY <1>1, VisibleStays
<1> QED
    BY <1>2, <1>3, <1>4, <1>5 DEF Service!Deliver

\* A link makes the message visible, at the tail or, urgent, at the head.
LEMMA SendLinkServed ==
    ASSUME IInv, NEW t \in Thread, SendLink(t)
    PROVE  Service!Publish(t)
<1>1. /\ pc[t] = "sendLink" /\ queue' = Placed(t)
      /\ held' = [held EXCEPT ![t] = NoSlot] /\ call' = [call EXCEPT ![t] = NoCall]
      /\ pc' = [Resumed(First(receivers)) EXCEPT ![t] = "idle"]
      /\ UNCHANGED <<buf, out>>
    BY DEF SendLink, Release
<1>2. held[t] \in Slot /\ buf[held[t]] = call[t].msg
    BY <1>1 DEF IInv, TypeOK, InCopy, Calls
<1>3. /\ pc'[t] = "idle"
      /\ \A u \in Thread \ {t} :
            /\ held'[u] = held[u] /\ call'[u] = call[u]
            /\ \/ pc'[u] = pc[u]
               \/ /\ pc[u] \in {"sendWait", "recvWait"}
                  /\ pc'[u] \in {"sendWoken", "recvWoken"}
    BY <1>1, WokenFacts DEF Resumed, Waiting, IInv, TypeOK
<1>4. Service!Becomes(t, Stages'[t])
    BY <1>1, <1>3, OthersStay
<1>5. Stages'[t] = Service!Idle
    BY <1>3 DEF Stages, Stage, Service!Idle
<1>6. /\ Stages[t].at = "putting" /\ Stages[t].msg = call[t].msg
      /\ Stages[t].urgent = (call[t].op = "urgent")
    <2>1. Stages[t] = [at |-> "putting", msg |-> call[t].msg, urgent |-> call[t].op = "urgent"]
        BY <1>1, StageOf
    <2> QED
        BY <2>1
<1>7. Visible' = IF call[t].op = "urgent" THEN <<call[t].msg>> \o Visible
                                          ELSE Append(Visible, call[t].msg)
    <2>1. queue \in Seq(Slot)
        BY DEF IInv, TypeOK
    <2>2. Visible = Read(queue) /\ Visible' = Read(Placed(t))
        BY <1>1 DEF Visible, Read
    <2>3. Placed(t) = IF call[t].op = "urgent" THEN <<held[t]>> \o queue
                                               ELSE Append(queue, held[t])
        BY DEF Placed, Cons
    <2> QED
        BY <1>2, <2>1, <2>2, <2>3, ReadLists
<1> QED
    BY <1>4, <1>5, <1>6, <1>7 DEF Service!Publish

\* A block put back on the free list is room given back.
LEMMA RecvFreeServed ==
    ASSUME IInv, NEW t \in Thread, RecvFree(t)
    PROVE  Service!GiveBack(t)
<1>1. /\ pc[t] = "recvFree"
      /\ held' = [held EXCEPT ![t] = NoSlot] /\ call' = [call EXCEPT ![t] = NoCall]
      /\ pc' = [Resumed(First(senders)) EXCEPT ![t] = "idle"]
      /\ out' = [out EXCEPT ![t] = NoMsg] /\ UNCHANGED <<buf, queue>>
    BY DEF RecvFree, Release
<1>2. /\ pc'[t] = "idle"
      /\ \A u \in Thread \ {t} :
            /\ held'[u] = held[u] /\ call'[u] = call[u] /\ out'[u] = out[u]
            /\ \/ pc'[u] = pc[u]
               \/ /\ pc[u] \in {"sendWait", "recvWait"}
                  /\ pc'[u] \in {"sendWoken", "recvWoken"}
    BY <1>1, WokenFacts DEF Resumed, Waiting, IInv, TypeOK
<1>3. Service!Becomes(t, Stages'[t])
    BY <1>1, <1>2, OthersStay
<1>4. Stages'[t] = Service!Idle
    BY <1>2 DEF Stages, Stage, Service!Idle
<1>5. Stages[t] = [at |-> "delivered", msg |-> out[t]]
    BY <1>1, StageOf
<1>6. UNCHANGED Visible
    BY <1>1, VisibleStays
<1> QED
    BY <1>3, <1>4, <1>5, <1>6 DEF Service!GiveBack

\* Waking threads, with or without an error, is nothing the service sees.
LEMMA WakingUnseen ==
    ASSUME IInv, NEW T, pc' = Resumed(T), UNCHANGED <<buf, held, out>>,
           \A t \in Thread : call'[t].op = call[t].op /\ call'[t].msg = call[t].msg
    PROVE  UNCHANGED Stages
<1>1. \A t \in Thread :
         \/ pc'[t] = pc[t]
         \/ pc[t] \in {"sendWait", "recvWait"} /\ pc'[t] \in {"sendWoken", "recvWoken"}
    BY WokenFacts DEF Resumed, Waiting
<1>2. \A t \in Thread : Stages'[t] = Stages[t]
    BY <1>1, SameStage
<1> QED
    BY <1>2, NobodyBecomes

\* Ticks and detaches are nothing the service sees; a reset discards.
LEMMA EnvironmentServed ==
    ASSUME IInv, Tick \/ Reset \/ Detach
    PROVE  [Service!SNext]_(Service!svars)
<1>1. CASE Tick
    <2>1. /\ \E T : pc' = Resumed(T)
          /\ UNCHANGED <<buf, held, out, queue>>
        BY <1>1 DEF Tick
    <2>2. \A t \in Thread : call'[t].op = call[t].op /\ call'[t].msg = call[t].msg
        BY <1>1, TickOfCalls DEF IInv
    <2>3. UNCHANGED Stages
        BY <2>1, <2>2, WakingUnseen
    <2>4. UNCHANGED Visible
        BY <2>1, VisibleStays
    <2> QED
        BY <2>3, <2>4 DEF Service!svars
<1>2. CASE Reset
    <2>1. /\ \E T : pc' = Resumed(T)
          /\ UNCHANGED <<buf, held, out, call>> /\ queue' = <<>>
        BY <1>2 DEF Reset, WakeWithError
    <2>2. UNCHANGED Stages
        BY <2>1, WakingUnseen
    <2>3. Visible' = <<>>
        BY <2>1 DEF Visible
    <2> QED
        BY <2>2, <2>3 DEF Service!SNext, Service!Discard
<1>3. CASE Detach
    <2>1. /\ UNCHANGED <<buf, held, out, call, queue>>
          /\ pc' = pc \/ \E T : pc' = Resumed(T)
        BY <1>3 DEF Detach, DetachLook, DetachWake, DetachHalt, DetachObject,
                    WakeWithError
    <2>2. UNCHANGED Stages
        <3>1. CASE pc' = pc
            BY <2>1, <3>1, SameStage, NobodyBecomes
        <3>2. CASE \E T : pc' = Resumed(T)
            BY <2>1, <3>2, WakingUnseen
        <3> QED
            BY <2>1, <3>1, <3>2
    <2>3. UNCHANGED Visible
        BY <2>1, VisibleStays
    <2> QED
        BY <2>2, <2>3 DEF Service!svars
<1> QED
    BY <1>1, <1>2, <1>3

\* The queue starts as the service does.
LEMMA InitServed == Init => Service!SInit
    BY DEF Init, Service!SInit, Service!Idle, Visible, Stages, Stage

\* Every step is a step of the service or none.
LEMMA StepServed == IInv /\ [Next]_vars => [Service!SNext]_(Service!svars)
<1> SUFFICES ASSUME IInv, [Next]_vars PROVE [Service!SNext]_(Service!svars)
    OBVIOUS
<1>1. ASSUME NEW t \in Thread, Begin(t)
      PROVE  [Service!SNext]_(Service!svars)
    <2>1. CASE \E m \in Msg, n \in Timeout : SendCall(t, m, n)
        <3>1. PICK m \in Msg, n \in Timeout : SendCall(t, m, n)
            BY <2>1
        <3> DEFINE c == [NoCall EXCEPT !.op = "send", !.msg = m, !.timeout = n]
        <3>2. c \in Call /\ c.msg \in Msg
            BY TimeoutAssumption DEF NoCall, Call
        <3>3. pc[t] = "idle" /\ SendTurn(t, c)
            BY <3>1 DEF SendCall
        <3> HIDE DEF c
        <3> QED
            BY <3>2, <3>3, SendTurnServed
    <2>2. CASE \E m \in Msg : UrgentCall(t, m)
        <3>1. PICK m \in Msg : UrgentCall(t, m)
            BY <2>2
        <3> DEFINE c == [NoCall EXCEPT !.op = "urgent", !.msg = m]
        <3>2. c \in Call /\ c.msg \in Msg
            <4>1. NoCall \in Call
                BY DEF NoCall, Call
            <4> QED
                BY <4>1 DEF Call
        <3>3. pc[t] = "idle" /\ TakeFree(t, c) /\ UNCHANGED <<queue, entry, buf, receivers, life>>
            BY <3>1 DEF UrgentCall
        <3> HIDE DEF c
        <3> QED
            BY <3>2, <3>3, ClaimServed
    <2>3. CASE \E n \in Timeout : RecvCall(t, n)
        <3>1. PICK n \in Timeout : RecvCall(t, n)
            BY <2>3
        <3> DEFINE c == [NoCall EXCEPT !.op = "recv", !.timeout = n]
        <3>2. c \in Call
            BY TimeoutAssumption DEF NoCall, Call
        <3>3. pc[t] = "idle" /\ RecvTurn(t, c)
            BY <3>1 DEF RecvCall
        <3> HIDE DEF c
        <3> QED
            BY <3>2, <3>3, RecvTurnServed
    <2> QED
        BY <1>1, <2>1, <2>2, <2>3 DEF Begin
<1>2. ASSUME NEW t \in Thread, SendResume(t) \/ RecvResume(t)
      PROVE  [Service!SNext]_(Service!svars)
    <2> DEFINE c == [call[t] EXCEPT !.timeout = Remaining(call[t]), !.elapsed = 0]
    <2>1. call[t] \in Call
        BY DEF IInv, TypeOK
    <2>2. c \in Call /\ c.msg = call[t].msg
        BY <2>1, RemainingTyped DEF Call
    <2>3. CASE err[t] # "EOK"
        BY <1>2, <2>3, LeaveServed DEF SendResume, RecvResume
    <2>4. CASE SendResume(t) /\ err[t] = "EOK"
        <3>1. pc[t] = "sendWoken" /\ SendTurn(t, c) /\ c.msg \in Msg
            BY <2>2, <2>4 DEF SendResume, IInv, Calls
        <3> HIDE DEF c
        <3> QED
            BY <2>2, <3>1, SendTurnServed
    <2>5. CASE RecvResume(t) /\ err[t] = "EOK"
        <3>1. pc[t] = "recvWoken" /\ RecvTurn(t, c)
            BY <2>5 DEF RecvResume
        <3> HIDE DEF c
        <3> QED
            BY <2>2, <3>1, RecvTurnServed
    <2> QED
        BY <1>2, <2>3, <2>4, <2>5
<1>3. ASSUME NEW t \in Thread, Continue(t)
      PROVE  [Service!SNext]_(Service!svars)
    <2>1. CASE SendCopy(t)
        BY <2>1, SendCopyServed
    <2>2. CASE SendLink(t)
        BY <2>2, SendLinkServed DEF Service!SNext
    <2>3. CASE RecvCopy(t)
        BY <2>3, RecvCopyServed DEF Service!SNext
    <2>4. CASE RecvFree(t)
        BY <2>4, RecvFreeServed DEF Service!SNext
    <2> QED
        BY <1>2, <1>3, <2>1, <2>2, <2>3, <2>4 DEF Continue
<1>4. CASE UNCHANGED vars
    BY <1>4 DEF vars, Service!svars, Visible, Stages, Stage
<1> QED
    BY <1>1, <1>3, <1>4, EnvironmentServed DEF Next

\* For any threads, pool, messages and time-outs, whatever preempts the copies:
\* callers see the bounded sequence of messages QueueService promises, nothing
\* lost, duplicated, reordered or corrupted between a put and its get.
THEOREM ImplementsService == Spec => ImplementsQueueService
<1>1. IInv /\ [Next]_vars => [Service!SNext]_(Service!svars)
    BY StepServed
<1> QED
    BY <1>1, InitServed, Invariance, PTL DEF Spec, ImplementsQueueService, Service!SSpec

-----------------------------------------------------------------------------
(***************************************************************************)
(* What TimedCallReturns rests on: the turns of a call share one timeout.  *)
(***************************************************************************)
\* The ticks that are left of a call's timeout.
TimeLeft(t) == call[t].timeout - call[t].elapsed

\* A call never overdraws its timeout, and one that sleeps has some left.
Budgeted ==
    \A t \in Thread :
        call[t].timeout >= 0 => TimeLeft(t) >= 0 /\ (Waiting(t) => TimeLeft(t) > 0)

\* While a call with a timeout lasts, the time it has left never grows, and
\* each tick takes one away from who is asleep.
TimeRunsOut ==
    [][\A t \in Thread :
          pc[t] # "idle" /\ pc'[t] # "idle" /\ call[t].timeout >= 0 =>
             /\ call'[t].timeout >= 0
             /\ TimeLeft(t)' <= TimeLeft(t)
             /\ Waiting(t) /\ Tick => TimeLeft(t)' < TimeLeft(t)]_vars

\* What a step can do to a call.
Stays(t) == call'[t] = call[t] /\ (Waiting(t)' => Waiting(t))
Ends(t) == pc'[t] = "idle" /\ call'[t] = NoCall
Begins(t) ==
    /\ pc[t] = "idle" /\ call'[t] \in Call /\ call'[t].elapsed = 0
    /\ Waiting(t)' => call'[t].timeout # 0
Turns(t) ==
    /\ pc[t] \in {"sendWoken", "recvWoken"}
    /\ call'[t] = [call[t] EXCEPT !.timeout = Remaining(call[t]), !.elapsed = 0]
    /\ Waiting(t)' => Remaining(call[t]) # 0
Ticks(t) ==
    /\ call[t].elapsed < call[t].timeout
    /\ call'[t] = [call[t] EXCEPT !.elapsed = @ + 1]
    /\ Waiting(t)' => call[t].elapsed + 1 # call[t].timeout

LEMMA ResumedAreAwake ==
    ASSUME TypeOK, NEW T, NEW t \in Thread
    PROVE  /\ Resumed(T)[t] = pc[t] \/ Resumed(T)[t] \in {"sendWoken", "recvWoken"}
           /\ t \in T => Resumed(T)[t] \notin {"sendWait", "recvWait"}
    BY WokenFacts DEF Resumed, Waiting

\* A turn of rt_mq_send_wait or rt_mq_recv ends the call, or it goes on with
\* the timeout the turn was given.
LEMMA TurnCalls ==
    ASSUME TypeOK, NEW t \in Thread, NEW c, SendTurn(t, c) \/ RecvTurn(t, c)
    PROVE  /\ \A u \in Thread \ {t} : call'[u] = call[u] /\ pc'[u] = pc[u]
           /\ Ends(t) \/ (call'[t] = c /\ (Waiting(t)' => c.timeout # 0))
<1>1. pc \in [Thread -> {"idle", "sendCopy", "sendLink", "sendWait", "sendWoken",
                         "recvCopy", "recvFree", "recvWait", "recvWoken"}]
      /\ call \in [Thread -> Call]
    BY DEF TypeOK
<1>2. ASSUME Return(t)
      PROVE  Ends(t) /\ \A u \in Thread \ {t} : call'[u] = call[u] /\ pc'[u] = pc[u]
    BY <1>1, <1>2 DEF Return, Ends
<1>3. ASSUME NEW w \in {"sendWait", "recvWait"}, Wait(t, w, c), c.timeout # 0
      PROVE  /\ call'[t] = c /\ c.timeout # 0
             /\ \A u \in Thread \ {t} : call'[u] = call[u] /\ pc'[u] = pc[u]
    BY <1>1, <1>3 DEF Wait
<1>4. ASSUME NEW w \in {"sendCopy", "recvCopy"}, pc' = [pc EXCEPT ![t] = w],
             call' = [call EXCEPT ![t] = c]
      PROVE  /\ call'[t] = c /\ ~Waiting(t)'
             /\ \A u \in Thread \ {t} : call'[u] = call[u] /\ pc'[u] = pc[u]
    BY <1>1, <1>4, WokenFacts DEF Waiting
<1>5. CASE SendTurn(t, c)
    BY <1>2, <1>3, <1>4, <1>5 DEF SendTurn, TakeFree
<1>6. CASE RecvTurn(t, c)
    BY <1>2, <1>3, <1>4, <1>6 DEF RecvTurn
<1> QED
    BY <1>5, <1>6

LEMMA HowCallsGo ==
    ASSUME TypeOK, [Next]_vars, NEW t \in Thread
    PROVE  Stays(t) \/ Ends(t) \/ Begins(t) \/ Turns(t) \/ Ticks(t)
<1>1. /\ pc \in [Thread -> {"idle", "sendCopy", "sendLink", "sendWait", "sendWoken",
                            "recvCopy", "recvFree", "recvWait", "recvWoken"}]
      /\ call \in [Thread -> Call]
    BY DEF TypeOK
<1>2. CASE UNCHANGED vars
    BY <1>2 DEF vars, Stays, Waiting
<1>3. ASSUME NEW u \in Thread, Begin(u) PROVE Stays(t) \/ Ends(t) \/ Begins(t)
    <2>1. ASSUME NEW c \in Call, pc[u] = "idle", c.elapsed = 0,
                 SendTurn(u, c) \/ RecvTurn(u, c)
          PROVE  Stays(t) \/ Ends(t) \/ Begins(t)
        BY <2>1, TurnCalls DEF Stays, Begins, Waiting
    <2>2. ASSUME NEW m \in Msg, NEW n \in Timeout, SendCall(u, m, n)
          PROVE  Stays(t) \/ Ends(t) \/ Begins(t)
        <3> DEFINE c == [NoCall EXCEPT !.op = "send", !.msg = m, !.timeout = n]
        <3>1. c \in Call /\ c.elapsed = 0
            BY TimeoutAssumption DEF NoCall, Call
        <3>2. pc[u] = "idle" /\ SendTurn(u, c)
            BY <2>2 DEF SendCall
        <3> HIDE DEF c
        <3> QED
            BY <2>1, <3>1, <3>2
    <2>3. ASSUME NEW n \in Timeout, RecvCall(u, n) PROVE Stays(t) \/ Ends(t) \/ Begins(t)
        <3> DEFINE c == [NoCall EXCEPT !.op = "recv", !.timeout = n]
        <3>1. c \in Call /\ c.elapsed = 0
            BY TimeoutAssumption DEF NoCall, Call
        <3>2. pc[u] = "idle" /\ RecvTurn(u, c)
            BY <2>3 DEF RecvCall
        <3> HIDE DEF c
        <3> QED
            BY <2>1, <3>1, <3>2
    <2>4. ASSUME NEW m \in Msg, UrgentCall(u, m) PROVE Stays(t) \/ Begins(t)
        <3> DEFINE c == [NoCall EXCEPT !.op = "urgent", !.msg = m]
        <3>1. c \in Call /\ c.elapsed = 0
            <4>1. NoCall \in Call /\ NoCall.elapsed = 0
                BY DEF NoCall, Call
            <4> QED
                BY <4>1 DEF Call
        <3>2. /\ pc[u] = "idle" /\ pc' = [pc EXCEPT ![u] = "sendCopy"]
              /\ call' = [call EXCEPT ![u] = c]
            BY <2>4 DEF UrgentCall, TakeFree
        <3> HIDE DEF c
        <3> QED
            BY <1>1, <3>1, <3>2, WokenFacts DEF Stays, Begins, Waiting
    <2> QED
        BY <1>3, <2>2, <2>3, <2>4 DEF Begin
<1>4. ASSUME NEW u \in Thread, SendResume(u) \/ RecvResume(u)
      PROVE  Stays(t) \/ Ends(t) \/ Turns(t)
    <2> DEFINE c == [call[u] EXCEPT !.timeout = Remaining(call[u]), !.elapsed = 0]
    <2>1. c.timeout = Remaining(call[u])
        BY <1>1 DEF Call
    <2>2. pc[u] \in {"sendWoken", "recvWoken"}
          /\ (Return(u) \/ SendTurn(u, c) \/ RecvTurn(u, c))
        BY <1>4 DEF SendResume, RecvResume
    <2>3. CASE Return(u)
        BY <1>1, <2>3 DEF Return, Stays, Ends, Waiting
    <2>4. CASE SendTurn(u, c) \/ RecvTurn(u, c)
        <3>1. Ends(u) \/ (call'[u] = c /\ (Waiting(u)' => Remaining(call[u]) # 0))
            BY <2>1, <2>4, TurnCalls
        <3>2. t # u => call'[t] = call[t] /\ pc'[t] = pc[t]
            BY <2>4, TurnCalls
        <3> QED
            BY <2>2, <3>1, <3>2 DEF Stays, Turns, Waiting
    <2> QED
        BY <2>2, <2>3, <2>4
<1>5. ASSUME NEW u \in Thread, SendCopy(u) \/ RecvCopy(u) PROVE Stays(t)
    BY <1>1, <1>5, WokenFacts DEF SendCopy, RecvCopy, Stays, Waiting
<1>6. ASSUME NEW u \in Thread, SendLink(u) \/ RecvFree(u) PROVE Stays(t) \/ Ends(t)
    <2>1. PICK T : pc' = [Resumed(T) EXCEPT ![u] = "idle"]
        BY <1>6 DEF SendLink, RecvFree
    <2>2. call' = [call EXCEPT ![u] = NoCall]
        BY <1>6 DEF SendLink, RecvFree
    <2>3. t # u => pc'[t] = Resumed(T)[t]
        BY <2>1 DEF Resumed
    <2>4. t = u => pc'[t] = "idle"
        BY <2>1 DEF Resumed
    <2>5. t # u => Stays(t)
        BY <1>1, <2>2, <2>3, ResumedAreAwake, WokenFacts DEF Stays, Waiting
    <2> QED
        BY <1>1, <2>2, <2>4, <2>5 DEF Ends
<1>7. ASSUME NEW T, pc' = Resumed(T), UNCHANGED call PROVE Stays(t)
    BY <1>7, ResumedAreAwake, WokenFacts DEF Stays, Waiting
<1>8. CASE Tick
    <2>1. CASE Timed(t)
        <3> DEFINE due == {u \in Thread : /\ Waiting(u) /\ Timed(u)
                                          /\ call[u].elapsed + 1 = call[u].timeout}
        <3>1. call'[t] = [call[t] EXCEPT !.elapsed = @ + 1] /\ pc' = Resumed(due)
            BY <1>8, <2>1 DEF Tick
        <3>2. Waiting(t)' => Waiting(t) /\ t \notin due
            BY <3>1, ResumedAreAwake, WokenFacts DEF Waiting
        <3>3. Waiting(t)' => call[t].elapsed + 1 # call[t].timeout
            BY <2>1, <3>2
        <3> HIDE DEF due
        <3> QED
            BY <2>1, <3>1, <3>3 DEF Ticks, Timed
    <2>2. CASE ~Timed(t)
        <3>1. call'[t] = call[t]
            BY <1>8, <2>2 DEF Tick
        <3>2. PICK T : pc' = Resumed(T)
            BY <1>8 DEF Tick
        <3> QED
            BY <3>1, <3>2, ResumedAreAwake, WokenFacts DEF Stays, Waiting
    <2> QED
        BY <2>1, <2>2
<1>9. CASE Reset
    BY <1>7, <1>9 DEF Reset, WakeWithError
<1>10. CASE Detach
    <2>1. UNCHANGED call /\ (pc' = pc \/ \E T : pc' = Resumed(T))
        BY <1>10 DEF Detach, DetachLook, DetachWake, DetachHalt, DetachObject,
                     WakeWithError
    <2> QED
        BY <1>7, <2>1 DEF Stays, Waiting
<1> QED
    BY <1>2, <1>3, <1>4, <1>5, <1>6, <1>8, <1>9, <1>10 DEF Next, Continue


\* What Remaining leaves of a timeout that is not RT_WAITING_FOREVER.
LEMMA RemainingIsLeft ==
    ASSUME NEW c \in Call, c.timeout >= 0, c.elapsed <= c.timeout
    PROVE  Remaining(c) = c.timeout - c.elapsed
<1>1. c.timeout \in Int /\ c.elapsed \in Nat
    BY DEF Call
<1> QED
    BY <1>1 DEF Remaining

LEMMA RemainingStaysForever ==
    ASSUME NEW c \in Call, c.timeout < 0
    PROVE  Remaining(c) < 0
<1>1. c.timeout \in Int /\ c.elapsed \in Nat /\ c.timeout <= 0
    BY DEF Call
<1>2. Remaining(c) = c.timeout
    BY <1>1 DEF Remaining
<1> QED
    BY <1>2

\* The budget a turn starts with is what was left of the one before.
LEMMA TurnKeepsBudget ==
    ASSUME TypeOK, Budgeted, NEW t \in Thread, Turns(t)
    PROVE  call[t].timeout >= 0 =>
              /\ call'[t].timeout >= 0
              /\ TimeLeft(t)' = TimeLeft(t) /\ TimeLeft(t)' >= 0
              /\ Waiting(t)' => TimeLeft(t)' > 0
<1>1. call[t] \in Call
    BY DEF TypeOK
<1>2. call[t].timeout \in Int /\ call[t].elapsed \in Nat
    BY <1>1 DEF Call
<1>3. call'[t].timeout = Remaining(call[t]) /\ call'[t].elapsed = 0
    BY <1>1 DEF Turns, Call
<1>4. SUFFICES ASSUME call[t].timeout >= 0
               PROVE  /\ call'[t].timeout >= 0
                      /\ TimeLeft(t)' = TimeLeft(t) /\ TimeLeft(t)' >= 0
                      /\ Waiting(t)' => TimeLeft(t)' > 0
    OBVIOUS
<1>5. TimeLeft(t) >= 0 /\ TimeLeft(t) = call[t].timeout - call[t].elapsed
    BY <1>4 DEF Budgeted, TimeLeft
<1>6. Remaining(call[t]) = call[t].timeout - call[t].elapsed
    BY <1>1, <1>2, <1>4, <1>5, RemainingIsLeft
<1>7. TimeLeft(t)' = Remaining(call[t])
    BY <1>2, <1>3, <1>6 DEF TimeLeft
<1> QED
    BY <1>2, <1>3, <1>5, <1>6, <1>7 DEF Turns

\* A tick leaves a thread that the timeout did not wake with time to wait.
LEMMA TickKeepsBudget ==
    ASSUME TypeOK, NEW t \in Thread, Ticks(t)
    PROVE  /\ call'[t].timeout = call[t].timeout
           /\ TimeLeft(t)' = TimeLeft(t) - 1 /\ TimeLeft(t)' >= 0
           /\ Waiting(t)' => TimeLeft(t)' > 0
<1>1. call[t] \in Call
    BY DEF TypeOK
<1>2. call[t].timeout \in Int /\ call[t].elapsed \in Nat
    BY <1>1 DEF Call
<1>3. call'[t].timeout = call[t].timeout /\ call'[t].elapsed = call[t].elapsed + 1
    BY <1>1 DEF Ticks, Call
<1> QED
    BY <1>2, <1>3 DEF Ticks, TimeLeft

\* Negative timeouts stay negative, so that a call cannot come to owe time by
\* first waiting for ever.
LEMMA BudgetKept ==
    ASSUME TypeOK, TypeOK', Budgeted, [Next]_vars
    PROVE  Budgeted'
<1>1. SUFFICES ASSUME NEW t \in Thread, call'[t].timeout >= 0
               PROVE  TimeLeft(t)' >= 0 /\ (Waiting(t)' => TimeLeft(t)' > 0)
    BY DEF Budgeted
<1>2. call[t] \in Call /\ call'[t] \in Call
    BY DEF TypeOK
<1>3. /\ call[t].timeout \in Int /\ call[t].elapsed \in Nat
      /\ call'[t].timeout \in Int /\ call'[t].elapsed \in Nat
    BY <1>2 DEF Call
<1>4. CASE Stays(t)
    BY <1>1, <1>4 DEF Stays, Budgeted, TimeLeft
<1>5. CASE Ends(t)
    BY <1>5 DEF Ends, NoCall, TimeLeft, Waiting, Woken
<1>6. CASE Begins(t)
    BY <1>1, <1>3, <1>6 DEF Begins, TimeLeft
<1>7. CASE Turns(t)
    <2>1. call'[t].timeout = Remaining(call[t])
        BY <1>2, <1>7 DEF Turns, Call
    <2>2. call[t].timeout >= 0
        BY <1>1, <1>2, <1>3, <2>1, RemainingStaysForever
    <2> QED
        BY <1>7, <2>2, TurnKeepsBudget
<1>8. CASE Ticks(t)
    BY <1>8, TickKeepsBudget
<1> QED
    BY <1>4, <1>5, <1>6, <1>7, <1>8, HowCallsGo

LEMMA BudgetedAlways == Spec => []Budgeted
<1>1. Init => Budgeted
    BY DEF Init, Budgeted, NoCall, TimeLeft, Waiting, Woken
<1> QED
    BY <1>1, BudgetKept, Typed, PTL DEF Spec

LEMMA TimeIsSpent ==
    ASSUME TypeOK, TypeOK', Budgeted, [Next]_vars, NEW t \in Thread,
           pc[t] # "idle", pc'[t] # "idle", call[t].timeout >= 0
    PROVE  /\ call'[t].timeout >= 0
           /\ TimeLeft(t)' <= TimeLeft(t)
           /\ Waiting(t) /\ Tick => TimeLeft(t)' < TimeLeft(t)
<1>1. call[t] \in Call /\ call'[t] \in Call
    BY DEF TypeOK
<1>2. /\ call[t].timeout \in Int /\ call[t].elapsed \in Nat
      /\ call'[t].timeout \in Int /\ call'[t].elapsed \in Nat
    BY <1>1 DEF Call
<1>3. Stays(t) \/ Turns(t) \/ Ticks(t)
    BY HowCallsGo DEF Ends, Begins
<1>4. /\ call'[t].timeout >= 0
      /\ TimeLeft(t)' <= TimeLeft(t)
    <2>1. CASE Stays(t)
        BY <1>2, <2>1 DEF Stays, TimeLeft
    <2>2. CASE Turns(t)
        BY <1>2, <2>2, TurnKeepsBudget DEF TimeLeft
    <2>3. CASE Ticks(t)
        BY <1>2, <2>3, TickKeepsBudget DEF TimeLeft
    <2> QED
        BY <1>3, <2>1, <2>2, <2>3
<1>5. ASSUME Waiting(t), Tick PROVE TimeLeft(t)' < TimeLeft(t)
    <2>1. call[t].elapsed < call[t].timeout
        BY <1>2, <1>5 DEF Budgeted, TimeLeft
    <2>2. Timed(t)
        BY <1>5, <2>1, WokenFacts DEF Timed, Waiting
    <2>3. call'[t] = [call[t] EXCEPT !.elapsed = @ + 1]
        BY <1>5, <2>2 DEF Tick
    <2>4. call'[t].timeout = call[t].timeout /\ call'[t].elapsed = call[t].elapsed + 1
        BY <1>1, <2>3 DEF Call
    <2> QED
        BY <1>2, <2>4 DEF TimeLeft
<1> QED
    BY <1>4, <1>5

\* The turns of rt_mq_send_wait and rt_mq_recv share one timeout: whoever is
\* woken, finds the block or the message gone and waits again has what was
\* left, no turn gives time back, and every tick takes one from who sleeps.
\* So a timed call sleeps through no more ticks than it was given.
THEOREM TimeoutsAreSpentOnce == Spec => TimeRunsOut
<1>1. ASSUME TypeOK, TypeOK', Budgeted, [Next]_vars
      PROVE  [\A t \in Thread :
                pc[t] # "idle" /\ pc'[t] # "idle" /\ call[t].timeout >= 0 =>
                   /\ call'[t].timeout >= 0
                   /\ TimeLeft(t)' <= TimeLeft(t)
                   /\ Waiting(t) /\ Tick => TimeLeft(t)' < TimeLeft(t)]_vars
    BY <1>1, TimeIsSpent
<1> QED
    BY <1>1, Typed, BudgetedAlways, PTL DEF Spec, TimeRunsOut

=============================================================================
