---------------------------- MODULE EventProofs ----------------------------
(***************************************************************************)
(* Proofs about Event: its inductive invariant, which is the three         *)
(* invariants the run checks taken together, that every behaviour is one   *)
(* of EventService, and that with flag PRIO the list is kept by urgency,   *)
(* so that the walk of a send comes to the more urgent waiter first.       *)
(***************************************************************************)
EXTENDS Event, LeastNumber, FiniteSetTheorems, TLAPS

IInv == TypeOK /\ WaitersAreListed /\ NoLostWakeup

Listed(t) == \E i \in DOMAIN waiting : waiting[i] = t
Distinct == \A i, j \in DOMAIN waiting : i # j => waiting[i] # waiting[j]

-----------------------------------------------------------------------------
(* The two ways in which the list changes. *)

\* rt_ipc_list_suspend adds one thread and keeps the others.
LEMMA InsertedLists ==
  ASSUME waiting \in Seq(Thread), NEW t \in Thread,
         NEW i \in 1..Len(waiting) + 1, waiting' = Inserted(i, t)
  PROVE  /\ waiting' \in Seq(Thread)
         /\ \A u \in Thread : Listed(u)' <=> Listed(u) \/ u = t
         /\ Distinct /\ ~Listed(t) => Distinct'
<1> DEFINE n == Len(waiting)
<1>1. n \in Nat /\ DOMAIN waiting = 1..n /\ \A j \in 1..n : waiting[j] \in Thread
  OBVIOUS
<1>2. /\ DOMAIN waiting' = 1..n + 1
      /\ \A j \in 1..n + 1 : waiting'[j] =
            IF j < i THEN waiting[j] ELSE IF j = i THEN t ELSE waiting[j - 1]
  BY DEF Inserted
<1>3. \A j \in 1..n + 1 : waiting'[j] \in Thread
  BY <1>1, <1>2
<1>4. waiting' \in Seq(Thread)
  BY <1>1, <1>2, <1>3 DEF Inserted
<1>5. \A u \in Thread : Listed(u)' => Listed(u) \/ u = t
  BY <1>1, <1>2 DEF Listed
<1>6. ASSUME NEW u \in Thread, Listed(u) \/ u = t PROVE Listed(u)'
  <2>1. CASE u = t
    BY <1>2, <2>1 DEF Listed
  <2>2. CASE Listed(u)
    <3>1. PICK j \in 1..n : waiting[j] = u
      BY <1>1, <2>2 DEF Listed
    <3>2. CASE j < i
      BY <1>1, <1>2, <3>1, <3>2 DEF Listed
    <3>3. CASE j >= i
      <4>1. waiting'[j + 1] = u /\ j + 1 \in DOMAIN waiting'
        BY <1>1, <1>2, <3>1, <3>3
      <4> QED BY <4>1 DEF Listed
    <3> QED BY <3>2, <3>3
  <2> QED BY <1>6, <2>1, <2>2
<1>7. ASSUME Distinct, ~Listed(t), NEW j \in 1..n + 1, NEW k \in 1..n + 1, j < k
      PROVE  waiting'[j] # waiting'[k]
  <2>1. \A l \in 1..n : waiting[l] # t
    BY <1>1, <1>7 DEF Listed
  <2>2. \A l, m \in 1..n : l # m => waiting[l] # waiting[m]
    BY <1>1, <1>7 DEF Distinct
  <2> QED BY <1>1, <1>2, <1>7, <2>1, <2>2
<1>8. Distinct /\ ~Listed(t) => Distinct'
  <2>1. \A j, k \in 1..n + 1 : j # k => j < k \/ k < j
    BY <1>1
  <2> QED BY <1>2, <1>7, <2>1 DEF Distinct
<1> QED BY <1>4, <1>5, <1>6, <1>8

\* rt_thread_resume for some waiters takes these off the list and no others.
LEMMA KeptLists ==
  ASSUME waiting \in Seq(Thread), NEW S \in SUBSET DOMAIN waiting,
         waiting' \in Kept(S)
  PROVE  /\ waiting' \in Seq(Thread)
         /\ \A u \in Thread :
               Listed(u)' <=> \E k \in DOMAIN waiting \ S : waiting[k] = u
         /\ Distinct => Distinct'
<1> DEFINE n == Cardinality(DOMAIN waiting \ S)
           D == DOMAIN waiting \ S
<1>1. \A k \in D : waiting[k] \in Thread
  OBVIOUS
<1>2. PICK f \in [1..n -> D] :
         /\ \A i, j \in 1..n : i < j => f[i] < f[j]
         /\ \A k \in D : \E i \in 1..n : f[i] = k
         /\ waiting' = [j \in 1..n |-> waiting[f[j]]]
  BY DEF Kept
<1>3. n \in Nat
  <2>1. IsFiniteSet(D)
    <3>1. Len(waiting) \in Nat /\ DOMAIN waiting = 1..Len(waiting)
      OBVIOUS
    <3>2. IsFiniteSet(1..Len(waiting))
      BY <3>1, FS_Interval
    <3> QED BY <3>1, <3>2, FS_Subset
  <2> QED BY <2>1, FS_CardinalityType
<1>4. DOMAIN waiting' = 1..n /\ \A j \in 1..n : waiting'[j] = waiting[f[j]]
  BY <1>2
<1>5. waiting' \in Seq(Thread)
  <2>1. \A j \in 1..n : waiting[f[j]] \in Thread
    BY <1>1, <1>2
  <2>2. waiting' \in [1..n -> Thread]
    BY <1>2, <2>1
  <2> HIDE DEF n
  <2> QED BY <1>3, <2>2
<1>6. \A u \in Thread : Listed(u)' <=> \E k \in D : waiting[k] = u
  <2> HIDE DEF n, D
  <2>1. ASSUME NEW u \in Thread, Listed(u)' PROVE \E k \in D : waiting[k] = u
    <3>1. PICK j \in 1..n : waiting[f[j]] = u
      BY <1>4, <2>1 DEF Listed
    <3> QED BY <3>1
  <2>2. ASSUME NEW u \in Thread, NEW k \in D, waiting[k] = u PROVE Listed(u)'
    <3>1. PICK j \in 1..n : f[j] = k
      BY <1>2
    <3> QED BY <1>4, <2>2, <3>1 DEF Listed
  <2> QED BY <2>1, <2>2
<1>7. Distinct => Distinct'
  <2>1. ASSUME NEW i \in 1..n, NEW j \in 1..n, i # j PROVE f[i] # f[j]
    <3>1. f[i] \in Nat /\ f[j] \in Nat
      <4>1. DOMAIN waiting = 1..Len(waiting) /\ Len(waiting) \in Nat
        OBVIOUS
      <4>2. D \subseteq Nat
        BY <4>1
      <4> HIDE DEF D, n
      <4> QED BY <4>2
    <3>2. i < j \/ j < i
      BY <1>3, <2>1
    <3>3. f[i] < f[j] \/ f[j] < f[i]
      BY <1>2, <3>2
    <3> HIDE DEF D
    <3> QED BY <3>1, <3>3
  <2>2. ASSUME Distinct, NEW i \in 1..n, NEW j \in 1..n, i # j
        PROVE  waiting'[i] # waiting'[j]
    <3>1. f[i] # f[j] /\ f[i] \in DOMAIN waiting /\ f[j] \in DOMAIN waiting
      BY <2>1, <2>2
    <3>2. waiting[f[i]] # waiting[f[j]]
      BY <2>2, <3>1 DEF Distinct
    <3> QED BY <1>4, <3>2
  <2> QED BY <1>4, <2>2 DEF Distinct
<1> QED BY <1>5, <1>6, <1>7

-----------------------------------------------------------------------------
(* The inductive invariant. *)

LEMMA NothingType == Nothing \in [want : SUBSET Bit, all : BOOLEAN, clear : BOOLEAN]
BY DEF Nothing

LEMMA RequestType ==
  ASSUME NEW r \in Request
  PROVE  /\ r \in [want : SUBSET Bit, all : BOOLEAN, clear : BOOLEAN]
         /\ r.want # {}
<1>1. r \in [want : (SUBSET Bit) \ {{}}, all : BOOLEAN, clear : BOOLEAN]
  BY EventAssumption
<1>2. r.want \in (SUBSET Bit) \ {{}} /\ r.all \in BOOLEAN /\ r.clear \in BOOLEAN
      /\ r = [want |-> r.want, all |-> r.all, clear |-> r.clear]
  BY <1>1
<1> QED BY <1>2

\* What a request asks for is not there any longer once it is taken away, and
\* what is missing stays missing when bits are taken away.
LEMMA MetShrinks ==
  ASSUME NEW r \in [want : SUBSET Bit, all : BOOLEAN, clear : BOOLEAN],
         NEW s \in SUBSET Bit, NEW s2 \in SUBSET s, Met(s2, r)
  PROVE  Met(s, r)
BY DEF Met

\* rt_thread_resume for waiters that are on the list.
LEMMA ResumeLists ==
  ASSUME TypeOK, WaitersAreListed, NEW S \in SUBSET DOMAIN waiting, Resume(S)
  PROVE  /\ waiting' \in Seq(Thread)
         /\ pc' \in [Thread -> {"idle", "waiting", "woken"}]
         /\ timed' \in [Thread -> BOOLEAN]
         /\ WaitersAreListed'
         /\ \A t \in Thread :
               \/ pc'[t] = pc[t] /\ \A i \in S : waiting[i] # t
               \/ pc[t] = "waiting" /\ pc'[t] = "woken" /\ \E i \in S : waiting[i] = t
<1> DEFINE woken == {waiting[i] : i \in S}
<1> USE DEF TypeOK
<1>1. waiting \in Seq(Thread) /\ waiting' \in Kept(S)
  BY DEF Resume
<1>2. /\ waiting' \in Seq(Thread)
      /\ \A u \in Thread :
            Listed(u)' <=> \E k \in DOMAIN waiting \ S : waiting[k] = u
      /\ Distinct => Distinct'
  BY <1>1, KeptLists
<1>3. /\ pc' = [t \in Thread |-> IF t \in woken THEN "woken" ELSE pc[t]]
      /\ timed' = [t \in Thread |-> t \notin woken /\ timed[t]]
  BY DEF Resume, TimersStop
<1>4. /\ \A t \in Thread : pc[t] = "waiting" <=> Listed(t)
      /\ Distinct
      /\ \A t \in Thread : timed[t] => pc[t] = "waiting"
  BY DEF WaitersAreListed, Listed, Distinct
<1>5. \A t \in Thread : t \in woken <=> \E i \in S : waiting[i] = t
  OBVIOUS
<1>6. \A t \in Thread :
        \/ pc'[t] = pc[t] /\ \A i \in S : waiting[i] # t
        \/ pc[t] = "waiting" /\ pc'[t] = "woken" /\ \E i \in S : waiting[i] = t
  <2>1. \A t \in Thread : t \in woken => Listed(t)
    BY <1>5 DEF Listed
  <2> QED BY <1>3, <1>4, <1>5, <2>1
<1>7. ASSUME NEW t \in Thread PROVE pc'[t] = "waiting" <=> Listed(t)'
  <2>1. CASE t \in woken
    <3>1. PICK i \in S : waiting[i] = t
      BY <1>5, <2>1
    <3>2. \A k \in DOMAIN waiting \ S : waiting[k] # t
      BY <1>4, <3>1 DEF Distinct
    <3> QED BY <1>2, <1>3, <2>1, <3>2
  <2>2. CASE t \notin woken
    <3>1. Listed(t)' <=> Listed(t)
      BY <1>2, <1>5, <2>2 DEF Listed
    <3> QED BY <1>3, <1>4, <2>2, <3>1
  <2> QED BY <2>1, <2>2
<1>8. \A t \in Thread : timed'[t] => pc'[t] = "waiting"
  BY <1>3, <1>4
<1>9. WaitersAreListed'
  BY <1>2, <1>4, <1>7, <1>8 DEF WaitersAreListed, Listed, Distinct
<1>10. /\ pc' \in [Thread -> {"idle", "waiting", "woken"}]
       /\ timed' \in [Thread -> BOOLEAN]
  BY <1>3
<1> QED BY <1>2, <1>6, <1>9, <1>10

LEMMA InitIInv == Init => IInv
BY NothingType DEF Init, Stage, IInv, TypeOK, WaitersAreListed, NoLostWakeup

LEMMA RecvIInv ==
  ASSUME IInv, NEW t \in Thread, NEW r \in Request, Recv(t, r)
  PROVE  IInv'
<1> USE DEF IInv, TypeOK
<1>1. /\ r \in [want : SUBSET Bit, all : BOOLEAN, clear : BOOLEAN]
      /\ r.want # {}
  BY RequestType
<1>2. pc[t] = "idle" /\ life' = life
  BY DEF Recv
<1>3. CASE RecvNow(t, r)
  <2>1. TypeOK'
    BY <1>1, <1>2, <1>3 DEF RecvNow
  <2>2. WaitersAreListed'
    BY <1>3 DEF RecvNow, WaitersAreListed
  <2>3. set' \subseteq set
    BY <1>3 DEF RecvNow
  <2>4. ASSUME NEW u \in Thread, pc'[u] = "waiting" PROVE ~Met(set', info'[u])
    BY <1>3, <2>3, <2>4, MetShrinks DEF RecvNow, NoLostWakeup
  <2> QED BY <2>1, <2>2, <2>4 DEF NoLostWakeup
<1>4. CASE RecvNothing(t, r)
  BY <1>1, <1>2, <1>4 DEF RecvNothing, WaitersAreListed, NoLostWakeup
<1>5. CASE RecvWait(t, r)
  <2>1. PICK i \in Places(t) : waiting' = Inserted(i, t)
    BY <1>5 DEF RecvWait
  <2>2. i \in 1..Len(waiting) + 1
    BY DEF Places
  <2>3. ~Listed(t) /\ Distinct
    BY <1>2 DEF WaitersAreListed, Listed, Distinct
  <2>4. /\ waiting' \in Seq(Thread)
        /\ \A u \in Thread : Listed(u)' <=> Listed(u) \/ u = t
        /\ Distinct'
    BY <2>1, <2>2, <2>3, InsertedLists
  <2>5. PICK b \in BOOLEAN : timed' = [timed EXCEPT ![t] = b]
    BY <1>5 DEF RecvWait
  <2>6. /\ pc' = [pc EXCEPT ![t] = "waiting"] /\ info' = [info EXCEPT ![t] = r]
        /\ got' = [got EXCEPT ![t] = {}] /\ set' = set /\ error' = error
        /\ ~Met(set, r)
    BY <1>5 DEF RecvWait
  <2>7. TypeOK'
    BY <1>1, <1>2, <2>4, <2>5, <2>6
  <2>8. WaitersAreListed'
    <3>1. \A u \in Thread : pc'[u] = "waiting" <=> Listed(u)'
      BY <2>4, <2>6 DEF WaitersAreListed, Listed
    <3>2. \A u \in Thread : timed'[u] => pc'[u] = "waiting"
      BY <2>5, <2>6 DEF WaitersAreListed
    <3> QED BY <2>4, <3>1, <3>2 DEF WaitersAreListed, Listed, Distinct
  <2>9. NoLostWakeup'
    BY <2>6 DEF NoLostWakeup
  <2> QED BY <2>7, <2>8, <2>9
<1> QED BY <1>3, <1>4, <1>5 DEF Recv

LEMMA ReturnIInv ==
  ASSUME IInv, NEW t \in Thread, Return(t)
  PROVE  IInv'
BY NothingType DEF IInv, TypeOK, WaitersAreListed, NoLostWakeup, Return, Outcome

\* The walk: bits only ever leave the set while it goes from place to place.
LEMMA LeftShrinks ==
  ASSUME TypeOK, NEW s \in SUBSET Bit, NEW S \in SUBSET DOMAIN waiting,
         NEW i \in 1..Len(waiting)
  PROVE  /\ Left(s, S, i) \subseteq s
         /\ Left(s, S, Len(waiting) + 1) \subseteq Left(s, S, i)
<1>1. Len(waiting) \in Nat /\ DOMAIN waiting = 1..Len(waiting)
  BY DEF TypeOK
<1>2. \A k \in S : k < i => k < Len(waiting) + 1
  BY <1>1
<1> QED BY <1>2 DEF Left

\* event_set of a waiter served at place i becomes what was left of it there.
LEMMA ServedGet ==
  ASSUME TypeOK, WaitersAreListed, NEW s \in SUBSET Bit, NEW S \in SUBSET DOMAIN waiting,
         Receives(s, S)
  PROVE  /\ info' \in [Thread -> [want : SUBSET Bit, all : BOOLEAN, clear : BOOLEAN]]
         /\ \A t \in Thread : (\A i \in S : waiting[i] # t) => info'[t] = info[t]
         /\ \A i \in S : info'[waiting[i]] =
               [info[waiting[i]] EXCEPT !.want = @ \cap Left(s, S, i)]
<1> USE DEF TypeOK
<1>1. \A t \in Thread :
        /\ info[t] \in [want : SUBSET Bit, all : BOOLEAN, clear : BOOLEAN]
        /\ info'[t] = [info[t] EXCEPT !.want =
             {b \in info[t].want : \A i \in S : waiting[i] = t => b \in Left(s, S, i)}]
  BY DEF Receives
<1>2. info' \in [Thread -> [want : SUBSET Bit, all : BOOLEAN, clear : BOOLEAN]]
  BY <1>1 DEF Receives
<1>3. ASSUME NEW t \in Thread, \A i \in S : waiting[i] # t PROVE info'[t] = info[t]
  <2>1. {b \in info[t].want : \A i \in S : waiting[i] = t => b \in Left(s, S, i)}
          = info[t].want
    BY <1>3
  <2>2. [info[t] EXCEPT !.want = info[t].want] = info[t]
    BY <1>1
  <2> QED BY <1>1, <2>1, <2>2
<1>4. ASSUME NEW i \in S
      PROVE  info'[waiting[i]] = [info[waiting[i]] EXCEPT !.want = @ \cap Left(s, S, i)]
  <2> DEFINE t == waiting[i]
  <2>1. t \in Thread
    OBVIOUS
  <2>2. \A k \in S : waiting[k] = t <=> k = i
    BY DEF WaitersAreListed
  <2>3. {b \in info[t].want : \A k \in S : waiting[k] = t => b \in Left(s, S, k)}
          = info[t].want \cap Left(s, S, i)
    BY <2>2
  <2> QED BY <1>1, <2>1, <2>3
<1> QED BY <1>2, <1>3, <1>4

\* A served waiter receives enough of what it asked for.
LEMMA ServedEnough ==
  ASSUME NEW r \in [want : SUBSET Bit, all : BOOLEAN, clear : BOOLEAN], r.want # {},
         NEW s \in SUBSET Bit, Met(s, r)
  PROVE  r.want \cap s # {} /\ (r.all => r.want \cap s = r.want)
BY DEF Met

LEMMA SendIInv ==
  ASSUME IInv, NEW s \in SUBSET Bit, Send(s)
  PROVE  IInv'
<1> USE DEF IInv
<1> DEFINE there == set \cup s
<1>1. PICK S \in SUBSET DOMAIN waiting :
        /\ Serves(there, S)
        /\ set' = Left(there, S, Len(waiting) + 1)
        /\ Receives(there, S)
        /\ Resume(S)
  BY DEF Send
<1>2. life' = life /\ error' = error /\ got' = got
  BY DEF Send
<1>3. there \in SUBSET Bit
  BY DEF TypeOK
<1> HIDE DEF there
<1>4. /\ waiting' \in Seq(Thread)
      /\ pc' \in [Thread -> {"idle", "waiting", "woken"}]
      /\ timed' \in [Thread -> BOOLEAN]
      /\ WaitersAreListed'
      /\ \A t \in Thread :
            \/ pc'[t] = pc[t] /\ \A i \in S : waiting[i] # t
            \/ pc[t] = "waiting" /\ pc'[t] = "woken" /\ \E i \in S : waiting[i] = t
  BY <1>1, ResumeLists
<1>5. /\ info' \in [Thread -> [want : SUBSET Bit, all : BOOLEAN, clear : BOOLEAN]]
      /\ \A t \in Thread : (\A i \in S : waiting[i] # t) => info'[t] = info[t]
      /\ \A i \in S : info'[waiting[i]] =
            [info[waiting[i]] EXCEPT !.want = @ \cap Left(there, S, i)]
  <2>1. TypeOK /\ WaitersAreListed /\ Receives(there, S)
    BY <1>1
  <2> QED BY <1>3, <2>1, ServedGet
<1>6. set' \subseteq Bit
  BY <1>1, <1>3 DEF Left
<1>7. ASSUME NEW t \in Thread, pc'[t] # "idle" PROVE info'[t].want # {}
  <2>1. CASE \A i \in S : waiting[i] # t
    <3>1. pc'[t] = pc[t] /\ info'[t] = info[t]
      BY <1>4, <1>5, <2>1
    <3>2. pc[t] # "idle" => info[t].want # {}
      BY DEF TypeOK
    <3> QED BY <1>7, <3>1, <3>2
  <2>2. CASE \E i \in S : waiting[i] = t
    <3>1. PICK i \in S : waiting[i] = t
      BY <2>2
    <3>2. Met(Left(there, S, i), info[t])
      BY <1>1, <3>1 DEF Serves
    <3>3. info[t] \in [want : SUBSET Bit, all : BOOLEAN, clear : BOOLEAN]
          /\ info[t].want # {} /\ Left(there, S, i) \in SUBSET Bit
      <4>1. pc[t] = "waiting"
        BY <1>4, <3>1
      <4> QED BY <1>3, <4>1 DEF TypeOK, Left
    <3>4. info[t].want \cap Left(there, S, i) # {}
      BY <3>2, <3>3, ServedEnough
    <3>5. info'[t].want = info[t].want \cap Left(there, S, i)
      BY <1>5, <3>1, <3>3
    <3> QED BY <3>4, <3>5
  <2> QED BY <2>1, <2>2
<1>8. ASSUME NEW t \in Thread, pc'[t] # "woken" PROVE ~error'[t]
  BY <1>2, <1>4, <1>8 DEF TypeOK
<1>9. TypeOK'
  BY <1>2, <1>4, <1>5, <1>6, <1>7, <1>8 DEF TypeOK
<1>10. ASSUME NEW t \in Thread, pc'[t] = "waiting" PROVE ~Met(set', info'[t])
  <2>1. pc[t] = "waiting" /\ \A i \in S : waiting[i] # t
    BY <1>4, <1>10
  <2>2. info'[t] = info[t] /\ info[t] \in [want : SUBSET Bit, all : BOOLEAN, clear : BOOLEAN]
    BY <1>5, <2>1 DEF TypeOK
  <2>3. PICK i \in 1..Len(waiting) : waiting[i] = t
    BY <2>1 DEF WaitersAreListed, TypeOK
  <2>4. i \in DOMAIN waiting /\ i \notin S
    BY <2>1, <2>3 DEF TypeOK
  <2>5. ~Met(Left(there, S, i), info[t])
    BY <1>1, <2>3, <2>4 DEF Serves
  <2>6. set' \subseteq Left(there, S, i) /\ Left(there, S, i) \in SUBSET Bit
    BY <1>1, <1>3, LeftShrinks
  <2> QED BY <2>2, <2>5, <2>6, MetShrinks
<1> QED BY <1>4, <1>9, <1>10 DEF NoLostWakeup

\* Waiters thrown out with an error, by whatever.
LEMMA ExpelIInv ==
  ASSUME IInv, NEW S \in SUBSET DOMAIN waiting, Expel(S),
         info' = info, got' = got, set' \subseteq set, life' \in Stage
  PROVE  IInv'
<1> USE DEF IInv
<1>1. /\ error' = [t \in Thread |-> error[t] \/ t \in {waiting[i] : i \in S}]
      /\ Resume(S)
  BY DEF Expel
<1>2. /\ waiting' \in Seq(Thread)
      /\ pc' \in [Thread -> {"idle", "waiting", "woken"}]
      /\ timed' \in [Thread -> BOOLEAN]
      /\ WaitersAreListed'
      /\ \A t \in Thread :
            \/ pc'[t] = pc[t] /\ \A i \in S : waiting[i] # t
            \/ pc[t] = "waiting" /\ pc'[t] = "woken" /\ \E i \in S : waiting[i] = t
  BY <1>1, ResumeLists
<1>3. error' \in [Thread -> BOOLEAN]
  BY <1>1 DEF TypeOK
<1>4. \A t \in Thread : pc'[t] # "idle" => info'[t].want # {}
  BY <1>2 DEF TypeOK
<1>5. \A t \in Thread : pc'[t] # "woken" => ~error'[t]
  BY <1>1, <1>2 DEF TypeOK
<1>6. TypeOK'
  BY <1>2, <1>3, <1>4, <1>5 DEF TypeOK
<1>7. ASSUME NEW t \in Thread, pc'[t] = "waiting" PROVE ~Met(set', info'[t])
  <2>1. pc[t] = "waiting" /\ ~Met(set, info[t])
    BY <1>2, <1>7 DEF NoLostWakeup
  <2>2. info[t] \in [want : SUBSET Bit, all : BOOLEAN, clear : BOOLEAN] /\ set \in SUBSET Bit
    BY DEF TypeOK
  <2> QED BY <2>1, <2>2, MetShrinks
<1> QED BY <1>2, <1>6, <1>7 DEF NoLostWakeup

\* A step of rt_event_detach wakes one waiter with an error or changes nothing
\* that a caller of the event sees.
LEMMA DetachDoes ==
  ASSUME IInv, Detach
  PROVE  /\ set' = set /\ info' = info /\ got' = got /\ life' \in Stage
         /\ \/ {1} \in SUBSET DOMAIN waiting /\ waiting[1] \in Thread /\ Expel({1})
            \/ UNCHANGED <<waiting, pc, error, timed>>
<1>1. waiting # <<>> => {1} \in SUBSET DOMAIN waiting /\ waiting[1] \in Thread
  BY DEF IInv, TypeOK
<1>2. CASE DetachLook
  BY <1>2 DEF DetachLook, Stage
<1>3. CASE DetachWake
  BY <1>1, <1>3 DEF DetachWake, Stage
<1>4. CASE DetachObject
  BY <1>4 DEF DetachObject, Stage
<1> QED BY <1>2, <1>3, <1>4 DEF Detach

LEMMA NextIInv == IInv /\ [Next]_vars => IInv'
<1> SUFFICES ASSUME IInv, [Next]_vars PROVE IInv'
  OBVIOUS
<1> waiting \in Seq(Thread) /\ life \in Stage
  BY DEF IInv, TypeOK
<1>1. CASE \E t \in Thread, r \in Request : Recv(t, r)
  BY <1>1, RecvIInv
<1>2. CASE \E t \in Thread : Return(t)
  BY <1>2, ReturnIInv
<1>3. ASSUME NEW t \in Thread, Timeout(t) PROVE IInv'
  BY <1>3, ExpelIInv DEF Timeout
<1>4. CASE \E s \in (SUBSET Bit) \ {{}} : Send(s)
  BY <1>4, SendIInv
<1>5. CASE Reset
  BY <1>5, ExpelIInv DEF Reset, BitsDropped
<1>6. CASE Detach
  <2>1. set' = set /\ info' = info /\ got' = got /\ life' \in Stage
    BY <1>6, DetachDoes
  <2>2. CASE {1} \in SUBSET DOMAIN waiting /\ Expel({1})
    BY <2>1, <2>2, ExpelIInv
  <2>3. CASE UNCHANGED <<waiting, pc, error, timed>>
    BY <2>1, <2>3 DEF IInv, TypeOK, WaitersAreListed, NoLostWakeup
  <2> QED BY <1>6, <2>2, <2>3, DetachDoes
<1>7. CASE UNCHANGED vars
  BY <1>7 DEF vars, IInv, TypeOK, WaitersAreListed, NoLostWakeup
<1> QED BY <1>1, <1>2, <1>3, <1>4, <1>5, <1>6, <1>7 DEF Next

LEMMA AlwaysIInv == Spec => []IInv
BY InitIInv, NextIInv, PTL DEF Spec

\* For any threads, bits, requests and priorities: no thread waits for bits
\* that are there.
THEOREM NobodyWaitsForWhatIsThere == Spec => []NoLostWakeup
<1>1. IInv => NoLostWakeup
  BY DEF IInv
<1> QED BY <1>1, AlwaysIInv, PTL

\* For any threads, bits, requests and priorities: the list has exactly the
\* waiting threads, once each, and no other thread's timer runs.
THEOREM ListHasTheWaiters == Spec => []WaitersAreListed
<1>1. IInv => WaitersAreListed
  BY DEF IInv
<1> QED BY <1>1, AlwaysIInv, PTL

\* Bits, requests, answers and the list keep their types.
THEOREM TypesHold == Spec => []TypeOK
<1>1. IInv => TypeOK
  BY DEF IInv
<1> QED BY <1>1, AlwaysIInv, PTL

-----------------------------------------------------------------------------
(* Every step is a step of EventService, or none at all. *)

LEMMA InitService == Init => Service!SInit
BY DEF Init, Service!SInit, Phase, Asks, Answer, Nothing, Service!Nothing

LEMMA RecvService ==
  ASSUME IInv, NEW t \in Thread, NEW r \in Request, Recv(t, r)
  PROVE  Service!Ask(t, r)
<1> USE DEF IInv, TypeOK
<1>1. pc[t] = "idle" /\ Phase[t] = "idle"
  BY DEF Recv, Phase
<1>2. Met(set, r) <=> Service!Met(set, r)
  BY DEF Met, Service!Met
<1>3. CASE RecvNow(t, r)
  <2>1. Phase' = Phase /\ Asks' = Asks
    BY <1>3 DEF RecvNow, Phase, Asks
  <2>2. Answer' = [Answer EXCEPT ![t] = r.want \cap set]
    BY <1>1, <1>3 DEF RecvNow, Answer
  <2>3. set' = (IF r.clear THEN set \ r.want ELSE set) /\ Met(set, r)
    BY <1>3 DEF RecvNow
  <2> QED BY <1>1, <1>2, <2>1, <2>2, <2>3 DEF Service!Ask, Service!AnswerAtOnce
<1>4. CASE RecvNothing(t, r)
  <2>1. Phase' = Phase /\ Asks' = Asks
    BY <1>4 DEF RecvNothing, Phase, Asks
  <2>2. Answer' = [Answer EXCEPT ![t] = {}]
    BY <1>1, <1>4 DEF RecvNothing, Answer
  <2>3. set' = set /\ ~Met(set, r)
    BY <1>4 DEF RecvNothing
  <2> QED BY <1>1, <1>2, <2>1, <2>2, <2>3 DEF Service!Ask, Service!Refuse
<1>5. CASE RecvWait(t, r)
  <2>1. Phase' = [Phase EXCEPT ![t] = "asked"]
    BY <1>5 DEF RecvWait, Phase
  <2>2. Asks' = [Asks EXCEPT ![t] = r]
    BY <1>5 DEF RecvWait, Asks
  <2>3. Answer' = [Answer EXCEPT ![t] = {}]
    BY <1>1, <1>5 DEF RecvWait, Answer
  <2>4. set' = set /\ ~Met(set, r)
    BY <1>5 DEF RecvWait
  <2> QED BY <1>1, <1>2, <2>1, <2>2, <2>3, <2>4 DEF Service!Ask, Service!KeepWaiting
<1> QED BY <1>3, <1>4, <1>5 DEF Recv

LEMMA ReturnService ==
  ASSUME IInv, NEW t \in Thread, Return(t)
  PROVE  Service!GoBack(t)
<1> USE DEF IInv, TypeOK
<1>1. /\ pc[t] = "woken" /\ pc' = [pc EXCEPT ![t] = "idle"]
      /\ info' = [info EXCEPT ![t] = Nothing] /\ error' = [error EXCEPT ![t] = FALSE]
      /\ got' = [got EXCEPT ![t] = IF error[t] THEN {} ELSE info[t].want]
      /\ set' = set
  BY DEF Return, Outcome
<1>2. Phase[t] = "answered" /\ Phase' = [Phase EXCEPT ![t] = "idle"]
  BY <1>1 DEF Phase
<1>3. Asks' = Asks
  BY <1>1 DEF Asks
<1>4. Answer' = Answer
  BY <1>1 DEF Answer
<1> QED BY <1>1, <1>2, <1>3, <1>4 DEF Service!GoBack

\* Threads woken at places S are answered, and nobody else.
LEMMA ResumeService ==
  ASSUME IInv, NEW S \in SUBSET DOMAIN waiting, Resume(S),
         \A t \in Thread : (\A i \in S : waiting[i] # t) => info'[t] = info[t]
  PROVE  /\ {waiting[i] : i \in S} \subseteq Service!Asked
         /\ Service!Answered({waiting[i] : i \in S})
<1> DEFINE T == {waiting[i] : i \in S}
<1>1. \A t \in Thread :
        \/ pc'[t] = pc[t] /\ \A i \in S : waiting[i] # t
        \/ pc[t] = "waiting" /\ pc'[t] = "woken" /\ \E i \in S : waiting[i] = t
  BY ResumeLists DEF IInv
<1>2. T \subseteq Thread
  BY DEF IInv, TypeOK
<1>3. \A t \in Thread : IF t \in T THEN pc[t] = "waiting" /\ pc'[t] = "woken"
                                    ELSE pc'[t] = pc[t] /\ info'[t] = info[t]
  BY <1>1
<1> HIDE DEF T
<1>4. T \subseteq Service!Asked
  BY <1>2, <1>3 DEF Service!Asked, Phase
<1>5. Phase' = [t \in Thread |-> IF t \in T THEN "answered" ELSE Phase[t]]
  BY <1>3 DEF Phase
<1>6. Asks' = [t \in Thread |-> IF t \in T THEN Service!Nothing ELSE Asks[t]]
  BY <1>3 DEF Asks, Nothing, Service!Nothing
<1>7. Service!Answered(T)
  BY <1>5, <1>6 DEF Service!Answered
<1> QED BY <1>4, <1>7 DEF T

\* Threads thrown out are answered with nothing.
LEMMA ExpelService ==
  ASSUME IInv, NEW S \in SUBSET DOMAIN waiting, Expel(S), info' = info, got' = got
  PROVE  /\ {waiting[i] : i \in S} \subseteq Service!Asked
         /\ Service!Answered({waiting[i] : i \in S})
         /\ Answer' = [t \in Thread |-> IF t \in {waiting[i] : i \in S} THEN {} ELSE Answer[t]]
<1> DEFINE T == {waiting[i] : i \in S}
<1>1. error' = [t \in Thread |-> error[t] \/ t \in T] /\ Resume(S)
  BY DEF Expel
<1>2. T \subseteq Service!Asked /\ Service!Answered(T)
  BY <1>1, ResumeService
<1>3. \A t \in Thread :
        \/ pc'[t] = pc[t] /\ \A i \in S : waiting[i] # t
        \/ pc[t] = "waiting" /\ pc'[t] = "woken" /\ \E i \in S : waiting[i] = t
  BY <1>1, ResumeLists DEF IInv
<1>4. \A t \in Thread : IF t \in T THEN pc'[t] = "woken" /\ error'[t]
                                    ELSE pc'[t] = pc[t] /\ error'[t] = error[t]
  <2>1. \A t \in Thread : IF t \in T THEN pc'[t] = "woken" ELSE pc'[t] = pc[t]
    BY <1>3
  <2> HIDE DEF T
  <2>2. ASSUME NEW t \in Thread PROVE IF t \in T THEN error'[t] ELSE error'[t] = error[t]
    <3>1. error'[t] = (error[t] \/ t \in T) /\ error[t] \in BOOLEAN
      BY <1>1 DEF IInv, TypeOK
    <3>2. CASE t \in T
      BY <3>1, <3>2
    <3>3. CASE t \notin T
      BY <3>1, <3>3
    <3> QED BY <3>2, <3>3
  <2> QED BY <2>1, <2>2
<1> HIDE DEF T
<1>5. Answer' = [t \in Thread |-> IF t \in T THEN {} ELSE Answer[t]]
  BY <1>4 DEF Answer
<1> QED BY <1>2, <1>5 DEF T

LEMMA SendService ==
  ASSUME IInv, IInv', NEW s \in (SUBSET Bit) \ {{}}, Send(s)
  PROVE  Service!Send(s)
<1> USE DEF IInv
<1> DEFINE there == set \cup s
<1>1. PICK S \in SUBSET DOMAIN waiting :
        /\ Serves(there, S)
        /\ set' = Left(there, S, Len(waiting) + 1)
        /\ Receives(there, S)
        /\ Resume(S)
  BY DEF Send
<1>2. error' = error /\ got' = got
  BY DEF Send
<1>3. there \in SUBSET Bit
  BY DEF TypeOK
<1> HIDE DEF there
<1> DEFINE T == {waiting[i] : i \in S}
           want(i) == info[waiting[i]].want
           gets(i) == want(i) \cap Left(there, S, i)
           takers == {t \in T : Asks[t].clear}
<1>4. /\ \A t \in Thread : (\A i \in S : waiting[i] # t) => info'[t] = info[t]
      /\ \A i \in S : info'[waiting[i]] =
            [info[waiting[i]] EXCEPT !.want = @ \cap Left(there, S, i)]
  BY <1>1, <1>3, ServedGet
<1>5. T \subseteq Service!Asked /\ Service!Answered(T)
  BY <1>1, <1>4, ResumeService
<1>6. \A t \in Thread :
        \/ pc'[t] = pc[t] /\ \A i \in S : waiting[i] # t
        \/ pc[t] = "waiting" /\ pc'[t] = "woken" /\ \E i \in S : waiting[i] = t
  BY <1>1, ResumeLists
<1>7. Len(waiting) \in Nat /\ S \subseteq 1..Len(waiting)
  BY DEF TypeOK
<1>8. ASSUME NEW i \in S
      PROVE  /\ waiting[i] \in Thread /\ pc[waiting[i]] = "waiting"
             /\ Asks[waiting[i]] = info[waiting[i]]
             /\ info[waiting[i]] \in [want : SUBSET Bit, all : BOOLEAN, clear : BOOLEAN]
             /\ want(i) # {}
             /\ Met(Left(there, S, i), info[waiting[i]])
             /\ Answer'[waiting[i]] = gets(i)
  <2>1. waiting[i] \in Thread /\ pc[waiting[i]] = "waiting" /\ pc'[waiting[i]] = "woken"
    BY <1>6 DEF TypeOK
  <2>2. /\ info[waiting[i]] \in [want : SUBSET Bit, all : BOOLEAN, clear : BOOLEAN]
        /\ want(i) # {} /\ ~error[waiting[i]]
    BY <2>1 DEF TypeOK
  <2>3. Asks[waiting[i]] = info[waiting[i]]
    BY <2>1 DEF Asks
  <2>4. Met(Left(there, S, i), info[waiting[i]])
    BY <1>1 DEF Serves
  <2>5. info'[waiting[i]].want = gets(i)
    BY <1>4, <2>2
  <2>6. Answer'[waiting[i]] = gets(i)
    BY <1>2, <2>1, <2>2, <2>5 DEF Answer
  <2> QED BY <2>1, <2>2, <2>3, <2>4, <2>6
<1>9. ASSUME NEW t \in Thread, t \notin T PROVE Answer'[t] = Answer[t]
  <2>1. pc'[t] = pc[t] /\ info'[t] = info[t]
    BY <1>4, <1>6, <1>9
  <2> QED BY <1>2, <2>1 DEF Answer
<1>10. ASSUME NEW t \in T
       PROVE  /\ Answer'[t] \subseteq Asks[t].want \cap there
              /\ Service!Met(Answer'[t], Asks[t])
  <2>1. PICK i \in S : waiting[i] = t
    OBVIOUS
  <2>2. Left(there, S, i) \subseteq there /\ Left(there, S, i) \in SUBSET Bit
    BY <1>3 DEF Left
  <2>3. gets(i) # {} /\ (info[t].all => gets(i) = want(i))
    BY <1>8, <2>1, <2>2, ServedEnough
  <2> QED BY <1>8, <2>1, <2>2, <2>3 DEF Service!Met
<1>11. ASSUME NEW i \in S, NEW j \in S, info[waiting[i]].clear, i < j
       PROVE  gets(i) \cap gets(j) = {}
  <2>1. want(i) \cap Left(there, S, j) = {}
    BY <1>11 DEF Left
  <2> QED BY <2>1
<1>12. ASSUME NEW t \in takers, NEW u \in takers, t # u
       PROVE  Answer'[t] \cap Answer'[u] = {}
  <2>1. PICK i \in S, j \in S : waiting[i] = t /\ waiting[j] = u
    OBVIOUS
  <2>2. info[t].clear /\ info[u].clear /\ Answer'[t] = gets(i) /\ Answer'[u] = gets(j)
    BY <1>8, <2>1
  <2>3. i < j \/ j < i
    BY <1>7, <1>12, <2>1
  <2>4. gets(i) \cap gets(j) = {}
    BY <1>11, <2>1, <2>2, <2>3
  <2> QED BY <2>2, <2>4
<1>13. set' = there \ UNION {Answer'[t] : t \in takers}
  <2>1. ASSUME NEW b \in there, NEW i \in S, info[waiting[i]].clear, b \in want(i)
        PROVE  b \in UNION {Answer'[t] : t \in takers}
    <3> DEFINE Wanters == {k \in S : info[waiting[k]].clear /\ b \in want(k)}
    <3>1. Wanters \in SUBSET Nat /\ Wanters # {}
      BY <1>7, <2>1
    <3>2. PICK k \in Wanters : \A j \in Wanters : k <= j
      BY <3>1, LeastNat
    <3>3. \A j \in S : j < k /\ info[waiting[j]].clear => b \notin want(j)
      BY <1>7, <3>2
    <3>4. b \in Left(there, S, k)
      BY <3>3 DEF Left
    <3>5. b \in gets(k) /\ waiting[k] \in takers
      BY <1>8, <3>4
    <3>6. b \in Answer'[waiting[k]]
      BY <1>8, <3>5
    <3> QED BY <3>5, <3>6
  <2>2. ASSUME NEW t \in takers, NEW b \in Answer'[t]
        PROVE  b \notin set'
    <3>1. PICK i \in S : waiting[i] = t
      OBVIOUS
    <3>2. info[waiting[i]].clear /\ b \in want(i)
      BY <1>8, <3>1
    <3>3. i < Len(waiting) + 1
      BY <1>7
    <3> QED BY <1>1, <3>2, <3>3 DEF Left
  <2>3. ASSUME NEW b \in there, b \notin set'
        PROVE  \E i \in S : info[waiting[i]].clear /\ b \in want(i)
    BY <1>1, <2>3 DEF Left
  <2>4. set' \subseteq there
    BY <1>1 DEF Left
  <2> HIDE DEF T, takers, want
  <2> QED BY <2>1, <2>2, <2>3, <2>4
<1>14. ASSUME NEW t \in Service!Asked \ T PROVE ~Service!Met(set', Asks[t])
  <2>1. t \in Thread /\ pc[t] = "waiting"
    BY DEF Service!Asked, Phase
  <2>2. pc'[t] = "waiting" /\ info'[t] = info[t] /\ Asks[t] = info[t]
    BY <1>4, <1>6, <1>14, <2>1 DEF Asks
  <2>3. ~Met(set', info'[t])
    BY <2>1, <2>2 DEF NoLostWakeup
  <2> QED BY <2>2, <2>3 DEF Met, Service!Met
<1>15. Answer' \in [Thread -> SUBSET Bit]
  BY DEF Answer, TypeOK
<1>16. \A t \in Thread : IF t \in T
                         THEN /\ Answer'[t] \subseteq Asks[t].want \cap there
                              /\ Service!Met(Answer'[t], Asks[t])
                         ELSE Answer'[t] = Answer[t]
  BY <1>9, <1>10
<1>17. Service!Serve(T, there)
  BY <1>12, <1>13, <1>16 DEF Service!Serve
<1> HIDE DEF T
<1> QED BY <1>5, <1>14, <1>15, <1>17 DEF Service!Send, there

LEMMA TimeoutService ==
  ASSUME IInv, NEW t \in Thread, Timeout(t)
  PROVE  Service!GiveUp(t)
<1> DEFINE S == {i \in DOMAIN waiting : waiting[i] = t}
<1>1. pc[t] = "waiting" /\ {waiting[i] : i \in S} = {t}
  BY DEF Timeout, IInv, WaitersAreListed
<1>2. Expel(S) /\ set' = set /\ info' = info /\ got' = got
  BY DEF Timeout
<1>3. /\ Service!Answered({waiting[i] : i \in S})
      /\ Answer' = [u \in Thread |-> IF u \in {waiting[i] : i \in S} THEN {} ELSE Answer[u]]
  BY <1>2, ExpelService
<1> HIDE DEF S
<1>4. Answer' = [Answer EXCEPT ![t] = {}]
  BY <1>1, <1>3 DEF Answer
<1>5. Phase[t] = "asked"
  BY <1>1 DEF Phase
<1> QED BY <1>1, <1>2, <1>3, <1>4, <1>5 DEF Service!GiveUp

LEMMA ResetService ==
  ASSUME IInv, Reset
  PROVE  Service!Clear
<1> DEFINE T == {waiting[i] : i \in DOMAIN waiting}
<1>1. Expel(DOMAIN waiting) /\ set' = {} /\ info' = info /\ got' = got
  BY DEF Reset, BitsDropped
<1>2. /\ T \subseteq Service!Asked /\ Service!Answered(T)
      /\ Answer' = [t \in Thread |-> IF t \in T THEN {} ELSE Answer[t]]
  BY <1>1, ExpelService
<1>3. Service!Asked \subseteq T
  BY DEF Service!Asked, Phase, IInv, WaitersAreListed
<1> HIDE DEF T
<1> QED BY <1>1, <1>2, <1>3 DEF Service!Clear

LEMMA DetachService ==
  ASSUME IInv, Detach
  PROVE  (\E t \in Thread : Service!GiveUp(t)) \/ UNCHANGED Service!svars
<1>0. set' = set /\ info' = info /\ got' = got
  BY DetachDoes
<1>1. CASE {1} \in SUBSET DOMAIN waiting /\ waiting[1] \in Thread /\ Expel({1})
  <2> DEFINE t == waiting[1]
  <2>1. {waiting[i] : i \in {1}} = {t} /\ t \in Thread
    BY <1>1
  <2>2. /\ {t} \subseteq Service!Asked /\ Service!Answered({t})
        /\ Answer' = [u \in Thread |-> IF u \in {t} THEN {} ELSE Answer[u]]
    BY <1>0, <1>1, <2>1, ExpelService
  <2> HIDE DEF t
  <2>3. Answer' = [Answer EXCEPT ![t] = {}]
    BY <2>2 DEF Answer
  <2>4. Service!GiveUp(t)
    BY <1>0, <2>2, <2>3 DEF Service!GiveUp, Service!Asked
  <2> QED BY <2>1, <2>4
<1>2. CASE UNCHANGED <<waiting, pc, error, timed>>
  BY <1>0, <1>2 DEF Service!svars, Phase, Asks, Answer
<1> QED BY <1>1, <1>2, DetachDoes

LEMMA NextService ==
  ASSUME IInv, IInv', [Next]_vars
  PROVE  [Service!SNext]_(Service!svars)
<1>1. ASSUME NEW t \in Thread, NEW r \in Request, Recv(t, r) PROVE Service!SNext
  <2>1. r \in Service!Requests
    BY EventAssumption DEF Service!Requests
  <2> QED BY <1>1, <2>1, RecvService DEF Service!SNext
<1>2. ASSUME NEW t \in Thread, Return(t) PROVE Service!SNext
  BY <1>2, ReturnService DEF Service!SNext
<1>3. ASSUME NEW t \in Thread, Timeout(t) PROVE Service!SNext
  BY <1>3, TimeoutService DEF Service!SNext
<1>4. ASSUME NEW s \in (SUBSET Bit) \ {{}}, Send(s) PROVE Service!SNext
  BY <1>4, SendService DEF Service!SNext
<1>5. CASE Reset
  BY <1>5, ResetService DEF Service!SNext
<1>6. CASE Detach
  BY <1>6, DetachService DEF Service!SNext
<1>7. CASE UNCHANGED vars
  BY <1>7 DEF vars, Service!svars, Phase, Asks, Answer
<1> QED BY <1>1, <1>2, <1>3, <1>4, <1>5, <1>6, <1>7 DEF Next

\* For any threads, bits, requests and priorities: whatever the walk of a send,
\* the time-outs, resets and detaches do in whatever order, callers see what
\* EventService allows; each bit sent goes to one at most who takes it away.
THEOREM ImplementsService == Spec => ServesCallers
<1>1. IInv /\ IInv' /\ [Next]_vars => [Service!SNext]_(Service!svars)
  BY NextService
<1> QED BY <1>1, InitService, AlwaysIInv, PTL DEF Spec, ServesCallers, Service!SSpec

-----------------------------------------------------------------------------
(* A list of flag PRIO is in order of urgency, so the walk of a send comes to *)
(* the more urgent of two waiters first, when more bits are left.             *)

ByUrgency ==
  Flag = "PRIO" =>
    \A i, j \in DOMAIN waiting : i < j => Prio[waiting[i]] <= Prio[waiting[j]]

\* rt_ipc_list_suspend puts a thread before the less urgent ones.
LEMMA InsertedByUrgency ==
  ASSUME waiting \in Seq(Thread), ByUrgency, NEW t \in Thread, NEW i \in Places(t),
         waiting' = Inserted(i, t)
  PROVE  ByUrgency'
<1> DEFINE n == Len(waiting)
<1>1. n \in Nat /\ DOMAIN waiting = 1..n /\ i \in 1..n + 1
      /\ \A j \in 1..n : waiting[j] \in Thread /\ Prio[waiting[j]] \in Nat
  BY EventAssumption DEF Places
<1>2. /\ DOMAIN waiting' = 1..n + 1
      /\ \A j \in 1..n + 1 : waiting'[j] =
            IF j < i THEN waiting[j] ELSE IF j = i THEN t ELSE waiting[j - 1]
  BY DEF Inserted
<1> SUFFICES ASSUME Flag = "PRIO", NEW j \in 1..n + 1, NEW k \in 1..n + 1, j < k
             PROVE  Prio[waiting'[j]] <= Prio[waiting'[k]]
  BY <1>2 DEF ByUrgency
<1>3. \A a, b \in 1..n : a < b => Prio[waiting[a]] <= Prio[waiting[b]]
  BY <1>1 DEF ByUrgency
<1>4. /\ \A a \in 1..n : a < i => Prio[waiting[a]] <= Prio[t]
      /\ i <= n => Prio[t] < Prio[waiting[i]]
  BY <1>1 DEF Places
<1>5. Prio[t] \in Nat
  BY EventAssumption
<1>6. \A a \in 1..n : a >= i => Prio[t] <= Prio[waiting[a]]
  <2> SUFFICES ASSUME NEW a \in 1..n, a >= i PROVE Prio[t] <= Prio[waiting[a]]
    OBVIOUS
  <2>1. i \in 1..n /\ Prio[t] < Prio[waiting[i]] /\ (a = i \/ i < a)
    BY <1>1, <1>4
  <2>2. i < a => Prio[waiting[i]] <= Prio[waiting[a]]
    BY <1>3, <2>1
  <2> QED BY <1>1, <1>5, <2>1, <2>2
<1>7. CASE k < i
  <2>1. j \in 1..n /\ k \in 1..n /\ waiting'[j] = waiting[j] /\ waiting'[k] = waiting[k]
    BY <1>1, <1>2, <1>7
  <2> QED BY <1>3, <2>1
<1>8. CASE k = i
  <2>1. j \in 1..n /\ waiting'[j] = waiting[j] /\ waiting'[k] = t
    BY <1>1, <1>2, <1>8
  <2> QED BY <1>4, <1>8, <2>1
<1>9. CASE k > i /\ j = i
  <2>1. k - 1 \in 1..n /\ k - 1 >= i /\ waiting'[j] = t /\ waiting'[k] = waiting[k - 1]
    BY <1>1, <1>2, <1>9
  <2> QED BY <1>6, <2>1
<1>10. CASE k > i /\ j < i
  <2>1. j \in 1..n /\ k - 1 \in 1..n /\ j < k - 1
        /\ waiting'[j] = waiting[j] /\ waiting'[k] = waiting[k - 1]
    BY <1>1, <1>2, <1>10
  <2> QED BY <1>3, <2>1
<1>11. CASE k > i /\ j > i
  <2>1. j - 1 \in 1..n /\ k - 1 \in 1..n /\ j - 1 < k - 1
        /\ waiting'[j] = waiting[j - 1] /\ waiting'[k] = waiting[k - 1]
    BY <1>1, <1>2, <1>11
  <2> QED BY <1>3, <2>1
<1> QED BY <1>1, <1>7, <1>8, <1>9, <1>10, <1>11

\* Who is taken off the list leaves the others in their order.
LEMMA KeptByUrgency ==
  ASSUME waiting \in Seq(Thread), ByUrgency, NEW S \in SUBSET DOMAIN waiting,
         waiting' \in Kept(S)
  PROVE  ByUrgency'
<1> DEFINE n == Cardinality(DOMAIN waiting \ S)
<1>1. PICK f \in [1..n -> DOMAIN waiting \ S] :
         /\ \A i, j \in 1..n : i < j => f[i] < f[j]
         /\ waiting' = [j \in 1..n |-> waiting[f[j]]]
  BY DEF Kept
<1> HIDE DEF n
<1>2. ASSUME Flag = "PRIO", NEW i \in 1..n, NEW j \in 1..n, i < j
      PROVE  Prio[waiting'[i]] <= Prio[waiting'[j]]
  <2>1. f[i] < f[j] /\ f[i] \in DOMAIN waiting /\ f[j] \in DOMAIN waiting
    BY <1>1, <1>2
  <2>2. Prio[waiting[f[i]]] <= Prio[waiting[f[j]]]
    BY <1>2, <2>1 DEF ByUrgency
  <2> QED BY <1>1, <2>2
<1> QED BY <1>1, <1>2 DEF ByUrgency

LEMMA NextByUrgency == ASSUME IInv, ByUrgency, [Next]_vars PROVE ByUrgency'
<1>1. waiting \in Seq(Thread)
  BY DEF IInv, TypeOK
<1>2. CASE UNCHANGED waiting
  BY <1>2 DEF ByUrgency
<1>3. ASSUME NEW t \in Thread, NEW r \in Request, RecvWait(t, r) PROVE ByUrgency'
  BY <1>1, <1>3, InsertedByUrgency DEF RecvWait
<1>4. ASSUME NEW S \in SUBSET DOMAIN waiting, Resume(S) PROVE ByUrgency'
  BY <1>1, <1>4, KeptByUrgency DEF Resume
<1>5. ASSUME NEW t \in Thread, Timeout(t) PROVE ByUrgency'
  BY <1>4, <1>5 DEF Timeout, Expel
<1>6. ASSUME NEW s, Send(s) PROVE ByUrgency'
  BY <1>4, <1>6 DEF Send
<1>7. CASE Reset
  BY <1>4, <1>7 DEF Reset, Expel
<1>8. CASE Detach
  BY <1>2, <1>4, <1>8, DetachDoes DEF Expel
<1>9. \/ UNCHANGED waiting \/ Reset \/ Detach
      \/ \E t \in Thread, r \in Request : RecvWait(t, r)
      \/ \E t \in Thread : Timeout(t)
      \/ \E s \in (SUBSET Bit) \ {{}} : Send(s)
  BY DEF Next, vars, Recv, RecvNow, RecvNothing, Return
<1> QED BY <1>2, <1>3, <1>5, <1>6, <1>7, <1>8, <1>9

\* Only a send wakes a waiter without an error.
LEMMA OnlySendServes ==
  ASSUME IInv, [Next]_vars, NEW u \in Thread,
         pc[u] = "waiting", pc'[u] = "woken", ~error'[u]
  PROVE  \E s \in (SUBSET Bit) \ {{}} : Send(s)
<1>1. ASSUME NEW S \in SUBSET DOMAIN waiting, Expel(S) PROVE FALSE
  <2>1. u \in {waiting[i] : i \in S}
    BY <1>1 DEF Expel, Resume, IInv, TypeOK
  <2> QED BY <1>1, <2>1 DEF Expel
<1>2. ASSUME NEW t \in Thread, Timeout(t) PROVE FALSE
  BY <1>1, <1>2 DEF Timeout
<1>3. ~Reset
  BY <1>1 DEF Reset
<1>4. ~Detach
  BY <1>1, DetachDoes
<1>5. ASSUME NEW t \in Thread, NEW r \in Request, Recv(t, r) PROVE FALSE
  BY <1>5 DEF Recv, RecvNow, RecvNothing, RecvWait, IInv, TypeOK
<1>6. ASSUME NEW t \in Thread, Return(t) PROVE FALSE
  BY <1>6 DEF Return, IInv, TypeOK
<1> QED BY <1>2, <1>3, <1>4, <1>5, <1>6 DEF Next, vars

\* A send that serves a waiter serves a more urgent one with the same request.
LEMMA SendServesUrgent ==
  ASSUME IInv, ByUrgency, Flag = "PRIO", NEW s \in SUBSET Bit, Send(s),
         NEW t \in Thread, NEW u \in Thread,
         Prio[t] < Prio[u], info[t] = info[u],
         pc[t] = "waiting", pc[u] = "waiting", pc'[u] = "woken"
  PROVE  pc'[t] = "woken"
<1> DEFINE there == set \cup s
<1>1. PICK S \in SUBSET DOMAIN waiting : Serves(there, S) /\ Resume(S)
  BY DEF Send
<1>2. there \in SUBSET Bit /\ DOMAIN waiting = 1..Len(waiting) /\ Len(waiting) \in Nat
  BY DEF IInv, TypeOK
<1> HIDE DEF there
<1>3. PICK i \in DOMAIN waiting : waiting[i] = t
  BY DEF IInv, WaitersAreListed
<1>4. PICK j \in S : waiting[j] = u
  BY <1>1 DEF Resume, IInv, TypeOK
<1>5. i < j
  <2>1. i \in Nat /\ j \in Nat /\ Prio[t] \in Nat /\ Prio[u] \in Nat /\ j \in DOMAIN waiting
    BY <1>2, EventAssumption
  <2>2. j < i => Prio[u] <= Prio[t]
    BY <1>3, <1>4, <2>1 DEF ByUrgency
  <2>3. i # j
    BY <1>3, <1>4, <2>1
  <2> QED BY <2>1, <2>2, <2>3
<1>6. Left(there, S, j) \subseteq Left(there, S, i) /\ Left(there, S, i) \in SUBSET Bit
  <2>1. \A k \in S : k < i => k < j
    BY <1>2, <1>5
  <2> QED BY <1>2, <2>1 DEF Left
<1>7. Met(Left(there, S, j), info[t])
  BY <1>1, <1>4 DEF Serves
<1>8. info[t] \in [want : SUBSET Bit, all : BOOLEAN, clear : BOOLEAN]
  BY DEF IInv, TypeOK
<1>9. Met(Left(there, S, i), info[t])
  BY <1>6, <1>7, <1>8, MetShrinks
<1>10. i \in S
  BY <1>1, <1>3, <1>9 DEF Serves
<1> QED BY <1>1, <1>3, <1>10 DEF Resume

\* For any threads, bits, requests and priorities, with flag PRIO: no send
\* wakes a thread and passes over a more urgent one that asked for the same,
\* whatever other waiters took away with CLEAR on the way.
THEOREM UrgentAreServedFirst == Spec => UrgentFirst
<1>1. Init => ByUrgency
  BY DEF Init, ByUrgency
<1>2. IInv /\ ByUrgency /\ [Next]_vars
        => [\A t, u \in Thread :
             /\ Flag = "PRIO" /\ Prio[t] < Prio[u] /\ info[t] = info[u]
             /\ pc[t] = "waiting" /\ pc[u] = "waiting"
             /\ pc'[u] = "woken" /\ ~error'[u]
             => pc'[t] = "woken"]_vars
  BY OnlySendServes, SendServesUrgent
<1> QED BY <1>1, <1>2, AlwaysIInv, NextByUrgency, PTL DEF Spec, UrgentFirst

=============================================================================
