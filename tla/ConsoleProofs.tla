---------------------------- MODULE ConsoleProofs ----------------------------
(***************************************************************************)
(* What holds of the console's input for every ring, every set of readers  *)
(* and all characters: the types, that it implements InputService, and for *)
(* one reader that it never sleeps on a character.                         *)
(***************************************************************************)
EXTENDS Console, TLAPS

(* The ring in use: fullness is never seen on an empty ring, and what get   *)
(* and put enclose has come from the line.                                  *)
Sound(f) ==
    /\ f \in Ring
    /\ f.full => f.get # f.put
    /\ Content(f) \in Seq(Char)

(* A call asks for something, and who is in none for nothing. *)
Asks == \A r \in Reader : pc[r] = "out" <=> want[r] = 0

(* The wait list holds those asleep, each once. *)
Listed ==
    /\ \A i \in 1..Len(waiting) : pc[waiting[i]] = "asleep"
    /\ \A i, j \in 1..Len(waiting) : waiting[i] = waiting[j] => i = j
    /\ \A r \in Reader : pc[r] = "asleep" => \E i \in 1..Len(waiting) : waiting[i] = r

IInv == TypeOK /\ Sound(rx) /\ Asks /\ Listed

(* One reader: when it is about to sleep on a character, the flag is set.   *)
Alone == \E shell : Reader = {shell}

Told == \A r \in Reader : pc[r] = "wait" /\ ~Empty(rx) /\ ~isr => flag

-----------------------------------------------------------------------------
(* The ring. *)

LEMMA Lengths ==
    ASSUME NEW f \in Ring, f.full => f.get # f.put
    PROVE  /\ Length(f) \in 0..(Size - 1)
           /\ Empty(f) <=> Length(f) = 0
           /\ f.get # f.put <=> Length(f) > 0
BY ConsoleAssumption DEF Ring, Index, Length, Empty

LEMMA Slots ==
    ASSUME NEW f \in Ring, NEW i \in 1..Size
    PROVE  Slot(f, i) \in Index
BY ConsoleAssumption DEF Ring, Index, Slot

LEMMA Contents ==
    ASSUME NEW f, Sound(f)
    PROVE  /\ Len(Content(f)) = Length(f)
           /\ Length(f) \in 0..(Size - 1)
           /\ \A i \in 1..Length(f) : Content(f)[i] = f.buffer[Slot(f, i)]
           /\ Content(f) = <<>> <=> Empty(f)
<1>1. f \in Ring /\ (f.full => f.get # f.put)  BY DEF Sound
<1>2. Length(f) \in 0..(Size - 1) /\ (Empty(f) <=> Length(f) = 0)  BY <1>1, Lengths
<1>3. Content(f) = [i \in 1..Length(f) |-> f.buffer[Slot(f, i)]]  BY DEF Content
<1>4. Length(f) \in Nat  BY <1>2, ConsoleAssumption
<1>5. Len(Content(f)) = Length(f)  BY <1>3, <1>4
<1>6. Content(f) \in Seq(Char)  BY DEF Sound
<1>7. Content(f) = <<>> <=> Length(f) = 0  BY <1>5, <1>6, <1>4
<1> QED  BY <1>2, <1>3, <1>5, <1>7

LEMMA ContentIs ==
    ASSUME NEW f, NEW s \in Seq(Char), Len(s) = Length(f),
           \A i \in 1..Length(f) : f.buffer[Slot(f, i)] = s[i]
    PROVE  Content(f) = s
<1>1. s = [i \in 1..Length(f) |-> s[i]]  OBVIOUS
<1> QED  BY <1>1 DEF Content

LEMMA ClearedRing == Sound(Cleared) /\ Content(Cleared) = <<>>
<1>1. Cleared \in Ring  BY ConsoleAssumption DEF Cleared, Ring, Index
<1>2. Length(Cleared) = 0  BY DEF Cleared, Length
<1>3. Content(Cleared) = <<>>  BY <1>2 DEF Content
<1> QED  BY <1>1, <1>3 DEF Sound, Cleared

(* A character more, and the oldest less when there were Size - 1.          *)
LEMMA StoreAppends ==
    ASSUME NEW f, Sound(f), NEW ch \in Char
    PROVE  /\ Sound(Store(f, ch))
           /\ Content(Store(f, ch)) =
                  Append(IF Len(Content(f)) = Size - 1 THEN Tail(Content(f)) ELSE Content(f), ch)
<1> DEFINE g == [f EXCEPT !.buffer[f.put] = ch, !.put = Wrap(@ + 1)]
           h == Store(f, ch)
           old == IF Len(Content(f)) = Size - 1 THEN Tail(Content(f)) ELSE Content(f)
<1>1. f \in Ring /\ (f.full => f.get # f.put) /\ Content(f) \in Seq(Char)  BY DEF Sound
<1>2. /\ Len(Content(f)) = Length(f)
      /\ Length(f) \in 0..(Size - 1)
      /\ \A i \in 1..Length(f) : Content(f)[i] = f.buffer[Slot(f, i)]
  BY Contents
<1>3. Wrap(f.put + 1) \in Index /\ Wrap(f.get + 1) \in Index
  BY <1>1, ConsoleAssumption DEF Ring, Index, Wrap
<1>4. /\ g \in Ring
      /\ g.get = f.get /\ g.full = f.full /\ g.put = Wrap(f.put + 1)
      /\ \A k \in Index : g.buffer[k] = IF k = f.put THEN ch ELSE f.buffer[k]
  BY <1>1, <1>3 DEF Ring
<1>5. CASE g.put # g.get
  <2>1. h = g  BY <1>5 DEF Store
  <2>2. Length(h) = Length(f) + 1 /\ Length(f) < Size - 1
    <3> HIDE DEF g, h
    <3>1. f.get \in Index /\ f.put \in Index  BY <1>1 DEF Ring
    <3> QED  BY <3>1, <2>1, <1>4, <1>5, ConsoleAssumption DEF Index, Length, Wrap
  <2>3. old = Content(f)  BY <1>2, <2>2, ConsoleAssumption
  <2>4. \A i \in 1..Length(h) : h.buffer[Slot(h, i)] = Append(old, ch)[i]
    <3> SUFFICES ASSUME NEW i \in 1..Length(h)
                 PROVE  h.buffer[Slot(h, i)] = Append(old, ch)[i]
      OBVIOUS
    <3>1. Slot(h, i) = Slot(f, i)  BY <2>1, <1>4 DEF Slot
    <3>2. i \in 1..Size  BY <2>2, <1>2, ConsoleAssumption
    <3>3. Slot(f, i) \in Index  BY <1>1, <3>2, Slots
    <3>4. CASE i = Length(h)
      <4>1. Slot(f, i) = f.put
        <5> HIDE DEF h
        <5>1. f.get \in Index /\ f.put \in Index  BY <1>1 DEF Ring
        <5>2. i = Length(f) + 1  BY <3>4, <2>2
        <5> QED  BY <5>1, <5>2, ConsoleAssumption DEF Index, Length, Slot
      <4> QED  BY <4>1, <3>1, <3>3, <3>4, <2>1, <2>2, <2>3, <1>1, <1>2, <1>4
    <3>5. CASE i # Length(h)
      <4>1. i \in 1..Length(f)  BY <3>5, <2>2, <1>2, ConsoleAssumption
      <4>2. Slot(f, i) # f.put
        BY <4>1, <2>2, <1>1, <1>2, ConsoleAssumption DEF Ring, Index, Length, Slot
      <4>3. Append(old, ch)[i] = Content(f)[i]  BY <4>1, <2>3, <1>1, <1>2, ConsoleAssumption
      <4> QED  BY <4>1, <4>2, <4>3, <3>1, <3>3, <2>1, <1>2, <1>4
    <3> QED  BY <3>4, <3>5
  <2>5. Append(old, ch) \in Seq(Char) /\ Len(Append(old, ch)) = Length(h)
    BY <2>2, <2>3, <1>1, <1>2
  <2>6. Content(h) = Append(old, ch)
    <3> HIDE DEF h, old
    <3> QED  BY <2>4, <2>5, ContentIs
  <2>7. h \in Ring /\ (h.full => h.get # h.put)  BY <2>1, <1>4, <1>5
  <2> QED  BY <2>5, <2>6, <2>7 DEF Sound
<1>6. CASE g.put = g.get
  <2>1. h = Discard(g)  BY <1>6 DEF Store
  <2>2. /\ h \in Ring
        /\ h.get = Wrap(f.get + 1) /\ h.put = f.get /\ h.buffer = g.buffer /\ h.full
    BY <2>1, <1>3, <1>4, <1>6 DEF Ring, Discard
  <2>3. h.get # h.put
    BY <2>2, <1>1, ConsoleAssumption DEF Ring, Index, Wrap
  <2>4. Length(f) = Size - 1 /\ Length(h) = Size - 1
    BY <2>2, <1>1, <1>4, <1>6, ConsoleAssumption DEF Ring, Index, Length, Wrap
  <2>5. old = Tail(Content(f)) /\ Content(f) # <<>>
    BY <2>4, <1>1, <1>2, ConsoleAssumption
  <2>6. /\ Append(old, ch) \in Seq(Char) /\ Len(Append(old, ch)) = Length(h)
        /\ Len(old) = Size - 2
    BY <2>4, <2>5, <1>1, <1>2, ConsoleAssumption
  <2>7. \A i \in 1..Length(h) : h.buffer[Slot(h, i)] = Append(old, ch)[i]
    <3> SUFFICES ASSUME NEW i \in 1..Length(h)
                 PROVE  h.buffer[Slot(h, i)] = Append(old, ch)[i]
      OBVIOUS
    <3>1. i \in 1..Size /\ i + 1 \in 1..Size  BY <2>4, ConsoleAssumption
    <3>2. Slot(h, i) = Slot(f, i + 1)
      <4> HIDE DEF h
      <4>1. f.get \in Index  BY <1>1 DEF Ring
      <4> QED  BY <4>1, <3>1, <2>2, ConsoleAssumption DEF Index, Slot, Wrap
    <3>3. Slot(f, i + 1) \in Index  BY <1>1, <3>1, Slots
    <3>4. CASE i = Length(h)
      <4>1. Slot(f, i + 1) = f.put
        BY <3>4, <2>4, <1>1, <1>4, <1>6, ConsoleAssumption DEF Ring, Index, Slot, Wrap
      <4>2. Append(old, ch)[i] = ch  BY <3>4, <2>4, <2>5, <2>6, <1>1, ConsoleAssumption
      <4> QED  BY <4>1, <4>2, <3>2, <3>3, <2>2, <1>4
    <3>5. CASE i # Length(h)
      <4>1. i + 1 \in 1..Length(f) /\ i \in 1..Len(old)
        BY <3>5, <2>4, <2>6, ConsoleAssumption
      <4>2. Slot(f, i + 1) # f.put
        BY <4>1, <2>4, <1>1, <1>4, <1>6, ConsoleAssumption DEF Ring, Index, Slot, Wrap
      <4>3. Append(old, ch)[i] = Content(f)[i + 1]
        BY <4>1, <2>5, <2>6, <1>1
      <4> QED  BY <4>1, <4>2, <4>3, <3>2, <3>3, <2>2, <1>2, <1>4
    <3> QED  BY <3>4, <3>5
  <2>8. Content(h) = Append(old, ch)
    <3> HIDE DEF h, old
    <3> QED  BY <2>6, <2>7, ContentIs
  <2> QED  BY <2>2, <2>3, <2>6, <2>8 DEF Sound
<1> QED  BY <1>5, <1>6

(* The oldest less. *)
LEMMA TakenIsTail ==
    ASSUME NEW f, Sound(f), ~Empty(f)
    PROVE  /\ Sound(Taken(f))
           /\ Content(Taken(f)) = Tail(Content(f))
           /\ Content(f) # <<>> /\ Head(Content(f)) = f.buffer[f.get]
           /\ f.buffer[f.get] \in Char
<1> DEFINE h == Taken(f)
<1>1. f \in Ring /\ (f.full => f.get # f.put) /\ Content(f) \in Seq(Char)  BY DEF Sound
<1>2. /\ Len(Content(f)) = Length(f)
      /\ Length(f) \in 0..(Size - 1)
      /\ \A i \in 1..Length(f) : Content(f)[i] = f.buffer[Slot(f, i)]
      /\ Content(f) # <<>>
  BY Contents
<1>3. Length(f) > 0 /\ f.get # f.put  BY <1>1, Lengths, <1>2
<1>4. Wrap(f.get + 1) \in Index
  BY <1>1, ConsoleAssumption DEF Ring, Index, Wrap
<1>5. /\ h \in Ring
      /\ h.get = Wrap(f.get + 1) /\ h.put = f.put /\ h.buffer = f.buffer /\ ~h.full
  BY <1>1, <1>4 DEF Ring, Taken
<1>6. Length(h) = Length(f) - 1
  <2> HIDE DEF h
  <2>1. f.get \in Index /\ f.put \in Index  BY <1>1 DEF Ring
  <2> QED  BY <2>1, <1>3, <1>5, ConsoleAssumption DEF Index, Length, Wrap
<1>7. Slot(f, 1) = f.get
  BY <1>1, ConsoleAssumption DEF Ring, Index, Slot
<1>8. Head(Content(f)) = f.buffer[f.get] /\ f.buffer[f.get] \in Char
  BY <1>1, <1>2, <1>3, <1>7, ConsoleAssumption
<1>9. Tail(Content(f)) \in Seq(Char) /\ Len(Tail(Content(f))) = Length(h)
  BY <1>1, <1>2, <1>6
<1>10. \A i \in 1..Length(h) : h.buffer[Slot(h, i)] = Tail(Content(f))[i]
  <2> SUFFICES ASSUME NEW i \in 1..Length(h)
               PROVE  h.buffer[Slot(h, i)] = Tail(Content(f))[i]
    OBVIOUS
  <2>1. i + 1 \in 1..Length(f)  BY <1>2, <1>6, ConsoleAssumption
  <2>2. Slot(h, i) = Slot(f, i + 1)
    BY <2>1, <1>2, <1>5, <1>1, ConsoleAssumption DEF Ring, Index, Slot, Wrap
  <2>3. Tail(Content(f))[i] = Content(f)[i + 1]  BY <1>1, <1>2, <1>9
  <2> QED  BY <2>1, <2>2, <2>3, <1>2, <1>5
<1>11. Content(h) = Tail(Content(f))
  <2> HIDE DEF h
  <2> QED  BY <1>9, <1>10, ContentIs
<1> QED  BY <1>2, <1>5, <1>8, <1>9, <1>11 DEF Sound

-----------------------------------------------------------------------------
(* The invariant. *)

LEMMA InitHolds == Init => IInv
<1> SUFFICES ASSUME Init PROVE IInv  OBVIOUS
<1>1. Sound(rx)  BY ClearedRing DEF Init
<1>2. TypeOK
  <2>1. 0 \in 0..MaxCount /\ <<>> \in Seq(Char) /\ <<>> \in Seq(Reader)  BY ConsoleAssumption
  <2>2. rx \in Ring  BY <1>1 DEF Sound
  <2>3. /\ pc \in [Reader -> {"out", "read", "wait", "asleep", "woken"}]
        /\ want \in [Reader -> 0..MaxCount] /\ got \in [Reader -> Seq(Char)]
    BY <2>1 DEF Init
  <2> QED  BY <2>1, <2>2, <2>3 DEF Init, TypeOK
<1>3. Asks /\ Listed  BY DEF Init, Asks, Listed
<1> QED  BY <1>1, <1>2, <1>3 DEF IInv

LEMMA ReceiveKeeps ==
    ASSUME IInv, NEW ch \in Char, Receive(ch)
    PROVE  IInv'
<1>1. Sound(rx)'  BY StoreAppends DEF IInv, Receive
<1>2. TypeOK'  BY <1>1 DEF IInv, TypeOK, Receive, Sound
<1> QED  BY <1>1, <1>2 DEF IInv, Asks, Listed, Receive

LEMMA IndicateKeeps ==
    ASSUME IInv, Indicate
    PROVE  IInv'
<1>1. Sound(rx)'  BY DEF IInv, Indicate
<1>2. CASE waiting # <<>> /\ Length(rx) # 0
  <2> DEFINE r == Head(waiting)
  <2>1. /\ waiting \in Seq(Reader) /\ pc \in [Reader -> {"out", "read", "wait", "asleep", "woken"}]
        /\ r \in Reader /\ Len(waiting) > 0 /\ waiting[1] = r
    BY <1>2 DEF IInv, TypeOK
  <2>2. waiting' = Tail(waiting) /\ pc' = [pc EXCEPT ![r] = "woken"] /\ want' = want
    BY <1>2 DEF Indicate, Wakeup
  <2>3. /\ waiting' \in Seq(Reader) /\ Len(waiting') = Len(waiting) - 1
        /\ \A i \in 1..Len(waiting') : waiting'[i] = waiting[i + 1]
    BY <2>1, <2>2
  <2>4. TypeOK'
    BY <2>1, <2>2, <2>3, <1>2 DEF IInv, TypeOK, Indicate, Wakeup, Wake
  <2>5. pc[r] = "asleep"  BY <2>1 DEF IInv, Listed
  <2>6. Asks'  BY <2>1, <2>2, <2>5 DEF IInv, Asks
  <2>7. Listed'
    <3> HIDE DEF r
    <3>1. \A i \in 1..Len(waiting') : i + 1 \in 1..Len(waiting) /\ i + 1 # 1
      BY <2>1, <2>3
    <3>2. \A i \in 1..Len(waiting') : waiting'[i] # r
      BY <3>1, <2>1, <2>3 DEF IInv, Listed
    <3>3. \A i \in 1..Len(waiting') : waiting'[i] \in Reader  BY <2>3
    <3>4. \A i \in 1..Len(waiting') : pc'[waiting'[i]] = "asleep"
      BY <3>1, <3>2, <3>3, <2>1, <2>2, <2>3 DEF IInv, Listed
    <3>5. \A i, j \in 1..Len(waiting') : waiting'[i] = waiting'[j] => i = j
      BY <3>1, <2>3, <2>1 DEF IInv, Listed
    <3>6. ASSUME NEW q \in Reader, pc'[q] = "asleep"
          PROVE  \E i \in 1..Len(waiting') : waiting'[i] = q
      <4>1. q # r /\ pc[q] = "asleep"  BY <3>6, <2>1, <2>2
      <4>2. PICK i \in 1..Len(waiting) : waiting[i] = q  BY <4>1 DEF IInv, Listed
      <4>3. i # 1  BY <4>1, <4>2, <2>1
      <4>4. i - 1 \in 1..Len(waiting') /\ waiting'[i - 1] = q
        BY <4>2, <4>3, <2>1, <2>3
      <4> QED  BY <4>4
    <3> QED  BY <3>4, <3>5, <3>6 DEF Listed
  <2> QED  BY <1>1, <2>4, <2>6, <2>7 DEF IInv
<1>3. CASE waiting = <<>> \/ Length(rx) = 0
  <2>1. waiting' = waiting /\ pc' = pc /\ want' = want
    BY <1>3 DEF Indicate, Wakeup
  <2>2. flag' \in BOOLEAN  BY <1>3 DEF Indicate, Wakeup, Wake, IInv, TypeOK
  <2>3. TypeOK'  BY <2>1, <2>2 DEF IInv, TypeOK, Indicate
  <2> QED  BY <1>1, <2>1, <2>3 DEF IInv, Asks, Listed
<1> QED  BY <1>2, <1>3

(* A step of a reader leaves the list alone, unless it goes to sleep. *)
LEMMA ListKept ==
    ASSUME IInv, NEW r \in Reader, NEW where \in {"out", "read", "wait", "woken"},
           pc[r] # "asleep", Goto(r, where), waiting' = waiting
    PROVE  Listed'
<1>1. pc \in [Reader -> {"out", "read", "wait", "asleep", "woken"}] /\ waiting \in Seq(Reader)
  BY DEF IInv, TypeOK
<1>2. \A q \in Reader : pc'[q] = IF q = r THEN where ELSE pc[q]
  BY <1>1 DEF Goto
<1>3. \A i \in 1..Len(waiting) : waiting[i] \in Reader /\ waiting[i] # r
  BY <1>1 DEF IInv, Listed
<1> QED  BY <1>2, <1>3 DEF IInv, Listed

LEMMA CallKeeps ==
    ASSUME IInv, NEW r \in Reader, NEW n \in 1..MaxCount, Call(r, n)
    PROVE  IInv'
<1>1. n \in 0..MaxCount /\ n > 0  BY ConsoleAssumption
<1>2. TypeOK'  BY <1>1 DEF IInv, TypeOK, Call, Goto
<1>3. Asks'  BY <1>1 DEF IInv, TypeOK, Asks, Call, Goto
<1>4. Listed'  BY ListKept DEF Call, At
<1> QED  BY <1>2, <1>3, <1>4 DEF IInv, Call

LEMMA TakeKeeps ==
    ASSUME IInv, NEW r \in Reader, Take(r)
    PROVE  IInv'
<1>1. Sound(rx)' /\ rx.buffer[rx.get] \in Char  BY TakenIsTail DEF IInv, Take
<1>2. got' \in [Reader -> Seq(Char)]  BY <1>1 DEF IInv, TypeOK, Take
<1>3. TypeOK'  BY <1>1, <1>2 DEF IInv, TypeOK, Take, Sound
<1> QED  BY <1>1, <1>3 DEF IInv, Asks, Listed, Take

LEMMA ReturnKeeps ==
    ASSUME IInv, NEW r \in Reader, Return(r)
    PROVE  IInv'
<1>1. TypeOK'  BY ConsoleAssumption DEF IInv, TypeOK, Return, Goto
<1>2. Asks'  BY DEF IInv, TypeOK, Asks, Return, Goto
<1>3. Listed'  BY ListKept DEF Return, Stops, At
<1> QED  BY <1>1, <1>2, <1>3 DEF IInv, Return

LEMMA WaitKeeps ==
    ASSUME IInv, NEW r \in Reader, Wait(r)
    PROVE  IInv'
<1>1. /\ waiting \in Seq(Reader) /\ waiting' = Append(waiting, r)
      /\ pc \in [Reader -> {"out", "read", "wait", "asleep", "woken"}]
      /\ pc' = [pc EXCEPT ![r] = "asleep"] /\ pc[r] = "wait" /\ want' = want
  BY DEF IInv, TypeOK, Wait, At, Goto
<1>2. TypeOK'  BY <1>1 DEF IInv, TypeOK, Wait
<1>3. Asks'  BY <1>1 DEF IInv, Asks
<1>4. /\ Len(waiting') = Len(waiting) + 1 /\ waiting'[Len(waiting) + 1] = r
      /\ \A i \in 1..Len(waiting) : waiting'[i] = waiting[i] /\ waiting[i] \in Reader
      /\ \A i \in 1..Len(waiting') : i \in 1..Len(waiting) \/ i = Len(waiting) + 1
  BY <1>1
<1>5. \A i \in 1..Len(waiting) : waiting[i] # r  BY <1>1 DEF IInv, Listed
<1>6. \A i \in 1..Len(waiting') : pc'[waiting'[i]] = "asleep"
  BY <1>1, <1>4 DEF IInv, Listed
<1>7. \A i, j \in 1..Len(waiting') : waiting'[i] = waiting'[j] => i = j
  BY <1>4, <1>5 DEF IInv, Listed
<1>8. ASSUME NEW q \in Reader, pc'[q] = "asleep"
      PROVE  \E i \in 1..Len(waiting') : waiting'[i] = q
  <2>1. CASE q = r
    BY <2>1, <1>1, <1>4
  <2>2. CASE q # r
    <3>1. PICK i \in 1..Len(waiting) : waiting[i] = q
      BY <2>2, <1>1, <1>8 DEF IInv, Listed
    <3>2. i \in 1..Len(waiting') /\ waiting'[i] = q  BY <3>1, <1>1, <1>4
    <3> QED  BY <3>2
  <2> QED  BY <2>1, <2>2
<1>9. Listed'  BY <1>6, <1>7, <1>8 DEF Listed
<1> QED  BY <1>2, <1>3, <1>9 DEF IInv, Wait

(* The other steps of a reader move it on, with its call. *)
LEMMA MoveKeeps ==
    ASSUME IInv, NEW r \in Reader, Fail(r) \/ WaitNot(r) \/ Woken(r)
    PROVE  IInv'
<1>1. /\ rx' = rx /\ isr' = isr /\ waiting' = waiting /\ want' = want /\ got' = got
      /\ flag' \in BOOLEAN
      /\ pc[r] \in {"read", "wait", "woken"} /\ (Goto(r, "read") \/ Goto(r, "wait"))
  BY DEF IInv, TypeOK, Fail, WaitNot, Woken, Stops, At
<1>2. TypeOK'  BY <1>1 DEF IInv, TypeOK, Goto
<1>3. Asks'  BY <1>1 DEF IInv, TypeOK, Asks, Goto
<1>4. Listed'  BY <1>1, ListKept
<1> QED  BY <1>1, <1>2, <1>3, <1>4 DEF IInv

LEMMA FlushKeeps ==
    ASSUME IInv, Flush
    PROVE  IInv'
<1>1. Sound(rx)'  BY ClearedRing DEF Flush
<1>2. TypeOK'  BY <1>1 DEF IInv, TypeOK, Flush, Sound
<1> QED  BY <1>1, <1>2 DEF IInv, Asks, Listed, Flush

LEMMA NextKeeps == IInv /\ [Next]_vars => IInv'
<1> SUFFICES ASSUME IInv, [Next]_vars PROVE IInv'  OBVIOUS
<1>1. CASE \E ch \in Char : Receive(ch)  BY <1>1, ReceiveKeeps
<1>2. CASE Indicate  BY <1>2, IndicateKeeps
<1>3. ASSUME NEW r \in Reader, Goes(r) PROVE IInv'
  BY <1>3, TakeKeeps, ReturnKeeps, WaitKeeps, MoveKeeps DEF Goes
<1>4. ASSUME NEW r \in Reader, NEW n \in 1..MaxCount, Call(r, n) PROVE IInv'
  BY <1>4, CallKeeps
<1>5. CASE Flush  BY <1>5, FlushKeeps
<1>6. CASE UNCHANGED vars
  BY <1>6 DEF IInv, TypeOK, Asks, Listed, vars
<1> QED  BY <1>1, <1>2, <1>3, <1>4, <1>5, <1>6 DEF Next

LEMMA InvariantHolds == Spec => []IInv
BY InitHolds, NextKeeps, PTL DEF Spec

(* The ring, the wait queue and the readers keep their types: what a read   *)
(* returns are characters of the line and never what the ring was cleared   *)
(* with (serial.c, _serial_int_rx).                                         *)
THEOREM TypesHold == Spec => []TypeOK
<1>1. IInv => TypeOK  BY DEF IInv
<1> QED  BY <1>1, InvariantHolds, PTL

-----------------------------------------------------------------------------
(* One reader never sleeps on a character. *)

LEMMA ToldStep ==
    ASSUME Alone, IInv, Told, NobodySleepsOnInput, [Next]_vars
    PROVE  Told' /\ NobodySleepsOnInput'
<1>1. PICK shell : Reader = {shell}  BY DEF Alone
<1>2. /\ pc \in [Reader -> {"out", "read", "wait", "asleep", "woken"}]
      /\ waiting \in Seq(Reader) /\ Sound(rx)
  BY DEF IInv, TypeOK
<1>3. Empty(rx) <=> Length(rx) = 0  BY <1>2, Lengths DEF Sound
<1>4. CASE \E ch \in Char : Receive(ch)
  BY <1>4 DEF Receive, Told, NobodySleepsOnInput
<1>5. CASE Indicate
  <2>1. CASE Length(rx) = 0
    BY <2>1, <1>3, <1>5 DEF Indicate, Told, NobodySleepsOnInput
  <2>2. CASE Length(rx) # 0 /\ waiting = <<>>
    <3>1. \A r \in Reader : pc[r] # "asleep"  BY <2>2 DEF IInv, Listed
    <3> QED  BY <3>1, <2>2, <1>5 DEF Indicate, Wakeup, Wake, Told, NobodySleepsOnInput
  <2>3. CASE Length(rx) # 0 /\ waiting # <<>>
    <3>1. Head(waiting) = shell  BY <2>3, <1>1, <1>2
    <3>2. pc'[shell] = "woken"  BY <2>3, <3>1, <1>1, <1>2, <1>5 DEF Indicate, Wakeup
    <3> QED  BY <3>2, <1>1 DEF Told, NobodySleepsOnInput
  <2> QED  BY <2>1, <2>2, <2>3
<1>6. ASSUME NEW r \in Reader, Goes(r) \/ \E n \in 1..MaxCount : Call(r, n)
      PROVE  Told' /\ NobodySleepsOnInput'
  <2>1. r = shell  BY <1>1
  <2>2. CASE Take(r)
    BY <2>1, <2>2, <1>1 DEF Take, At, Told, NobodySleepsOnInput
  <2>3. CASE Fail(r)
    <3>1. want[r] > 0 /\ want[r] \in Nat
      BY <2>3, ConsoleAssumption DEF Fail, Stops, At, IInv, TypeOK, Asks
    <3>2. Empty(rx)  BY <2>3, <3>1 DEF Fail, Stops
    <3> QED  BY <3>2, <2>3 DEF Fail, Told, NobodySleepsOnInput, Empty
  <2>4. CASE Wait(r)
    <3>1. Empty(rx)  BY <2>4 DEF Wait, At, Told
    <3> QED  BY <3>1, <2>4 DEF Wait, Told, NobodySleepsOnInput, Empty
  <2>5. CASE Return(r) \/ WaitNot(r) \/ Woken(r) \/ \E n \in 1..MaxCount : Call(r, n)
    <3>1. pc'[shell] \in {"out", "read"}
      BY <2>1, <2>5, <1>1, <1>2 DEF Return, WaitNot, Woken, Call, Goto
    <3> QED  BY <3>1, <1>1 DEF Told, NobodySleepsOnInput
  <2> QED  BY <1>6, <2>2, <2>3, <2>4, <2>5 DEF Goes
<1>7. CASE Flush
  <2>1. Empty(rx')  BY <1>7 DEF Flush, Cleared, Empty
  <2> QED  BY <2>1 DEF Told, NobodySleepsOnInput, Empty
<1>8. CASE UNCHANGED vars
  BY <1>8 DEF vars, Told, NobodySleepsOnInput, Empty
<1> QED  BY <1>4, <1>5, <1>6, <1>7, <1>8 DEF Next

(* With one reader, as in the build, for every ring and all interrupts: a   *)
(* thread that is asleep while a character is in the ring will be told of   *)
(* it by the handler that is running (waitqueue.c, the flag).               *)
THEOREM ReaderIsTold ==
    ASSUME Alone
    PROVE  Spec => []NobodySleepsOnInput
<1>1. Init => Told /\ NobodySleepsOnInput  BY DEF Init, Told, NobodySleepsOnInput
<1>2. IInv /\ Told /\ NobodySleepsOnInput /\ [Next]_vars => Told' /\ NobodySleepsOnInput'
  BY ToldStep, Alone
<1> QED  BY <1>1, <1>2, InvariantHolds, PTL DEF Spec

-----------------------------------------------------------------------------
(* The refinement. *)

LEMMA InitMaps == Init => Service!Init
BY ClearedRing DEF Init, Service!Init

LEMMA StepMaps ==
    ASSUME IInv, [Next]_vars
    PROVE  [Service!Next]_(Service!vars)
<1>1. Sound(rx)  BY DEF IInv
<1>2. Content(rx) = <<>> <=> Empty(rx)  BY <1>1, Contents
<1>3. ASSUME NEW ch \in Char, Receive(ch) PROVE Service!Arrive(ch)
  BY <1>1, <1>3, StoreAppends DEF Receive, Service!Arrive
<1>4. CASE Indicate
  BY <1>4 DEF Indicate, Service!vars
<1>5. ASSUME NEW r \in Reader, Take(r) PROVE Service!Read(r)
  BY <1>1, <1>5, TakenIsTail DEF Take, Service!Read
<1>6. ASSUME NEW r \in Reader, Return(r) PROVE Service!Return(r)
  <2>1. want[r] # 0  BY <1>6 DEF Return, Stops, At, IInv, Asks
  <2> QED  BY <2>1, <1>2, <1>6 DEF Return, Stops, Service!Return
<1>7. ASSUME NEW r \in Reader, Fail(r) \/ WaitNot(r) \/ Wait(r) \/ Woken(r)
      PROVE  UNCHANGED Service!vars
  BY <1>7 DEF Fail, WaitNot, Wait, Woken, Service!vars
<1>8. ASSUME NEW r \in Reader, NEW n \in 1..MaxCount, Call(r, n) PROVE Service!Call(r, n)
  BY <1>8 DEF Call, At, IInv, Asks, Service!Call
<1>9. Flush => Service!Flush
  BY ClearedRing DEF Flush, Service!Flush
<1>10. CASE UNCHANGED vars
  BY <1>10 DEF vars, Service!vars
<1>11. CASE \E ch \in Char : Receive(ch)
  BY <1>3, <1>11 DEF Service!Next
<1>12. ASSUME NEW r \in Reader, Goes(r) PROVE [Service!Next]_(Service!vars)
  <2>1. CASE Take(r)
    BY <1>5, <2>1 DEF Service!Next
  <2>2. CASE Return(r)
    BY <1>6, <2>2 DEF Service!Next
  <2>3. CASE Fail(r) \/ WaitNot(r) \/ Wait(r) \/ Woken(r)
    BY <1>7, <2>3
  <2> QED  BY <1>12, <2>1, <2>2, <2>3 DEF Goes
<1>13. ASSUME NEW r \in Reader, NEW n \in 1..MaxCount, Call(r, n) PROVE Service!Next
  BY <1>8, <1>13 DEF Service!Next
<1>14. CASE Flush
  BY <1>9, <1>14 DEF Service!Next
<1> QED  BY <1>4, <1>10, <1>11, <1>12, <1>13, <1>14 DEF Next

(* For every ring and any number of readers: what they read is what a line  *)
(* of Size - 1 characters that drops its oldest would give them.            *)
THEOREM ReadersAreServed == Spec => ServesReaders
BY InitMaps, StepMaps, InvariantHolds, PTL DEF Spec, ServesReaders, Service!Spec
=============================================================================
