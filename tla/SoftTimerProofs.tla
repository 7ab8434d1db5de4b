-------------------------- MODULE SoftTimerProofs --------------------------
(***************************************************************************)
(* The timer list keeps its shape for every set of timers, all callers and *)
(* every clock, provided no timer has two starters: rt_list_remove and     *)
(* rt_list_insert_after keep next and prev inverse to each other as long   *)
(* as only a node that is out of the list is put in.  The removal at the   *)
(* beginning of rt_timer_start sees to that, if nobody else puts the timer *)
(* in before its second half does.  The walk's saved pointer needs no more *)
(* than that it never is at a timer that a thread below has half started.  *)
(* A callback's half started timer is safe, as nobody walks meanwhile.     *)
(*                                                                         *)
(* On the shape rest the order of the list, and on the order the promises: *)
(* stopped timers stay silent, states are true, no callback is early, and  *)
(* the timer thread sleeps past no timer.  Comparing ticks modulo 2^32 is  *)
(* an order only among those less than half of the counter apart; that all *)
(* timers in the list are (NearInv) is an invariant of its own.            *)
(***************************************************************************)
EXTENDS SoftTimer, LeastNumber, TLAPS

\* Taking a node out leaves it in a ring of its own and the rest sound.
LEMMA WithoutIsSound ==
    ASSUME NEW l \in Lists, Sound(l), NEW x \in Nodes
    PROVE  /\ Without(l, x) \in Lists /\ Sound(Without(l, x))
           /\ Without(l, x).next[x] = x /\ Without(l, x).prev[x] = x
<1> DEFINE m == Without(l, x)
<1>1. /\ l.next \in [Nodes -> Nodes] /\ l.prev \in [Nodes -> Nodes]
      /\ l.next[x] \in Nodes /\ l.prev[x] \in Nodes
  BY DEF Lists
<1>2. /\ m.next = [l.next EXCEPT ![l.prev[x]] = l.next[x], ![x] = x]
      /\ m.prev = [l.prev EXCEPT ![l.next[x]] = l.prev[x], ![x] = x]
  BY DEF Without
<1>3. m \in Lists
  BY <1>1 DEF Without, Lists
<1>4. ASSUME NEW y \in Nodes
      PROVE  /\ m.next[y] = IF y = x THEN x ELSE IF y = l.prev[x] THEN l.next[x] ELSE l.next[y]
             /\ m.prev[y] = IF y = x THEN x ELSE IF y = l.next[x] THEN l.prev[x] ELSE l.prev[y]
  BY <1>1, <1>2
<1>5. Sound(m)
  <2> SUFFICES ASSUME NEW y \in Nodes
               PROVE  m.prev[m.next[y]] = y /\ m.next[m.prev[y]] = y
    BY DEF Sound
  <2>1. /\ l.next[y] \in Nodes /\ l.prev[y] \in Nodes
        /\ l.prev[l.next[y]] = y /\ l.next[l.prev[y]] = y
        /\ l.prev[l.next[x]] = x /\ l.next[l.prev[x]] = x
    BY <1>1 DEF Sound
  <2> QED
    BY <1>1, <1>4, <2>1
<1> QED
  BY <1>3, <1>4, <1>5

\* Putting a node that is out of the list behind another keeps it sound.
LEMMA WithIsSound ==
    ASSUME NEW l \in Lists, Sound(l), NEW x \in Nodes, NEW p \in Nodes,
           p # x, l.next[x] = x, l.prev[x] = x
    PROVE  With(l, p, x) \in Lists /\ Sound(With(l, p, x))
<1> DEFINE m == With(l, p, x)
<1>1. /\ l.next \in [Nodes -> Nodes] /\ l.prev \in [Nodes -> Nodes]
      /\ l.next[p] \in Nodes
  BY DEF Lists
<1>2. m \in Lists
  BY <1>1 DEF With, Lists
<1>3. ASSUME NEW y \in Nodes
      PROVE  /\ m.next[y] = IF y = x THEN l.next[p] ELSE IF y = p THEN x ELSE l.next[y]
             /\ m.prev[y] = IF y = x THEN p ELSE IF y = l.next[p] THEN x ELSE l.prev[y]
  BY <1>1 DEF With
<1>4. Sound(m)
  <2> SUFFICES ASSUME NEW y \in Nodes
               PROVE  m.prev[m.next[y]] = y /\ m.next[m.prev[y]] = y
    BY DEF Sound
  <2>1. /\ l.next[y] \in Nodes /\ l.prev[y] \in Nodes
        /\ l.prev[l.next[y]] = y /\ l.next[l.prev[y]] = y
        /\ l.prev[l.next[p]] = p
    BY <1>1 DEF Sound
  <2>2. l.next[p] # x
    BY <1>1, <2>1
  <2> QED
    BY <1>1, <1>3, <2>1, <2>2
<1> QED
  BY <1>2, <1>4

\* A node that is in a ring of its own.
Lone(l, x) == l.next[x] = x /\ l.prev[x] = x

\* A lone node stays alone when others come and go.
LEMMA LoneWithout ==
    ASSUME NEW l \in Lists, Sound(l), NEW x \in Nodes, NEW y \in Nodes, y # x, Lone(l, y)
    PROVE  Lone(Without(l, x), y)
<1>1. l.next \in [Nodes -> Nodes] /\ l.prev \in [Nodes -> Nodes]
  BY DEF Lists
<1>2. l.prev[x] # y /\ l.next[x] # y
  BY DEF Sound, Lone
<1>3. /\ Without(l, x).next = [l.next EXCEPT ![l.prev[x]] = l.next[x], ![x] = x]
      /\ Without(l, x).prev = [l.prev EXCEPT ![l.next[x]] = l.prev[x], ![x] = x]
  BY DEF Without
<1> QED
  BY <1>1, <1>2, <1>3 DEF Lone

LEMMA LoneWith ==
    ASSUME NEW l \in Lists, Sound(l), NEW x \in Nodes, NEW p \in Nodes, NEW y \in Nodes,
           y # x, y # p, Lone(l, y)
    PROVE  Lone(With(l, p, x), y)
<1>1. l.next \in [Nodes -> Nodes] /\ l.prev \in [Nodes -> Nodes]
  BY DEF Lists
<1>2. l.next[p] # y
  BY DEF Sound, Lone
<1>3. /\ With(l, p, x).next = [l.next EXCEPT ![p] = x, ![x] = l.next[p]]
      /\ With(l, p, x).prev = [l.prev EXCEPT ![l.next[p]] = x, ![x] = p]
  BY DEF With
<1> QED
  BY <1>1, <1>2, <1>3 DEF Lone

-----------------------------------------------------------------------------
\* Calls are those of callers and about timers.
CallsOK ==
    /\ subject \in [Interruptible -> Nodes] /\ phase \in [Interruptible -> Phases]
    /\ \A c \in Interruptible : phase[c] # "none" => subject[c] \in Timers /\ c \in Callers
    /\ phase["callback"] # "none" => pc = "callback"

\* Between the halves of its start a timer is alone and nobody else's to start,
\* and if a thread below starts it, out of the walk's reach.
Apart ==
    /\ \A c \in Interruptible :
          phase[c] = "withdrawn" => c \in Starters[subject[c]] /\ Lone(list, subject[c])
    /\ phase["below"] = "withdrawn" =>
          n # subject["below"] /\ (pc \in {"callback", "finish"} => t # subject["below"])

\* The walk points somewhere only while it is under way.
Idle == pc \notin {"walk", "callback", "finish"} => n = Root

\* What the shape of the list rests on.
IInv ==
    /\ list \in Lists /\ ListIsSound
    /\ n \in Nodes
    /\ pc \in {"callback", "finish"} => t \in Timers
    /\ CallsOK /\ Apart /\ Idle

\* The calls that a step is not part of.
Others(c) == \A d \in Interruptible \ {c} : phase'[d] = phase[d] /\ subject'[d] = subject[d]

\* What a step of a call does to the calls.
LEMMA CallsMove ==
    ASSUME CallsOK, NEW c \in Interruptible, NEW step \in Phases
    PROVE  /\ \A x \in Timers : Begins(c, x, step) =>
                 /\ phase[c] = "none" /\ phase'[c] = step /\ subject'[c] = x /\ Others(c)
                 /\ Runs(c) /\ c \in Callers
           /\ GoesOn(c, step) => phase'[c] = step /\ subject'[c] = subject[c] /\ Others(c)
           /\ Ends(c) => phase'[c] = "none" /\ Others(c)
  BY DEF CallsOK, Begins, GoesOn, Ends, MayCall, Others

LEMMA CallsPreserved == CallsOK /\ [Next]_vars => CallsOK'
<1> SUFFICES ASSUME CallsOK, [Next]_vars PROVE CallsOK'
  OBVIOUS
<1> USE DEF vars, walk, call
<1>0. Timers \subseteq Nodes /\ Root \in Nodes /\ "callback" \in Interruptible
  BY DEF Nodes, Interruptible
<1>1. ASSUME UNCHANGED call, pc = "callback" => pc' = "callback" \/ phase["callback"] = "none"
      PROVE  CallsOK'
  BY <1>1 DEF CallsOK
<1>2. ASSUME NEW c \in Interruptible, NEW step \in Phases, UNCHANGED pc,
             \/ \E x \in Timers : Begins(c, x, step)
             \/ GoesOn(c, step) /\ At(c, phase[c]) /\ phase[c] # "none"
             \/ Ends(c)
      PROVE  CallsOK'
  <2>1. CASE \E x \in Timers : Begins(c, x, step)
    BY <1>0, <1>2, <2>1 DEF CallsOK, Begins, MayCall, Runs
  <2>2. CASE GoesOn(c, step) /\ At(c, phase[c]) /\ phase[c] # "none"
    BY <1>0, <1>2, <2>2 DEF CallsOK, GoesOn, At, Runs
  <2>3. CASE Ends(c)
    BY <1>0, <1>2, <2>3 DEF CallsOK, Ends, Phases
  <2> QED
    BY <1>2, <2>1, <2>2, <2>3
<1>3. ASSUME NEW x \in Timers, Start(x) \/ Stop(x) PROVE CallsOK'
  BY <1>1, <1>3 DEF Start, Resume, Waiting, Stop
<1>4. ASSUME NEW c \in Interruptible, NEW x \in Timers, Withdraw(c, x) \/ StopCheck(c, x)
      PROVE  CallsOK'
  BY <1>2, <1>4 DEF Withdraw, StopCheck, Phases
<1>5. ASSUME NEW c \in Interruptible, Insert(c) \/ StopRemove(c) \/ StopClear(c) PROVE CallsOK'
  BY <1>2, <1>5 DEF Insert, StopRemove, StopClear, At, Phases
<1>6. ASSUME NEW c \in Interruptible, Awaken(c) PROVE CallsOK'
  <2>1. CASE c = "callback"
    BY <1>2, <1>6, <2>1 DEF Awaken, Resume, Waiting, At, Runs, Phases
  <2>2. CASE c = "below"
    <3>1. pc # "callback" /\ Ends(c)
      BY <1>6, <2>2 DEF Awaken, At, Runs, Waiting
    <3> QED
      BY <1>0, <2>2, <3>1 DEF CallsOK, Ends, Phases
  <2> QED
    BY <2>1, <2>2 DEF Interruptible
<1>7. CASE TimerThread \/ Tick \/ UNCHANGED vars
  BY <1>1, <1>7 DEF TimerThread, Look, Plan, Delay, Check, Enter, Call, Leave, Return, Finish, Tick
<1> QED
  BY <1>3, <1>4, <1>5, <1>6, <1>7 DEF Next, Proceed

\* Putting in a lone timer, and what it does to another lone one.
LEMMA PutInIsSound ==
    ASSUME NEW l \in Lists, Sound(l), NEW x \in Timers, Lone(l, x), NEW at, PutIn(l, x, at)
    PROVE  /\ list' \in Lists /\ Sound(list')
           /\ \A y \in Timers : y # x /\ Lone(l, y) => Lone(list', y)
<1>1. PICK p \in Places(l, at) : list' = With(l, p, x)
  BY DEF PutIn
<1>2. x \in Nodes /\ x # Root
  BY TimerAssumption DEF Nodes
<1>3. p \in Nodes /\ (p = Root \/ p \in LinkedIn(l))
  BY DEF Places, LinkedIn, Nodes
<1>4. p \in Nodes /\ p # x
  BY <1>2, <1>3 DEF LinkedIn, Lone, Nodes
<1>5. ASSUME NEW y \in Timers, y # x, Lone(l, y) PROVE Lone(list', y)
  <2>1. y \in Nodes /\ y # Root /\ y # p
    BY <1>3, <1>5, TimerAssumption DEF LinkedIn, Lone, Nodes
  <2> QED
    BY <1>1, <1>2, <1>4, <1>5, <2>1, LoneWith
<1> QED
  BY <1>1, <1>2, <1>4, <1>5, WithIsSound DEF Lone

LEMMA RemovedIsSound ==
    ASSUME IInv, NEW x \in Nodes
    PROVE  /\ Removed(x) \in Lists /\ Sound(Removed(x)) /\ Lone(Removed(x), x)
           /\ \A y \in Nodes : y # x /\ Lone(list, y) => Lone(Removed(x), y)
  BY WithoutIsSound, LoneWithout DEF IInv, ListIsSound, Removed, Lone

LEMMA StartedIsSound ==
    ASSUME IInv, NEW x \in Timers, Started(x)
    PROVE  /\ list' \in Lists /\ Sound(list')
           /\ \A y \in Timers : y # x /\ Lone(list, y) => Lone(list', y)
<1>1. x \in Nodes /\ Timers \subseteq Nodes
  BY DEF Nodes
<1>2. /\ Removed(x) \in Lists /\ Sound(Removed(x)) /\ Lone(Removed(x), x)
      /\ \A y \in Timers : y # x /\ Lone(list, y) => Lone(Removed(x), y)
  BY <1>1, RemovedIsSound
<1>3. PutIn(Removed(x), x, Deadline(x))
  BY DEF Started
<1> QED
  BY <1>2, <1>3, PutInIsSound

LEMMA Initially == Init => IInv
<1> SUFFICES ASSUME Init PROVE IInv
  OBVIOUS
<1>1. list = [next |-> [x \in Nodes |-> x], prev |-> [x \in Nodes |-> x]]
  BY DEF Init
<1>2. list \in Lists
  BY <1>1 DEF Lists
<1>3. list.next = [x \in Nodes |-> x] /\ list.prev = [x \in Nodes |-> x]
  BY <1>1
<1>4. ListIsSound
  BY <1>3 DEF ListIsSound, Sound
<1>5. n = Root /\ n \in Nodes /\ pc = "look" /\ \A c \in Interruptible : phase[c] = "none"
  BY DEF Init, Nodes
<1>6. CallsOK
  BY DEF Init, CallsOK, Nodes, Phases, Interruptible
<1> QED
  BY <1>2, <1>4, <1>5, <1>6 DEF IInv, Apart, Idle, Interruptible

LEMMA Preserved == OneStarter /\ IInv /\ [Next]_vars => IInv'
<1> SUFFICES ASSUME OneStarter, IInv, [Next]_vars PROVE IInv'
  OBVIOUS
<1> USE DEF vars, walk, call
<1>0. /\ Timers \subseteq Nodes /\ Root \in Nodes /\ Root \notin Timers
      /\ Interruptible = {"callback", "below"} /\ CallsOK
      /\ \A c \in Interruptible : phase[c] = "withdrawn" => subject[c] \in Timers
  BY TimerAssumption DEF Nodes, Interruptible, IInv, CallsOK
<1>a. CallsOK'
  BY <1>0, CallsPreserved
<1>1. CASE UNCHANGED vars
  BY <1>1, <1>a DEF IInv, ListIsSound, Apart, Idle
<1>b. ASSUME NEW x \in Nodes, list' = Removed(x), UNCHANGED <<n, t, pc>>,
             \A c \in Interruptible : phase'[c] = "withdrawn" =>
                phase[c] = "withdrawn" /\ subject'[c] = subject[c]
      PROVE  IInv'
  <2>1. list' \in Lists /\ Sound(list')
        /\ \A y \in Nodes : Lone(list, y) => Lone(list', y)
    BY <1>b, RemovedIsSound
  <2>2. Apart' /\ Idle'
    BY <1>0, <1>b, <2>1 DEF IInv, Apart, Idle
  <2> QED
    BY <1>a, <1>b, <2>1, <2>2 DEF IInv, ListIsSound
<1>2. ASSUME NEW x \in Timers, Start(x) PROVE IInv'
  <2>1. /\ list' \in Lists /\ Sound(list')
        /\ \A y \in Timers : y # x /\ Lone(list, y) => Lone(list', y)
    BY <1>2, StartedIsSound DEF Start
  <2>2. UNCHANGED <<n, t, phase, subject>>
    BY <1>2 DEF Start
  <2>3. pc' = pc \/ (Waiting /\ pc' = "check")
    BY <1>2 DEF Start, Resume
  <2>4. \A c \in Interruptible : phase[c] = "withdrawn" => subject[c] # x
    BY <1>0, <1>2 DEF Start, IInv, Apart, OneStarter
  <2>5. Apart'
    BY <1>0, <2>1, <2>2, <2>3, <2>4 DEF IInv, Apart
  <2>6. Idle'
    BY <2>2, <2>3 DEF IInv, Idle, Waiting
  <2> QED
    BY <1>a, <2>1, <2>2, <2>3, <2>5, <2>6 DEF IInv, ListIsSound
<1>3. ASSUME NEW c \in Interruptible, NEW x \in Timers, Withdraw(c, x) PROVE IInv'
  <2>1. /\ list' = Removed(x) /\ UNCHANGED <<n, t, pc>> /\ c \in Starters[x]
        /\ Begins(c, x, "withdrawn") /\ "withdrawn" \in Phases
    BY <1>3 DEF Withdraw, Phases
  <2>2. phase'[c] = "withdrawn" /\ subject'[c] = x /\ Others(c) /\ Runs(c)
    BY <1>0, <2>1, CallsMove
  <2>3. list' \in Lists /\ Sound(list') /\ Lone(list', x)
        /\ \A y \in Nodes : Lone(list, y) => Lone(list', y)
    BY <1>0, <2>1, RemovedIsSound
  <2>4. ASSUME NEW d \in Interruptible, phase'[d] = "withdrawn"
        PROVE  d \in Starters[subject'[d]] /\ Lone(list', subject'[d])
    <3>1. CASE d = c
      BY <2>1, <2>2, <2>3, <3>1
    <3>2. CASE d # c
      BY <1>0, <2>2, <2>3, <2>4, <3>2 DEF Others, IInv, Apart
    <3> QED
      BY <3>1, <3>2
  <2>5. ASSUME phase'["below"] = "withdrawn"
        PROVE  n # subject'["below"] /\ (pc \in {"callback", "finish"} => t # subject'["below"])
    <3>1. CASE c = "below"
      BY <1>0, <2>2, <3>1 DEF Runs, Waiting, IInv, Idle
    <3>2. CASE c # "below"
      BY <1>0, <2>2, <2>5, <3>2 DEF Others, IInv, Apart
    <3> QED
      BY <3>1, <3>2
  <2>6. Apart' /\ Idle'
    BY <2>1, <2>4, <2>5 DEF IInv, Apart, Idle
  <2> QED
    BY <1>a, <2>1, <2>3, <2>6 DEF IInv, ListIsSound
<1>4. ASSUME NEW c \in Interruptible, Insert(c) PROVE IInv'
  <2>1. PutIn(list, subject[c], timeout[subject[c]]) /\ UNCHANGED <<n, t, pc>>
        /\ phase[c] = "withdrawn" /\ GoesOn(c, "inserted") /\ "inserted" \in Phases
    BY <1>4 DEF Insert, At, Phases
  <2>2. phase'[c] = "inserted" /\ Others(c)
    BY <1>0, <2>1, CallsMove
  <2>3. subject[c] \in Timers /\ c \in Starters[subject[c]] /\ Lone(list, subject[c])
    BY <1>0, <2>1 DEF IInv, Apart
  <2>4. list' \in Lists /\ Sound(list')
        /\ \A y \in Timers : y # subject[c] /\ Lone(list, y) => Lone(list', y)
    BY <2>1, <2>3, PutInIsSound DEF IInv, ListIsSound
  <2>5. ASSUME NEW d \in Interruptible, phase'[d] = "withdrawn"
        PROVE  /\ phase[d] = "withdrawn" /\ subject'[d] = subject[d]
               /\ d \in Starters[subject'[d]] /\ Lone(list', subject'[d])
    <3>1. d # c /\ phase[d] = "withdrawn" /\ subject'[d] = subject[d]
      BY <2>2, <2>5 DEF Others
    <3>2. subject[d] \in Timers /\ d \in Starters[subject[d]] /\ Lone(list, subject[d])
      BY <1>0, <3>1 DEF IInv, Apart
    <3>3. subject[d] # subject[c]
      BY <2>3, <3>1, <3>2 DEF OneStarter
    <3> QED
      BY <2>4, <3>1, <3>2, <3>3
  <2>6. Apart' /\ Idle'
    BY <1>0, <2>1, <2>5 DEF IInv, Apart, Idle
  <2> QED
    BY <1>a, <2>1, <2>4, <2>6 DEF IInv, ListIsSound
<1>5. ASSUME NEW c \in Interruptible, Awaken(c) PROVE IInv'
  <2>1. UNCHANGED <<list, n, t>> /\ Ends(c) /\ (pc' = pc \/ (Waiting /\ pc' = "check"))
    BY <1>5 DEF Awaken, Resume
  <2>2. phase'[c] = "none" /\ Others(c)
    BY <1>0, <2>1, CallsMove DEF Phases
  <2>3. \A d \in Interruptible : phase'[d] = "withdrawn" =>
           phase[d] = "withdrawn" /\ subject'[d] = subject[d]
    BY <2>2 DEF Others
  <2>4. Apart' /\ Idle'
    BY <1>0, <2>1, <2>3 DEF IInv, Apart, Idle, Waiting
  <2> QED
    BY <1>a, <2>1, <2>4 DEF IInv, ListIsSound
<1>6. ASSUME NEW x \in Timers, Stop(x) PROVE IInv'
  <2>1. list' = Removed(x) /\ UNCHANGED <<n, t, pc, phase, subject>>
    BY <1>6 DEF Stop
  <2> QED
    BY <1>0, <1>b, <2>1
<1>c. ASSUME NEW c \in Interruptible, StopRemove(c) PROVE IInv'
  <2>1. /\ list' = Removed(subject[c]) /\ UNCHANGED <<n, t, pc>> /\ GoesOn(c, "removed")
        /\ subject[c] \in Nodes /\ "removed" \in Phases
    BY <1>0, <1>c DEF StopRemove, CallsOK, Phases
  <2>2. phase'[c] = "removed" /\ Others(c)
    BY <1>0, <2>1, CallsMove
  <2>3. \A d \in Interruptible : phase'[d] = "withdrawn" =>
           phase[d] = "withdrawn" /\ subject'[d] = subject[d]
    BY <2>2 DEF Others
  <2> QED
    BY <1>b, <2>1, <2>3
<1>d. ASSUME NEW c \in Interruptible,
             StopClear(c) \/ \E x \in Timers : StopCheck(c, x)
      PROVE  IInv'
  <2>1. UNCHANGED <<list, n, t, pc>> /\ (Ends(c) \/ \E x \in Timers : Begins(c, x, "checked"))
    BY <1>d DEF StopClear, StopCheck
  <2>2. phase'[c] \in {"none", "checked"} /\ Others(c)
    BY <1>0, <2>1, CallsMove DEF Phases
  <2>3. \A d \in Interruptible : phase'[d] = "withdrawn" =>
           phase[d] = "withdrawn" /\ subject'[d] = subject[d]
    BY <2>2 DEF Others
  <2>4. Apart' /\ Idle'
    BY <1>0, <2>1, <2>3 DEF IInv, Apart, Idle
  <2> QED
    BY <1>a, <2>1, <2>4 DEF IInv, ListIsSound
<1>7. CASE Look \/ Plan \/ Delay \/ Check \/ Return \/ Tick
  <2>1. UNCHANGED <<list, n, t, phase, subject>>
        /\ (pc' \in {"callback", "finish"} => pc \in {"callback", "finish"})
        /\ (pc \in {"walk", "callback", "finish"} => pc' \in {"walk", "callback", "finish"})
    BY <1>7 DEF Look, Plan, Delay, Check, Return, Tick
  <2> QED
    BY <1>a, <2>1 DEF IInv, ListIsSound, Apart, Idle
<1>8. CASE Enter
  <2>1. UNCHANGED <<list, t, phase, subject>> /\ n' = list.next[Root] /\ pc' = "walk"
    BY <1>8 DEF Enter
  <2>2. n' \in Nodes
    BY <1>0, <2>1 DEF IInv, Lists
  <2>3. phase["below"] = "withdrawn" => n' # subject["below"]
    BY <1>0, <2>1 DEF IInv, Apart, Lone, ListIsSound, Sound
  <2> QED
    BY <1>a, <2>1, <2>2, <2>3 DEF IInv, ListIsSound, Apart, Idle
<1>9. CASE Call
  <2>1. n \in Timers /\ n \in Nodes
    BY <1>9 DEF Call, IInv, Nodes
  <2>2. t' = n /\ n' = list.next[n] /\ list' = Removed(n) /\ pc' = "callback"
        /\ UNCHANGED <<phase, subject>>
    BY <1>9 DEF Call
  <2>3. n' \in Nodes
    BY <2>1, <2>2 DEF IInv, Lists
  <2>4. list' \in Lists /\ Sound(list')
        /\ \A y \in Nodes : Lone(list, y) => Lone(list', y)
    BY <2>1, <2>2, RemovedIsSound
  <2>5. phase["below"] = "withdrawn" => n' # subject["below"]
    BY <1>0, <2>1, <2>2 DEF IInv, Apart, Lone, ListIsSound, Sound
  <2>6. Apart'
    BY <1>0, <2>2, <2>4, <2>5 DEF IInv, Apart
  <2> QED
    BY <1>a, <2>1, <2>2, <2>3, <2>4, <2>6 DEF IInv, ListIsSound, Idle
<1>10. CASE Leave
  BY <1>0, <1>a, <1>10 DEF Leave, IInv, ListIsSound, Apart, Idle
<1>11. CASE Finish
  <2>1. t \in Timers /\ pc = "finish" /\ pc' = "walk" /\ UNCHANGED <<n, t, phase, subject>>
    BY <1>11 DEF Finish, IInv
  <2>2. /\ list' \in Lists /\ Sound(list')
        /\ \A y \in Timers : y # t /\ Lone(list, y) => Lone(list', y)
    <3>1. CASE Started(t)
      BY <2>1, <3>1, StartedIsSound
    <3>2. CASE UNCHANGED list
      BY <3>2 DEF IInv, ListIsSound
    <3> QED
      BY <1>11, <3>1, <3>2 DEF Finish
  <2>3. phase["callback"] = "none"
    BY <2>1 DEF IInv, CallsOK
  <2>4. Apart' /\ Idle'
    BY <1>0, <2>1, <2>2, <2>3 DEF IInv, Apart, Idle
  <2> QED
    BY <1>a, <2>1, <2>2, <2>4 DEF IInv, ListIsSound
<1> QED
  BY <1>1, <1>2, <1>3, <1>4, <1>5, <1>6, <1>c, <1>d, <1>7, <1>8, <1>9, <1>10, <1>11
     DEF Next, TimerThread, Proceed

\* If no timer has two starters, whoever starts and stops timers, and whenever:
\* the list stays a list.
THEOREM ListStaysSound == ASSUME OneStarter PROVE Spec => []ListIsSound
<1>1. IInv => ListIsSound
  BY DEF IInv
<1>2. IInv /\ [Next]_vars => IInv'
  BY Preserved
<1> QED
  BY <1>1, <1>2, Initially, PTL DEF Spec

-----------------------------------------------------------------------------
(* Types, for any starters. *)

\* Half of what the tick can count, rounded down.
LEMMA HalfOfTicks ==
    /\ Ticks \in Nat \ {0} /\ Half \in Nat /\ TickMax \in TickRange
    /\ 2 * Half <= Ticks - 1 /\ Ticks - 1 <= 2 * Half + 1
<1>1. Ticks \in Nat \ {0}
  BY TimerAssumption
<1>2. Half \in Int /\ 2 * Half <= Ticks - 1 /\ Ticks - 1 <= 2 * Half + 1
  BY <1>1 DEF Half
<1> QED
  BY <1>1, <1>2 DEF TickMax, TickRange

LEMMA DeadlineType == ASSUME tick \in TickRange, NEW x \in Timers PROVE Deadline(x) \in TickRange
<1>1. Ticks \in Nat \ {0} /\ InitTick[x] \in Int /\ tick \in Int
  BY TimerAssumption, HalfOfTicks DEF TickRange
<1> QED
  BY <1>1 DEF Deadline, TickRange

LEMMA LinkTypes ==
    ASSUME NEW l \in Lists, NEW x \in Nodes, NEW p \in Nodes
    PROVE  Without(l, x) \in Lists /\ With(l, p, x) \in Lists
<1>1. /\ l.next \in [Nodes -> Nodes] /\ l.prev \in [Nodes -> Nodes]
      /\ l.next[x] \in Nodes /\ l.prev[x] \in Nodes /\ l.next[p] \in Nodes
  BY DEF Lists
<1>2. Without(l, x) \in Lists
  BY <1>1 DEF Without, Lists
<1>3. With(l, p, x) \in Lists
  BY <1>1 DEF With, Lists
<1> QED
  BY <1>2, <1>3

LEMMA PutInTypes ==
    ASSUME NEW l \in Lists, NEW x \in Timers, NEW at, PutIn(l, x, at),
           activated \in [Timers -> BOOLEAN]
    PROVE  list' \in Lists /\ activated' \in [Timers -> BOOLEAN]
<1>1. PICK p \in Places(l, at) : list' = With(l, p, x)
  BY DEF PutIn
<1>2. p \in Nodes /\ x \in Nodes
  BY DEF Places, LinkedIn, Nodes
<1>3. activated' = [activated EXCEPT ![x] = TRUE]
  BY DEF PutIn
<1> QED
  BY <1>1, <1>2, <1>3, LinkTypes

LEMMA StartedTypes ==
    ASSUME TypeOK, NEW x \in Timers, Started(x)
    PROVE  /\ list' \in Lists /\ activated' \in [Timers -> BOOLEAN]
           /\ timeout' \in [Timers -> TickRange]
<1>1. Removed(x) \in Lists
  BY LinkTypes DEF TypeOK, Removed, Nodes
<1>2. timeout' = [timeout EXCEPT ![x] = Deadline(x)] /\ Deadline(x) \in TickRange
  BY DeadlineType DEF TypeOK, Started
<1> QED
  BY <1>1, <1>2, PutInTypes DEF TypeOK, Started

\* A call is about a timer from its first step to its last.
TInv == TypeOK /\ CallsOK

LEMMA TypesPreserved == TInv /\ [Next]_vars => TInv'
<1> SUFFICES ASSUME TInv, [Next]_vars PROVE TInv'
  OBVIOUS
<1> USE HalfOfTicks DEF vars, walk, call
<1>0. /\ Timers \subseteq Nodes /\ Root \in Nodes /\ Root \notin Timers
      /\ 0 \in TickRange /\ MaxCalls \in Nat
  BY TimerAssumption DEF Nodes, TickRange
<1>a. /\ CallsOK' /\ subject' \in [Interruptible -> Nodes] /\ phase' \in [Interruptible -> Phases]
      /\ \A c \in Interruptible : phase[c] # "none" => subject[c] \in Timers
      /\ \A c \in Interruptible : subject[c] \in Nodes
  BY CallsPreserved DEF TInv, CallsOK
<1>1. CASE UNCHANGED vars
  BY <1>a, <1>1 DEF TInv, TypeOK
<1>2. ASSUME NEW c, MayCall(c) PROVE calls' \in 0..MaxCalls
  BY <1>0, <1>2 DEF MayCall, TInv, TypeOK
<1>3. ASSUME Resume
      PROVE  /\ wake' \in TickRange
             /\ pc' = "check" \/ pc' = pc
  BY <1>0, <1>3 DEF Resume, TInv, TypeOK
<1>4. ASSUME NEW x \in Timers, Start(x) PROVE TInv'
  <2>1. list' \in Lists /\ activated' \in [Timers -> BOOLEAN] /\ timeout' \in [Timers -> TickRange]
    BY <1>4, StartedTypes DEF Start, TInv
  <2>2. calls' \in 0..MaxCalls
    BY <1>2, <1>4 DEF Start
  <2>3. Resume /\ wanted' = wanted \cup {x} /\ UNCHANGED <<tick, walk, call>>
    BY <1>4 DEF Start
  <2> QED
    BY <1>0, <1>a, <1>3, <2>1, <2>2, <2>3 DEF TInv, TypeOK
<1>5. ASSUME NEW c \in Interruptible, NEW x \in Timers, Withdraw(c, x) PROVE TInv'
  <2>1. list' \in Lists
    BY <1>0, <1>5, LinkTypes DEF Withdraw, Removed, TInv, TypeOK
  <2>2. timeout' \in [Timers -> TickRange] /\ activated' \in [Timers -> BOOLEAN]
    BY <1>5, DeadlineType DEF Withdraw, TInv, TypeOK
  <2>3. calls' \in 0..MaxCalls
    BY <1>2, <1>5 DEF Withdraw, Begins
  <2>4. wanted' \subseteq Timers /\ UNCHANGED <<tick, pc, wake, walk>>
    BY <1>5 DEF Withdraw, TInv, TypeOK
  <2> QED
    BY <1>0, <1>a, <2>1, <2>2, <2>3, <2>4 DEF TInv, TypeOK
<1>6. ASSUME NEW c \in Interruptible, Insert(c) PROVE TInv'
  <2>1. subject[c] \in Timers
    BY <1>a, <1>6 DEF Insert, At
  <2>2. list' \in Lists /\ activated' \in [Timers -> BOOLEAN]
    BY <1>6, <2>1, PutInTypes DEF Insert, TInv, TypeOK
  <2>3. wanted' \subseteq Timers /\ UNCHANGED <<tick, timeout, pc, wake, walk, calls>>
    BY <1>6, <2>1 DEF Insert, GoesOn, TInv, TypeOK
  <2> QED
    BY <1>0, <1>a, <2>2, <2>3 DEF TInv, TypeOK
<1>7. ASSUME NEW c \in Interruptible, Awaken(c) PROVE TInv'
  <2>1. Resume /\ UNCHANGED <<tick, list, timeout, activated, walk, wanted, calls>>
    BY <1>7 DEF Awaken, Ends
  <2> QED
    BY <1>0, <1>a, <1>3, <2>1 DEF TInv, TypeOK
<1>8. ASSUME NEW x \in Timers, Stop(x) PROVE TInv'
  <2>1. list' \in Lists
    BY <1>0, <1>8, LinkTypes DEF Stop, Removed, TInv, TypeOK
  <2>2. calls' \in 0..MaxCalls
    BY <1>2, <1>8 DEF Stop
  <2> QED
    BY <1>a, <1>8, <2>1, <2>2 DEF Stop, Deactivated, TInv, TypeOK
<1>b. ASSUME NEW c \in Interruptible, NEW x \in Timers, StopCheck(c, x) PROVE TInv'
  <2>1. calls' \in 0..MaxCalls
    BY <1>2, <1>b DEF StopCheck, Begins
  <2>2. UNCHANGED <<tick, list, timeout, activated, pc, wake, walk, wanted>>
    BY <1>b DEF StopCheck
  <2> QED
    BY <1>a, <2>1, <2>2 DEF TInv, TypeOK
<1>c. ASSUME NEW c \in Interruptible, StopRemove(c) PROVE TInv'
  <2>1. list' \in Lists
    BY <1>a, <1>c, LinkTypes DEF StopRemove, Removed, TInv, TypeOK
  <2>2. wanted' \subseteq Timers
        /\ UNCHANGED <<tick, timeout, activated, pc, wake, walk, calls>>
    BY <1>c DEF StopRemove, GoesOn, TInv, TypeOK
  <2> QED
    BY <1>a, <2>1, <2>2 DEF TInv, TypeOK
<1>d. ASSUME NEW c \in Interruptible, StopClear(c) PROVE TInv'
  <2>1. activated' \in [Timers -> BOOLEAN]
    BY <1>d DEF StopClear, Deactivated, TInv, TypeOK
  <2>2. UNCHANGED <<tick, list, timeout, pc, wake, walk, wanted, calls>>
    BY <1>d DEF StopClear, Ends
  <2> QED
    BY <1>a, <2>1, <2>2 DEF TInv, TypeOK
<1>9. CASE Look
  <2>1. list.next[Root] \in Nodes
    BY <1>0 DEF TInv, TypeOK, Lists
  <2>2. wake' \in TickRange
    BY <1>9, <2>1 DEF Look, TInv, TypeOK, Nodes
  <2> QED
    BY <1>a, <1>9, <2>2 DEF Look, TInv, TypeOK
<1>10. CASE Plan
  <2>1. (wake - tick) % Ticks \in TickRange
    BY DEF TInv, TypeOK, TickRange
  <2> QED
    BY <1>0, <1>a, <1>10, <2>1 DEF Plan, TInv, TypeOK
<1>e. CASE Delay
  <2>1. (tick + wake) % Ticks \in TickRange
    BY DEF TInv, TypeOK, TickRange
  <2> QED
    BY <1>0, <1>a, <1>e, <2>1 DEF Delay, TInv, TypeOK
<1>11. CASE Check
  BY <1>a, <1>11 DEF Check, TInv, TypeOK
<1>12. CASE Enter
  BY <1>0, <1>a, <1>12 DEF Enter, TInv, TypeOK, Lists
<1>13. CASE Call
  <2>1. n \in Timers /\ n \in Nodes /\ list.next[n] \in Nodes
    BY <1>13 DEF Call, TInv, TypeOK, Nodes, Lists
  <2>2. list' \in Lists
    BY <1>13, <2>1, LinkTypes DEF Call, Removed, TInv, TypeOK
  <2> QED
    BY <1>a, <1>13, <2>1, <2>2 DEF Call, TInv, TypeOK
<1>14. CASE Leave
  BY <1>0, <1>a, <1>14 DEF Leave, TInv, TypeOK
<1>15. CASE Return
  BY <1>a, <1>15 DEF Return, TInv, TypeOK
<1>16. CASE Finish
  <2>1. t \in Timers /\ pc' = "walk" /\ UNCHANGED <<tick, wake, walk, call, wanted, calls>>
    BY <1>16 DEF Finish, TInv, TypeOK
  <2>2. CASE Started(t)
    <3>1. list' \in Lists /\ activated' \in [Timers -> BOOLEAN] /\ timeout' \in [Timers -> TickRange]
      BY <2>1, <2>2, StartedTypes DEF TInv
    <3> QED
      BY <1>a, <2>1, <3>1 DEF TInv, TypeOK
  <2>3. CASE Deactivated(t) /\ UNCHANGED <<list, timeout, order>>
    BY <1>a, <2>1, <2>3 DEF Deactivated, TInv, TypeOK
  <2> QED
    BY <1>16, <2>2, <2>3 DEF Finish
<1>17. CASE Tick
  <2>1. tick' \in TickRange
    BY <1>17 DEF Tick, TInv, TypeOK, TickRange
  <2> QED
    BY <1>0, <1>a, <1>17, <2>1 DEF Tick, TInv, TypeOK
<1> QED
  BY <1>1, <1>4, <1>5, <1>6, <1>7, <1>8, <1>b, <1>c, <1>d, <1>9, <1>10, <1>e, <1>11, <1>12,
     <1>13, <1>14, <1>15, <1>16, <1>17 DEF Next, TimerThread, Proceed

LEMMA TypesInitially == Init => TInv
<1> SUFFICES ASSUME Init PROVE TInv
  OBVIOUS
<1>1. 0 \in TickRange /\ MaxCalls \in Nat
  BY HalfOfTicks, TimerAssumption DEF TickRange
<1>2. list \in Lists
  BY DEF Init, Lists
<1>3. CallsOK
  BY Initially DEF IInv
<1>4. /\ timeout \in [Timers -> TickRange] /\ activated \in [Timers -> BOOLEAN]
      /\ tick \in TickRange /\ wake \in TickRange /\ cur \in TickRange
      /\ pc = "look" /\ n \in Nodes /\ t \in Nodes /\ wanted \subseteq Timers
      /\ calls \in 0..MaxCalls
  BY <1>1 DEF Init, Nodes
<1> QED
  BY <1>2, <1>3, <1>4 DEF TInv, TypeOK, CallsOK

\* Every tick that the code computes is one the counter can show, and the
\* walk, the list and the calls keep their types, whoever starts what.
THEOREM TypesHold == Spec => []TypeOK
<1>1. TInv => TypeOK
  BY DEF TInv
<1> QED
  BY <1>1, TypesInitially, TypesPreserved, PTL DEF Spec

-----------------------------------------------------------------------------
(* The list is one ring through its head: with next and prev inverse to each *)
(* other there could still be a ring of timers beside it, whose last member  *)
(* a removal would leave linked to itself and lost.                          *)

\* Along prev the ranks fall, so that way always ends at the head.
Ranked(l) ==
    \E rank \in [Nodes -> Nat] : \A x \in LinkedIn(l) : rank[l.prev[x]] < rank[x]

\* In a sound list a timer is out of the list both ways or in it both ways.
LEMMA LoneOrLinked ==
    ASSUME NEW l \in Lists, Sound(l), NEW x \in Timers
    PROVE  Lone(l, x) <=> x \notin LinkedIn(l)
<1>1. x \in Nodes
  BY DEF Nodes
<1> QED
  BY <1>1 DEF Lone, LinkedIn, Sound

LEMMA WithoutIsRanked ==
    ASSUME NEW l \in Lists, Sound(l), Ranked(l), NEW x \in Timers
    PROVE  LinkedIn(Without(l, x)) = LinkedIn(l) \ {x} /\ Ranked(Without(l, x))
<1> DEFINE m == Without(l, x)
<1>0. Timers \subseteq Nodes
  BY DEF Nodes
<1>1. /\ l.next \in [Nodes -> Nodes] /\ l.prev \in [Nodes -> Nodes]
      /\ x \in Nodes /\ l.next[x] \in Nodes /\ l.prev[x] \in Nodes
  BY <1>0 DEF Lists
<1>2. /\ m.next = [l.next EXCEPT ![l.prev[x]] = l.next[x], ![x] = x]
      /\ m.prev = [l.prev EXCEPT ![l.next[x]] = l.prev[x], ![x] = x]
  BY DEF Without
<1> HIDE DEF m
<1>3. ASSUME NEW y \in Nodes
      PROVE  /\ m.next[y] = IF y = x THEN x ELSE IF y = l.prev[x] THEN l.next[x] ELSE l.next[y]
             /\ m.prev[y] = IF y = x THEN x ELSE IF y = l.next[x] THEN l.prev[x] ELSE l.prev[y]
  BY <1>1, <1>2
<1>4. PICK rank \in [Nodes -> Nat] : \A y \in LinkedIn(l) : rank[l.prev[y]] < rank[y]
  BY DEF Ranked
<1>5. \A y \in Nodes : /\ l.next[y] \in Nodes /\ l.prev[y] \in Nodes
                       /\ rank[y] \in Nat
                       /\ l.prev[l.next[y]] = y /\ l.next[l.prev[y]] = y
  BY <1>1 DEF Sound
<1>6. \A y \in Timers : y \in LinkedIn(l) <=> l.next[y] # y
  BY DEF LinkedIn
<1>7. ASSUME NEW y \in Timers, y # x, y \in LinkedIn(l) PROVE m.next[y] # y
  <2>1. CASE y = l.prev[x]
    <3> SUFFICES ASSUME l.next[x] = y PROVE FALSE
      BY <1>0, <1>3, <1>7, <2>1
    <3>1. l.prev[y] = x /\ x \in LinkedIn(l)
      BY <1>1, <1>5, <1>6, <1>7
    <3>2. rank[x] < rank[y] /\ rank[y] < rank[x]
      BY <1>4, <1>7, <2>1, <3>1
    <3> QED
      BY <1>0, <1>5, <3>2
  <2>2. CASE y # l.prev[x]
    BY <1>0, <1>3, <1>6, <1>7, <2>2
  <2> QED
    BY <2>1, <2>2
<1>8. ASSUME NEW y \in Timers, y \notin LinkedIn(l) PROVE m.next[y] = y
  BY <1>0, <1>3, <1>5, <1>6, <1>8
<1>9. LinkedIn(m) = LinkedIn(l) \ {x}
  BY <1>1, <1>3, <1>7, <1>8 DEF LinkedIn
<1>10. ASSUME NEW y \in LinkedIn(m) PROVE rank[m.prev[y]] < rank[y]
  <2>1. y \in LinkedIn(l) /\ y # x /\ y \in Nodes /\ rank[l.prev[y]] < rank[y]
    BY <1>0, <1>4, <1>9 DEF LinkedIn
  <2>2. CASE y = l.next[x]
    <3>1. x \in LinkedIn(l) /\ l.prev[y] = x
      BY <1>1, <1>5, <1>6, <2>1, <2>2
    <3>2. rank[l.prev[x]] < rank[x] /\ rank[x] < rank[y] /\ m.prev[y] = l.prev[x]
      BY <1>3, <1>4, <2>1, <2>2, <3>1
    <3> QED
      BY <1>1, <1>5, <2>1, <3>2
  <2>3. CASE y # l.next[x]
    BY <1>3, <2>1, <2>3
  <2> QED
    BY <2>2, <2>3
<1> QED
  BY <1>9, <1>10 DEF Ranked, m

LEMMA WithIsRanked ==
    ASSUME NEW l \in Lists, Sound(l), Ranked(l), NEW x \in Timers, Lone(l, x),
           NEW p \in LinkedIn(l) \cup {Root}
    PROVE  LinkedIn(With(l, p, x)) = LinkedIn(l) \cup {x} /\ Ranked(With(l, p, x))
<1> DEFINE m == With(l, p, x)
<1>0. Timers \subseteq Nodes /\ Root \in Nodes /\ Root \notin Timers
  BY TimerAssumption DEF Nodes
<1>1. /\ l.next \in [Nodes -> Nodes] /\ l.prev \in [Nodes -> Nodes]
      /\ x \in Nodes /\ p \in Nodes /\ l.next[p] \in Nodes /\ p # x
  BY <1>0 DEF Lists, LinkedIn, Lone
<1>2. ASSUME NEW y \in Nodes
      PROVE  /\ m.next[y] = IF y = x THEN l.next[p] ELSE IF y = p THEN x ELSE l.next[y]
             /\ m.prev[y] = IF y = x THEN p ELSE IF y = l.next[p] THEN x ELSE l.prev[y]
  BY <1>1 DEF With
<1> HIDE DEF m
<1>3. PICK rank \in [Nodes -> Nat] : \A y \in LinkedIn(l) : rank[l.prev[y]] < rank[y]
  BY DEF Ranked
<1>4. \A y \in Nodes : /\ l.next[y] \in Nodes /\ l.prev[y] \in Nodes
                       /\ rank[y] \in Nat
                       /\ l.prev[l.next[y]] = y /\ l.next[l.prev[y]] = y
  BY <1>1 DEF Sound
<1>5. \A y \in Timers : y \in LinkedIn(l) <=> l.next[y] # y
  BY DEF LinkedIn
<1>6. l.next[p] # x
  BY <1>1, <1>4 DEF Lone
<1>7. LinkedIn(m) = LinkedIn(l) \cup {x}
  BY <1>0, <1>1, <1>2, <1>5, <1>6 DEF LinkedIn
<1> DEFINE new == [y \in Nodes |-> IF y = x THEN 2 * rank[p] + 1 ELSE 2 * rank[y]]
<1>8. new \in [Nodes -> Nat]
  BY <1>1, <1>4
<1>9. ASSUME NEW y \in LinkedIn(m) PROVE new[m.prev[y]] < new[y]
  <2>1. CASE y = x
    <3>1. m.prev[y] = p /\ new[p] = 2 * rank[p] /\ new[y] = 2 * rank[p] + 1
      BY <1>1, <1>2, <2>1
    <3> HIDE DEF new
    <3> QED
      BY <1>1, <1>4, <3>1
  <2>2. CASE y # x
    <3>1. y \in LinkedIn(l) /\ y \in Nodes /\ y \in Timers /\ rank[l.prev[y]] < rank[y]
      BY <1>0, <1>3, <1>7, <2>2 DEF LinkedIn
    <3>2. CASE y = l.next[p]
      <4>1. l.prev[y] = p /\ m.prev[y] = x
        BY <1>1, <1>2, <1>4, <2>2, <3>1, <3>2
      <4>2. new[x] = 2 * rank[p] + 1 /\ new[y] = 2 * rank[y]
        BY <1>1, <2>2, <3>1
      <4> HIDE DEF new
      <4> QED
        BY <1>1, <1>4, <3>1, <4>1, <4>2
    <3>3. CASE y # l.next[p]
      <4>1. m.prev[y] = l.prev[y] /\ l.prev[y] \in Nodes /\ l.prev[y] # x
        BY <1>1, <1>2, <1>4, <2>2, <3>1, <3>3 DEF Lone
      <4>2. new[m.prev[y]] = 2 * rank[l.prev[y]] /\ new[y] = 2 * rank[y]
        BY <2>2, <3>1, <4>1
      <4> HIDE DEF new
      <4> QED
        BY <1>4, <3>1, <4>1, <4>2
    <3> QED
      BY <3>2, <3>3
  <2> QED
    BY <2>1, <2>2
<1> HIDE DEF new
<1> QED
  BY <1>7, <1>8, <1>9 DEF Ranked, m

RInv == IInv /\ Ranked(list)

\* What a removal and a start do to the set of timers in the list.
LEMMA RemovedLinks ==
    ASSUME RInv, NEW x \in Timers
    PROVE  /\ Removed(x) \in Lists /\ Sound(Removed(x)) /\ Lone(Removed(x), x)
           /\ LinkedIn(Removed(x)) = Linked \ {x} /\ Ranked(Removed(x))
<1>1. x \in Nodes
  BY DEF Nodes
<1>2. Removed(x) \in Lists /\ Sound(Removed(x)) /\ Lone(Removed(x), x)
  BY <1>1, RemovedIsSound DEF RInv
<1> QED
  BY <1>2, WithoutIsRanked DEF RInv, IInv, ListIsSound, Removed, Linked

LEMMA PutInLinks ==
    ASSUME NEW l \in Lists, Sound(l), Ranked(l), NEW x \in Timers, Lone(l, x), NEW at,
           PutIn(l, x, at)
    PROVE  Linked' = LinkedIn(l) \cup {x} /\ Ranked(list)'
<1>1. PICK p \in LinkedIn(l) \cup {Root} : list' = With(l, p, x)
  BY DEF PutIn, Places
<1>2. LinkedIn(With(l, p, x)) = LinkedIn(l) \cup {x} /\ Ranked(With(l, p, x))
  BY WithIsRanked
<1>3. Linked' = LinkedIn(list')
  BY DEF Linked, LinkedIn
<1>4. Ranked(list)' <=> Ranked(list')
  BY DEF Ranked, LinkedIn
<1> QED
  BY <1>1, <1>2, <1>3, <1>4

LEMMA StartedLinks ==
    ASSUME RInv, NEW x \in Timers, Started(x)
    PROVE  Linked' = Linked \cup {x} /\ Ranked(list)'
<1>1. /\ Removed(x) \in Lists /\ Sound(Removed(x)) /\ Lone(Removed(x), x)
      /\ LinkedIn(Removed(x)) = Linked \ {x} /\ Ranked(Removed(x))
  BY RemovedLinks
<1>2. PutIn(Removed(x), x, Deadline(x))
  BY DEF Started
<1> QED
  BY <1>1, <1>2, PutInLinks

LEMMA InsertLinks ==
    ASSUME RInv, NEW c \in Interruptible, Insert(c)
    PROVE  /\ subject[c] \in Timers /\ subject[c] \notin Linked
           /\ Linked' = Linked \cup {subject[c]} /\ Ranked(list)'
<1>1. /\ subject[c] \in Timers /\ Lone(list, subject[c]) /\ list \in Lists /\ Sound(list)
      /\ PutIn(list, subject[c], timeout[subject[c]])
  BY DEF Insert, At, RInv, IInv, CallsOK, Apart, ListIsSound
<1> QED
  BY <1>1, PutInLinks, LoneOrLinked DEF RInv, Linked

LEMMA TakenOutLinks ==
    ASSUME RInv, NEW x \in Timers, list' = Removed(x)
    PROVE  Linked' = Linked \ {x} /\ Ranked(list)'
<1>1. Linked' = LinkedIn(list') /\ (Ranked(list)' <=> Ranked(list'))
  BY DEF Linked, LinkedIn, Ranked
<1> QED
  BY <1>1, RemovedLinks

LEMMA StopRemoveLinks ==
    ASSUME RInv, NEW c \in Interruptible, StopRemove(c)
    PROVE  /\ subject[c] \in Timers /\ list' = Removed(subject[c])
           /\ Linked' = Linked \ {subject[c]}
<1>1. subject[c] \in Timers /\ list' = Removed(subject[c])
  BY DEF StopRemove, At, RInv, IInv, CallsOK
<1> QED
  BY <1>1, TakenOutLinks

LEMMA CallLinks ==
    ASSUME RInv, Call
    PROVE  n \in Timers /\ list' = Removed(n) /\ Linked' = Linked \ {n}
<1>1. n \in Timers /\ list' = Removed(n)
  BY DEF Call, RInv, IInv, Nodes
<1> QED
  BY <1>1, TakenOutLinks

\* Steps that let the list and the flags alone.
Quiet ==
    \/ \E c \in Interruptible : Awaken(c) \/ \E x \in Timers : StopCheck(c, x)
    \/ Look \/ Plan \/ Delay \/ Check \/ Enter \/ Leave \/ Return \/ Tick
    \/ UNCHANGED vars

Called == pc \in {"callback", "finish"}

LEMMA QuietSteps ==
    ASSUME Quiet
    PROVE  /\ UNCHANGED <<list, timeout, activated, wanted, order>>
           /\ Linked' = Linked
           /\ Called <=> Called'
           /\ Called => t' = t
<1>1. UNCHANGED list => Linked' = Linked
  BY DEF Linked, LinkedIn
<1> QED
  BY <1>1 DEF Quiet, Called, Awaken, Resume, Waiting, StopCheck, Look, Plan, Delay, Check, Enter,
              Leave, Return, Tick, vars, walk, call

\* They neither begin the first half of a start or of a removal nor end it.
LEMMA QuietCalls ==
    ASSUME CallsOK, Quiet, NEW c \in Interruptible,
           phase[c] \in {"withdrawn", "removed"} \/ phase'[c] \in {"withdrawn", "removed"}
    PROVE  phase'[c] = phase[c] /\ subject'[c] = subject[c]
<1>1. ASSUME NEW d \in Interruptible, Awaken(d)
      PROVE  phase'[c] = phase[c] /\ subject'[c] = subject[c]
  <2>1. phase[d] = "inserted" /\ phase'[d] = "none" /\ Others(d)
    BY <1>1, CallsMove DEF Awaken, At, Phases
  <2> QED
    BY <2>1 DEF Others
<1>2. ASSUME NEW d \in Interruptible, NEW x \in Timers, StopCheck(d, x)
      PROVE  phase'[c] = phase[c] /\ subject'[c] = subject[c]
  <2>1. phase[d] = "none" /\ phase'[d] = "checked" /\ Others(d)
    BY <1>2, CallsMove DEF StopCheck, Phases
  <2> QED
    BY <2>1 DEF Others
<1>3. ASSUME Look \/ Plan \/ Delay \/ Check \/ Enter \/ Leave \/ Return \/ Tick \/ UNCHANGED vars
      PROVE  UNCHANGED call
  BY <1>3 DEF Look, Plan, Delay, Check, Enter, Leave, Return, Tick, vars
<1> QED
  BY <1>1, <1>2, <1>3 DEF Quiet, call

LEMMA RingPreserved == OneStarter /\ RInv /\ [Next]_vars => RInv'
<1> SUFFICES ASSUME OneStarter, RInv, [Next]_vars PROVE RInv'
  OBVIOUS
<1>1. IInv'
  BY Preserved DEF RInv
<1>2. ASSUME UNCHANGED list PROVE Ranked(list)'
  BY <1>2 DEF RInv, Ranked, LinkedIn
<1>3. ASSUME NEW x \in Timers, list' = Removed(x) PROVE Ranked(list)'
  BY <1>3, TakenOutLinks
<1>4. ASSUME NEW x \in Timers, Start(x) PROVE Ranked(list)'
  BY <1>4, StartedLinks DEF Start
<1>5. ASSUME NEW c \in Interruptible, Insert(c) PROVE Ranked(list)'
  BY <1>5, InsertLinks
<1>6. ASSUME NEW x \in Timers, Stop(x) \/ \E c \in Interruptible : Withdraw(c, x)
      PROVE  Ranked(list)'
  BY <1>3, <1>6 DEF Stop, Withdraw
<1>7. ASSUME NEW c \in Interruptible, StopRemove(c) \/ StopClear(c) PROVE Ranked(list)'
  BY <1>2, <1>3, <1>7, StopRemoveLinks DEF StopClear
<1>8. ASSUME Call PROVE Ranked(list)'
  BY <1>3, <1>8, CallLinks
<1>9. ASSUME Finish PROVE Ranked(list)'
  BY <1>2, <1>9, StartedLinks DEF Finish, RInv, IInv
<1>10. ASSUME Quiet PROVE Ranked(list)'
  BY <1>2, <1>10, QuietSteps
<1>11. Ranked(list)'
  BY <1>4, <1>5, <1>6, <1>7, <1>8, <1>9, <1>10 DEF Next, TimerThread, Proceed, Quiet
<1> QED
  BY <1>1, <1>11 DEF RInv

LEMMA NoneLinkedInitially == Init => Linked = {}
<1> SUFFICES ASSUME Init PROVE LinkedIn(list) = {}
  BY DEF Linked
<1> QED
  BY DEF Init, LinkedIn, Nodes

LEMMA RingInitially == Init => RInv
<1> SUFFICES ASSUME Init PROVE RInv
  OBVIOUS
<1>1. LinkedIn(list) = {}
  BY NoneLinkedInitially DEF Linked
<1>2. Ranked(list)
  <2>1. [x \in Nodes |-> 0] \in [Nodes -> Nat]
    OBVIOUS
  <2> QED
    BY <1>1, <2>1 DEF Ranked
<1> QED
  BY <1>2, Initially DEF RInv

\* If no timer has two starters, every timer in the list is on the one way
\* from the head round to it: none is lost in a ring of its own.
THEOREM ListIsOneRing == ASSUME OneStarter PROVE Spec => []Ranked(list)
<1>1. RInv => Ranked(list)
  BY DEF RInv
<1>2. RInv /\ [Next]_vars => RInv'
  BY RingPreserved
<1> QED
  BY <1>1, <1>2, RingInitially, PTL DEF Spec

-----------------------------------------------------------------------------
(* What a timer's flag and the walk promise rests on rules for callers.      *)

\* Nobody starts a timer while it is being called.
CalledIsOut == Called => t \notin Linked

\* Nor while its stop has yet to clear the flag.
StoppedIsOut == \A c \in Interruptible : phase[c] = "removed" => subject[c] \notin Linked

\* Nobody stops the timer at which the walk goes on.
NextIsListed == n # Root => n \in Linked

\* A start leaves the timer thread in a callback it is in.
LEMMA ResumeKeepsCallback == ASSUME Resume PROVE Called <=> Called'
  BY DEF Resume, Waiting, Called

\* The timers whose stop has yet to clear the flag.
StillStopping == {x \in Timers : BeingStopped(x)}

LEMMA StoppingChanges ==
    ASSUME CallsOK, [Next]_vars
    PROVE  /\ Quiet => UNCHANGED StillStopping
           /\ \A x \in Timers : Start(x) \/ Stop(x) => UNCHANGED StillStopping
           /\ \A c \in Interruptible : \A x \in Timers : Withdraw(c, x) => UNCHANGED StillStopping
           /\ \A c \in Interruptible : Insert(c) => UNCHANGED StillStopping
           /\ Call \/ Finish => UNCHANGED StillStopping
           /\ \A c \in Interruptible : StopRemove(c) =>
                 StillStopping \cup {subject[c]} \subseteq StillStopping'
           /\ \A c \in Interruptible : StopClear(c) =>
                 StillStopping \ {subject[c]} \subseteq StillStopping'
<1>1. ASSUME \A c \in Interruptible :
                phase[c] = "removed" \/ phase'[c] = "removed" =>
                   phase'[c] = phase[c] /\ subject'[c] = subject[c]
      PROVE  UNCHANGED StillStopping
  BY <1>1 DEF StillStopping, BeingStopped
<1>2. Quiet => UNCHANGED StillStopping
  BY <1>1, QuietCalls
<1>3. ASSUME NEW x \in Timers, Start(x) \/ Stop(x) PROVE UNCHANGED StillStopping
  BY <1>1, <1>3 DEF Start, Stop, call
<1>4. ASSUME NEW c \in Interruptible, NEW x \in Timers, Withdraw(c, x)
      PROVE  UNCHANGED StillStopping
  <2>1. phase[c] = "none" /\ phase'[c] = "withdrawn" /\ Others(c)
    BY <1>4, CallsMove DEF Withdraw, Phases
  <2> QED
    BY <1>1, <2>1 DEF Others
<1>5. ASSUME NEW c \in Interruptible, Insert(c) PROVE UNCHANGED StillStopping
  <2>1. phase[c] = "withdrawn" /\ phase'[c] = "inserted" /\ Others(c)
    BY <1>5, CallsMove DEF Insert, At, Phases
  <2> QED
    BY <1>1, <2>1 DEF Others
<1>6. ASSUME Call \/ Finish PROVE UNCHANGED StillStopping
  BY <1>1, <1>6 DEF Call, Finish, call
<1>7. ASSUME NEW c \in Interruptible, StopRemove(c)
      PROVE  StillStopping \cup {subject[c]} \subseteq StillStopping'
  <2>1. /\ phase[c] = "checked" /\ phase'[c] = "removed" /\ subject'[c] = subject[c]
        /\ Others(c) /\ subject[c] \in Timers
    BY <1>7, CallsMove DEF StopRemove, At, Phases, CallsOK
  <2> QED
    BY <2>1 DEF Others, StillStopping, BeingStopped
<1>8. ASSUME NEW c \in Interruptible, StopClear(c)
      PROVE  StillStopping \ {subject[c]} \subseteq StillStopping'
  <2>1. Others(c)
    BY <1>8, CallsMove DEF StopClear, Phases
  <2> QED
    BY <2>1 DEF Others, StillStopping, BeingStopped
<1> QED
  BY <1>2, <1>3, <1>4, <1>5, <1>6, <1>7, <1>8

\* The state, said of sets.
LEMMA StateInSets ==
    StateIsTrue <=> /\ \A x \in Linked : activated[x]
                    /\ \A x \in Timers : activated[x] =>
                          x \in Linked \/ x \in StillStopping \/ (x = t /\ Called)
<1>1. Linked \subseteq Timers
  BY DEF Linked, LinkedIn
<1> QED
  BY <1>1 DEF StateIsTrue, StillStopping, Called

LEMMA TruthPreserved ==
    ASSUME RInv, TInv, StateIsTrue, CalledIsOut, StoppedIsOut, [Next]_vars PROVE StateIsTrue'
<1>0. /\ activated \in [Timers -> BOOLEAN] /\ CallsOK
      /\ \A x \in Linked : activated[x]
      /\ \A x \in Timers : activated[x] => x \in Linked \/ x \in StillStopping \/ (x = t /\ Called)
  BY StateInSets DEF TInv, TypeOK
<1>a. ASSUME /\ \A x \in Linked' : activated'[x]
             /\ \A x \in Timers : activated'[x] =>
                   x \in Linked' \/ x \in StillStopping' \/ (x = t' /\ Called')
      PROVE  StateIsTrue'
  <2>1. Linked' \subseteq Timers
    BY DEF Linked, LinkedIn
  <2> QED
    BY <1>a, <2>1 DEF StateIsTrue, StillStopping, Called
<1>1. CASE Quiet
  <2>1. Linked' = Linked /\ UNCHANGED <<activated, StillStopping>> /\ (Called <=> Called')
        /\ (Called => t' = t)
    BY <1>0, <1>1, QuietSteps, StoppingChanges
  <2> QED
    BY <1>0, <1>a, <2>1
<1>2. ASSUME NEW x \in Timers, Start(x) PROVE StateIsTrue'
  <2>1. /\ Linked' = Linked \cup {x} /\ activated' = [activated EXCEPT ![x] = TRUE] /\ t' = t
        /\ UNCHANGED StillStopping /\ (Called <=> Called')
    BY <1>0, <1>2, StartedLinks, StoppingChanges, ResumeKeepsCallback DEF Start, Started, PutIn, walk
  <2> QED
    BY <1>0, <1>a, <2>1
<1>3. ASSUME NEW c \in Interruptible, Insert(c) PROVE StateIsTrue'
  <2>1. /\ subject[c] \in Timers /\ Linked' = Linked \cup {subject[c]}
        /\ activated' = [activated EXCEPT ![subject[c]] = TRUE] /\ t' = t /\ (Called <=> Called')
        /\ UNCHANGED StillStopping
    BY <1>0, <1>3, InsertLinks, StoppingChanges DEF Insert, PutIn, walk, Called
  <2> QED
    BY <1>0, <1>a, <2>1
<1>4. ASSUME NEW x \in Timers, Stop(x) \/ \E c \in Interruptible : Withdraw(c, x)
      PROVE  StateIsTrue'
  <2>1. /\ list' = Removed(x) /\ activated' = [activated EXCEPT ![x] = FALSE] /\ t' = t
        /\ (Called <=> Called') /\ UNCHANGED StillStopping
    BY <1>0, <1>4, StoppingChanges DEF Withdraw, Stop, Deactivated, walk, Called
  <2>2. Linked' = Linked \ {x}
    BY <2>1, TakenOutLinks
  <2> QED
    BY <1>0, <1>a, <2>1, <2>2
<1>5. ASSUME NEW c \in Interruptible, StopRemove(c) PROVE StateIsTrue'
  <2>1. /\ Linked' = Linked \ {subject[c]} /\ UNCHANGED activated /\ t' = t /\ (Called <=> Called')
        /\ StillStopping \cup {subject[c]} \subseteq StillStopping'
    BY <1>0, <1>5, StopRemoveLinks, StoppingChanges DEF StopRemove, walk, Called
  <2> QED
    BY <1>0, <1>a, <2>1
<1>6. ASSUME NEW c \in Interruptible, StopClear(c) PROVE StateIsTrue'
  <2>1. /\ phase[c] = "removed" /\ activated' = [activated EXCEPT ![subject[c]] = FALSE]
        /\ t' = t /\ (Called <=> Called') /\ Linked' = Linked
        /\ StillStopping \ {subject[c]} \subseteq StillStopping'
    BY <1>0, <1>6, StoppingChanges
       DEF StopClear, Deactivated, At, walk, Called, Linked, LinkedIn
  <2>2. subject[c] \notin Linked
    BY <2>1 DEF StoppedIsOut
  <2> QED
    BY <1>0, <1>a, <2>1, <2>2
<1>7. CASE Call
  <2>1. /\ n \in Timers /\ Linked' = Linked \ {n} /\ t' = n /\ UNCHANGED <<activated, StillStopping>>
        /\ ~Called /\ Called'
    BY <1>0, <1>7, CallLinks, StoppingChanges DEF Call, Called
  <2> QED
    BY <1>0, <1>a, <2>1
<1>8. CASE Finish
  <2>1. t \in Timers /\ t \notin Linked /\ ~Called' /\ t' = t /\ UNCHANGED StillStopping
    BY <1>0, <1>8, StoppingChanges DEF Finish, TInv, TypeOK, CalledIsOut, Called, walk
  <2>2. CASE Started(t)
    <3>1. Linked' = Linked \cup {t} /\ activated' = [activated EXCEPT ![t] = TRUE]
      BY <2>1, <2>2, StartedLinks DEF Started, PutIn
    <3> QED
      BY <1>0, <1>a, <2>1, <3>1
  <2>3. CASE Deactivated(t) /\ UNCHANGED list
    <3>1. Linked' = Linked /\ activated' = [activated EXCEPT ![t] = FALSE]
      BY <2>3 DEF Linked, LinkedIn, Deactivated
    <3> QED
      BY <1>0, <1>a, <2>1, <3>1
  <2> QED
    BY <1>8, <2>2, <2>3 DEF Finish
<1> QED
  BY <1>1, <1>2, <1>3, <1>4, <1>5, <1>6, <1>7, <1>8 DEF Next, TimerThread, Proceed, Quiet

\* RT_TIMER_CTRL_GET_STATE tells the truth, for every set of timers, clock and
\* mix of callers, if no timer has two starters and none is started during its
\* own callback, whose end would clear the flag of the started timer, or between
\* the removal of it by rt_timer_stop and the clearing of its flag.
THEOREM StateStaysTrue ==
    ASSUME OneStarter PROVE Spec /\ []CalledIsOut /\ []StoppedIsOut => []StateIsTrue
<1>1. Init => StateIsTrue
  BY NoneLinkedInitially DEF Init, StateIsTrue
<1>2. RInv /\ [Next]_vars => RInv'
  BY RingPreserved
<1> QED
  BY <1>1, <1>2, RingInitially, TypesInitially, TypesPreserved, TruthPreserved, PTL DEF Spec

\* A timer that a thread below is stopping is out of the walk's reach.
StoppedIsApart ==
    phase["below"] = "removed" => n # subject["below"] /\ (Called => t # subject["below"])

\* A timer is out of the list while it is called and while it is stopped, if
\* only threads below the timer thread start timers.
OutInv == CalledIsOut /\ StoppedIsOut /\ StoppedIsApart

LEMMA StaysOut ==
    ASSUME \A x \in Timers : Starters[x] \subseteq {"below"}, RInv, OutInv, [Next]_vars
    PROVE  OutInv'
<1>0. /\ "below" \in Interruptible /\ "callback" \in Interruptible /\ "below" # "callback"
      /\ Interruptible = {"callback", "below"} /\ CallsOK /\ CalledIsOut /\ StoppedIsOut
      /\ \A c \in Interruptible : phase[c] # "none" => subject[c] \in Timers
      /\ Timers \subseteq Nodes /\ Root \in Nodes /\ Root \notin Timers
      /\ list \in Lists /\ Sound(list) /\ n \in Nodes
  BY TimerAssumption DEF Interruptible, RInv, IInv, CallsOK, OutInv, Nodes, ListIsSound
<1>a. ASSUME Linked' \subseteq Linked, Called' => Called /\ t' = t,
             \A c \in Interruptible : phase'[c] = "removed" =>
                phase[c] = "removed" /\ subject'[c] = subject[c],
             phase'["below"] = "removed" => n' = n \/ n' = list.next[Root]
      PROVE  OutInv'
  <2>1. CalledIsOut' /\ StoppedIsOut'
    BY <1>0, <1>a DEF CalledIsOut, StoppedIsOut
  <2>2. ASSUME phase["below"] = "removed" PROVE list.next[Root] # subject["below"]
    <3>1. Lone(list, subject["below"]) /\ subject["below"] # Root
      BY <1>0, <2>2, LoneOrLinked DEF StoppedIsOut, Linked
    <3> QED
      BY <1>0, <3>1 DEF Lone, Sound
  <2> QED
    BY <1>0, <1>a, <2>1, <2>2 DEF OutInv, StoppedIsApart
<1>1. CASE Quiet
  <2>1. Linked' = Linked /\ (Called' => Called /\ t' = t)
    BY <1>1, QuietSteps
  <2>2. \A c \in Interruptible : phase'[c] = "removed" =>
           phase[c] = "removed" /\ subject'[c] = subject[c]
    BY <1>0, <1>1, QuietCalls
  <2>3. n' = n \/ n' = list.next[Root] \/ (n' = Root /\ Leave)
    BY <1>1 DEF Quiet, Awaken, StopCheck, Look, Plan, Delay, Check, Enter, Leave, Return, Tick,
                vars, walk
  <2>4. CASE Leave
    BY <1>0, <2>1, <2>2, <2>4 DEF Leave, OutInv, CalledIsOut, StoppedIsOut, StoppedIsApart, Called
  <2> QED
    BY <1>a, <2>1, <2>2, <2>3, <2>4
<1>2. ASSUME NEW x \in Timers, Start(x) PROVE FALSE
  BY <1>2 DEF Start
<1>3. ASSUME NEW c \in Interruptible, Insert(c) PROVE OutInv'
  <2>1. c = "below" /\ ~Called /\ ~Called' /\ phase[c] = "withdrawn"
    BY <1>0, <1>3 DEF Insert, At, Runs, Waiting, RInv, IInv, Apart, Called
  <2>2. phase["callback"] = "none"
    BY <2>1 DEF RInv, IInv, CallsOK, Called
  <2>3. phase'["below"] = "inserted" /\ phase'["callback"] = "none"
    BY <1>0, <1>3, <2>1, <2>2, CallsMove DEF Insert, Phases, Others
  <2> QED
    BY <1>0, <2>1, <2>3 DEF OutInv, CalledIsOut, StoppedIsOut, StoppedIsApart
<1>4. ASSUME NEW x \in Timers, Stop(x) \/ \E c \in Interruptible : Withdraw(c, x)
      PROVE  OutInv'
  <2>1. /\ list' = Removed(x) /\ UNCHANGED <<n, t, pc>>
        /\ \A c \in Interruptible : phase'[c] = "removed" =>
              phase[c] = "removed" /\ subject'[c] = subject[c]
    <3>1. CASE Stop(x)
      BY <3>1 DEF Stop, walk, call
    <3>2. ASSUME NEW c \in Interruptible, Withdraw(c, x)
          PROVE  /\ list' = Removed(x) /\ UNCHANGED <<n, t, pc>>
                 /\ phase'[c] = "withdrawn" /\ Others(c)
      BY <1>0, <3>2, CallsMove DEF Withdraw, walk, Phases
    <3> QED
      BY <1>4, <3>1, <3>2 DEF Others
  <2>2. Linked' = Linked \ {x}
    BY <2>1, TakenOutLinks
  <2> QED
    BY <1>a, <2>1, <2>2 DEF Called
<1>5. ASSUME NEW c \in Interruptible, StopRemove(c) PROVE OutInv'
  <2>1. /\ Linked' = Linked \ {subject[c]} /\ subject[c] \in Timers /\ UNCHANGED <<n, t, pc>>
        /\ phase'[c] = "removed" /\ subject'[c] = subject[c] /\ Others(c) /\ Runs(c)
    BY <1>0, <1>5, StopRemoveLinks, CallsMove DEF StopRemove, At, walk, Phases
  <2>2. CalledIsOut' /\ StoppedIsOut'
    BY <1>0, <2>1 DEF CalledIsOut, StoppedIsOut, Others, Called
  <2>3. CASE c = "below"
    BY <1>0, <2>1, <2>2, <2>3 DEF Runs, Waiting, RInv, IInv, Idle, Called, OutInv, StoppedIsApart
  <2>4. CASE c # "below"
    BY <1>0, <2>1, <2>2, <2>4 DEF Others, Called, OutInv, StoppedIsApart
  <2> QED
    BY <2>3, <2>4
<1>6. ASSUME NEW c \in Interruptible, StopClear(c) PROVE OutInv'
  <2>1. UNCHANGED <<n, t, pc>> /\ Linked' = Linked /\ phase'[c] = "none" /\ Others(c)
    BY <1>0, <1>6, CallsMove DEF StopClear, walk, Linked, LinkedIn, Phases
  <2> QED
    BY <1>a, <2>1 DEF Others, Called
<1>7. CASE Call
  <2>1. n \in Timers /\ Linked' = Linked \ {n} /\ t' = n /\ n' = list.next[n]
        /\ UNCHANGED <<phase, subject>>
    BY <1>7, CallLinks DEF Call, call
  <2>2. CalledIsOut' /\ StoppedIsOut'
    BY <1>0, <2>1 DEF CalledIsOut, StoppedIsOut
  <2>3. ASSUME phase["below"] = "removed" PROVE n' # subject["below"] /\ n # subject["below"]
    <3>1. Lone(list, subject["below"]) /\ n # subject["below"]
      BY <1>0, <2>3, LoneOrLinked DEF StoppedIsOut, Linked, OutInv, StoppedIsApart
    <3> QED
      BY <1>0, <2>1, <3>1 DEF Lone, Sound
  <2> QED
    BY <2>1, <2>2, <2>3 DEF OutInv, StoppedIsApart
<1>8. CASE Finish
  <2>1. t \in Timers /\ ~Called' /\ Called /\ UNCHANGED <<n, phase, subject>>
        /\ phase["callback"] = "none"
    BY <1>8 DEF Finish, RInv, IInv, CallsOK, Called, walk, call
  <2>2. Linked' \subseteq Linked \cup {t}
    <3>1. CASE Started(t)
      BY <2>1, <3>1, StartedLinks
    <3>2. CASE UNCHANGED list
      BY <3>2 DEF Linked, LinkedIn
    <3> QED
      BY <1>8, <3>1, <3>2 DEF Finish
  <2>3. phase["below"] = "removed" => t # subject["below"]
    BY <2>1 DEF OutInv, StoppedIsApart
  <2> QED
    BY <1>0, <2>1, <2>2, <2>3 DEF OutInv, CalledIsOut, StoppedIsOut, StoppedIsApart
<1> QED
  BY <1>1, <1>2, <1>3, <1>4, <1>5, <1>6, <1>7, <1>8 DEF Next, TimerThread, Proceed, Quiet

\* If only threads below the timer thread start timers, whoever stops them and
\* wherever a stop is interrupted: the state is true, with no rule left to follow.
THEOREM StateIsTrueBelow ==
    ASSUME \A x \in Timers : Starters[x] \subseteq {"below"} PROVE Spec => []StateIsTrue
<1>1. OneStarter
  BY DEF OneStarter
<1>2. RInv /\ [Next]_vars => RInv'
  BY <1>1, RingPreserved
<1>3. RInv /\ OutInv /\ [Next]_vars => OutInv'
  BY StaysOut
<1>4. Init => OutInv
  BY DEF Init, OutInv, CalledIsOut, StoppedIsOut, StoppedIsApart, Called, Interruptible
<1>5. Spec /\ []CalledIsOut /\ []StoppedIsOut => []StateIsTrue
  BY <1>1, StateStaysTrue
<1>6. OutInv => CalledIsOut /\ StoppedIsOut
  BY DEF OutInv
<1> QED
  BY <1>2, <1>3, <1>4, <1>5, <1>6, RingInitially, PTL DEF Spec

\* A stop of x has yet to clear the flag, and not for the end of its callback.
StopsAway(x) ==
    \E c \in Interruptible :
        phase[c] = "removed" /\ subject[c] = x /\ (c = "below" => ~(Called /\ t = x))

\* A timer in the list was started and not stopped since, and a periodic one
\* that is activated will be put in again or is being stopped.
WantedInList ==
    /\ Linked \subseteq wanted
    /\ \A x \in Periodic : activated[x] => x \in wanted \/ StopsAway(x)

LEMMA WantedPreserved ==
    ASSUME RInv, TInv, NextIsListed, WantedInList, [Next]_vars PROVE WantedInList'
<1>0. /\ activated \in [Timers -> BOOLEAN] /\ Periodic \subseteq Timers /\ CallsOK
      /\ Linked \subseteq wanted
      /\ \A x \in Periodic : activated[x] => x \in wanted \/ StopsAway(x)
  BY TimerAssumption DEF TInv, TypeOK, WantedInList
<1>a. ASSUME Called' => Called /\ t' = t,
             \A c \in Interruptible : phase[c] = "removed" =>
                phase'[c] = phase[c] /\ subject'[c] = subject[c]
      PROVE  \A x \in Timers : StopsAway(x) => StopsAway(x)'
  BY <1>a DEF StopsAway
<1>1. CASE Quiet
  <2>1. /\ UNCHANGED <<wanted, activated>> /\ Linked' = Linked
        /\ \A x \in Timers : StopsAway(x) => StopsAway(x)'
    BY <1>0, <1>1, <1>a, QuietSteps, QuietCalls
  <2> QED
    BY <1>0, <2>1 DEF WantedInList
<1>2. ASSUME NEW x \in Timers, Start(x) PROVE WantedInList'
  <2>1. Linked' = Linked \cup {x} /\ activated' = [activated EXCEPT ![x] = TRUE]
        /\ wanted' = wanted \cup {x}
    BY <1>2, StartedLinks DEF Start, Started, PutIn
  <2>2. \A y \in Timers : StopsAway(y) => StopsAway(y)'
    BY <1>2, <1>a, ResumeKeepsCallback DEF Start, walk, call
  <2> QED
    BY <1>0, <2>1, <2>2 DEF WantedInList
<1>3. ASSUME NEW c \in Interruptible, Insert(c) PROVE WantedInList'
  <2>1. /\ Linked' = Linked \cup {subject[c]} /\ wanted' = wanted \cup {subject[c]}
        /\ activated' = [activated EXCEPT ![subject[c]] = TRUE]
    BY <1>3, InsertLinks DEF Insert, PutIn
  <2>2. phase[c] = "withdrawn" /\ Others(c) /\ UNCHANGED <<t, pc>>
    BY <1>0, <1>3, CallsMove DEF Insert, At, Phases, walk
  <2>3. \A y \in Timers : StopsAway(y) => StopsAway(y)'
    BY <1>a, <2>2 DEF Others, Called
  <2> QED
    BY <1>0, <2>1, <2>3 DEF WantedInList
<1>4. ASSUME NEW x \in Timers, Stop(x) \/ \E c \in Interruptible : Withdraw(c, x)
      PROVE  WantedInList'
  <2>1. list' = Removed(x) /\ activated' = [activated EXCEPT ![x] = FALSE]
        /\ wanted' = wanted \ {x} /\ UNCHANGED <<t, pc>>
    BY <1>4 DEF Withdraw, Stop, Deactivated, walk
  <2>2. Linked' = Linked \ {x}
    BY <2>1, TakenOutLinks
  <2>3. \A c \in Interruptible : phase[c] = "removed" =>
           phase'[c] = phase[c] /\ subject'[c] = subject[c]
    <3>1. ASSUME NEW c \in Interruptible, Withdraw(c, x) PROVE phase[c] = "none" /\ Others(c)
      BY <1>0, <3>1, CallsMove DEF Withdraw, Phases
    <3> QED
      BY <1>4, <3>1 DEF Stop, call, Others
  <2>4. \A y \in Timers : StopsAway(y) => StopsAway(y)'
    BY <1>a, <2>1, <2>3 DEF Called
  <2> QED
    BY <1>0, <2>1, <2>2, <2>4 DEF WantedInList
<1>5. ASSUME NEW c \in Interruptible, StopRemove(c) PROVE WantedInList'
  <2>1. /\ Linked' = Linked \ {subject[c]} /\ wanted' = wanted \ {subject[c]}
        /\ UNCHANGED <<activated, t, pc>> /\ subject[c] \in Timers
    BY <1>5, StopRemoveLinks DEF StopRemove, walk
  <2>2. /\ phase[c] = "checked" /\ phase'[c] = "removed" /\ subject'[c] = subject[c]
        /\ Others(c) /\ Runs(c)
    BY <1>0, <1>5, CallsMove DEF StopRemove, At, Phases
  <2>3. \A y \in Timers : StopsAway(y) => StopsAway(y)'
    BY <1>a, <2>1, <2>2 DEF Others, Called
  <2>4. c = "below" => ~Called'
    BY <2>1, <2>2 DEF Runs, Waiting, Called
  <2>5. \A x \in Periodic : activated'[x] => x \in wanted' \/ StopsAway(x)'
    <3> SUFFICES ASSUME NEW x \in Periodic, activated'[x] PROVE x \in wanted' \/ StopsAway(x)'
      OBVIOUS
    <3>1. CASE x = subject[c]
      BY <2>2, <2>4, <3>1 DEF StopsAway
    <3>2. CASE x # subject[c]
      BY <1>0, <2>1, <2>3, <3>2
    <3> QED
      BY <3>1, <3>2
  <2> QED
    BY <1>0, <2>1, <2>5 DEF WantedInList
<1>6. ASSUME NEW c \in Interruptible, StopClear(c) PROVE WantedInList'
  <2>1. /\ Linked' = Linked /\ activated' = [activated EXCEPT ![subject[c]] = FALSE]
        /\ UNCHANGED <<wanted, t, pc>> /\ Others(c)
    BY <1>0, <1>6, CallsMove DEF StopClear, Deactivated, walk, Linked, LinkedIn, Phases
  <2>2. \A y \in Timers : y # subject[c] /\ StopsAway(y) => StopsAway(y)'
    BY <2>1 DEF StopsAway, Others, Called
  <2>3. \A x \in Periodic : activated'[x] => activated[x] /\ x # subject[c]
    BY <1>0, <2>1
  <2> QED
    BY <1>0, <2>1, <2>2, <2>3 DEF WantedInList
<1>7. CASE Call
  <2>1. n \in Timers /\ Linked' = Linked \ {n} /\ UNCHANGED <<activated, phase, subject>>
        /\ wanted' = wanted \ ({n} \ Periodic) /\ t' = n /\ n \in wanted
    BY <1>0, <1>7, CallLinks DEF Call, call, NextIsListed
  <2>2. \A y \in Timers : y # n /\ StopsAway(y) => StopsAway(y)'
    BY <2>1 DEF StopsAway
  <2> QED
    BY <1>0, <2>1, <2>2 DEF WantedInList
<1>8. CASE Finish
  <2>1. /\ t \in Timers /\ wanted' = wanted /\ Called /\ ~Called' /\ UNCHANGED <<phase, subject>>
        /\ phase["callback"] = "none"
    BY <1>0, <1>8 DEF Finish, TInv, TypeOK, CallsOK, Called, call
  <2>2. \A y \in Timers : StopsAway(y) => StopsAway(y)'
    BY <2>1 DEF StopsAway
  <2>3. CASE t \in Periodic /\ activated[t] /\ Started(t)
    <3>1. Linked' = Linked \cup {t} /\ activated' = [activated EXCEPT ![t] = TRUE]
      BY <2>1, <2>3, StartedLinks DEF Started, PutIn
    <3>2. ~StopsAway(t)
      BY <2>1 DEF StopsAway, Interruptible
    <3>3. t \in wanted
      BY <1>0, <2>3, <3>2
    <3> QED
      BY <1>0, <2>1, <2>2, <3>1, <3>3 DEF WantedInList
  <2>4. CASE Deactivated(t) /\ UNCHANGED list
    <3>1. Linked' = Linked /\ activated' = [activated EXCEPT ![t] = FALSE]
      BY <2>4 DEF Linked, LinkedIn, Deactivated
    <3> QED
      BY <1>0, <2>1, <2>2, <3>1 DEF WantedInList
  <2> QED
    BY <1>8, <2>3, <2>4 DEF Finish
<1> QED
  BY <1>1, <1>2, <1>3, <1>4, <1>5, <1>6, <1>7, <1>8 DEF Next, TimerThread, Proceed, Quiet

LEMMA WantedInitially == Init => WantedInList
<1> SUFFICES ASSUME Init PROVE WantedInList
  OBVIOUS
<1>1. Linked = {} /\ \A x \in Periodic : ~activated[x]
  BY NoneLinkedInitially, TimerAssumption DEF Init
<1> QED
  BY <1>1 DEF WantedInList

\* A timer that was stopped, or never started, is not called, for every set of
\* timers, clock and mix of callers, if no timer has two starters and nobody
\* stops the timer at which the walk goes on after a callback.
THEOREM StoppedTimersAreSilent ==
    ASSUME OneStarter PROVE Spec /\ []NextIsListed => StoppedStaysSilent
<1>1. RInv /\ [Next]_vars => RInv'
  BY RingPreserved
<1>2. WantedInList /\ NextIsListed => [Call => n \in wanted]_vars
  BY DEF WantedInList, NextIsListed, Call
<1> QED
  BY <1>1, <1>2, RingInitially, TypesInitially, TypesPreserved, WantedInitially, WantedPreserved,
     PTL DEF Spec, StoppedStaysSilent

\* The successor of a node in a sound list is in the list too, or the head.
LEMMA NextOfLinked ==
    ASSUME NEW l \in Lists, Sound(l), NEW x \in Nodes, l.next[x] # x, l.next[x] # Root
    PROVE  l.next[x] \in LinkedIn(l)
<1>1. l.next[x] \in Timers /\ l.next[x] \in Nodes
  BY DEF Lists, Nodes
<1>2. l.prev[l.next[x]] = x
  BY DEF Sound
<1>3. l.next[l.next[x]] # l.next[x]
  BY <1>1, <1>2 DEF Sound
<1> QED
  BY <1>1, <1>3 DEF LinkedIn

\* The walk goes on at a timer in the list, if only threads below the timer
\* thread start and stop timers: they wait until the walk is over.
LEMMA NextStaysListed ==
    ASSUME Callers \subseteq {"below"}, RInv, NextIsListed, [Next]_vars
    PROVE  NextIsListed'
<1>0. /\ list \in Lists /\ Sound(list) /\ Root \in Nodes /\ Root \notin Timers
      /\ n \in Nodes /\ Timers \subseteq Nodes
      /\ \A c \in Interruptible : phase[c] # "none" => c = "below"
  BY TimerAssumption DEF RInv, IInv, CallsOK, ListIsSound, Nodes
<1>1. ASSUME Waiting, n' = n PROVE NextIsListed'
  BY <1>1 DEF Waiting, RInv, IInv, Idle, NextIsListed
<1>2. ASSUME Linked' = Linked, n' = n PROVE NextIsListed'
  BY <1>2 DEF NextIsListed
<1>3. ASSUME NEW x \in Timers, Start(x) \/ Stop(x) PROVE FALSE
  BY <1>3 DEF Start, Stop, MayCall
<1>4. ASSUME NEW c \in Interruptible, NEW x \in Timers, Withdraw(c, x) PROVE NextIsListed'
  BY <1>1, <1>4 DEF Withdraw, Begins, MayCall, Runs, walk
<1>5. ASSUME NEW c \in Interruptible, Proceed(c) PROVE NextIsListed'
  <2>1. c = "below" /\ Runs(c) /\ n' = n
    BY <1>0, <1>5 DEF Proceed, Insert, Awaken, StopRemove, StopClear, At, walk
  <2> QED
    BY <1>1, <2>1 DEF Runs
<1>6. ASSUME NEW c \in Interruptible, NEW x \in Timers, StopCheck(c, x) PROVE NextIsListed'
  BY <1>1, <1>6 DEF StopCheck, Begins, MayCall, Runs, walk
<1>7. CASE Look \/ Plan \/ Delay \/ Check \/ Return \/ Tick \/ UNCHANGED vars
  <2>1. Linked' = Linked
    BY <1>7, QuietSteps DEF Quiet
  <2>2. n' = n
    BY <1>7 DEF Look, Plan, Delay, Check, Return, Tick, vars, walk
  <2> QED
    BY <1>2, <2>1, <2>2
<1>8. CASE Enter
  <2>1. n' = list.next[Root] /\ Linked' = Linked
    BY <1>8, QuietSteps DEF Enter, Quiet
  <2> QED
    BY <1>0, <2>1, NextOfLinked DEF NextIsListed, Linked
<1>9. CASE Leave
  BY <1>9 DEF Leave, NextIsListed
<1>10. CASE Call
  <2>1. n \in Timers /\ n \in Linked /\ n' = list.next[n] /\ Linked' = Linked \ {n}
    BY <1>0, <1>10, CallLinks DEF Call, NextIsListed
  <2>2. list.next[n] # n
    BY <2>1 DEF Linked, LinkedIn
  <2>3. list.next[n] # Root => list.next[n] \in Linked
    BY <1>0, <2>2, NextOfLinked DEF Linked
  <2> QED
    BY <2>1, <2>2, <2>3 DEF NextIsListed
<1>11. CASE Finish
  <2>1. t \in Timers /\ n' = n
    BY <1>11 DEF Finish, RInv, IInv, walk
  <2>2. Linked \subseteq Linked'
    <3>1. CASE Started(t)
      BY <2>1, <3>1, StartedLinks
    <3>2. CASE UNCHANGED list
      BY <3>2 DEF Linked, LinkedIn
    <3> QED
      BY <1>11, <3>1, <3>2 DEF Finish
  <2> QED
    BY <2>1, <2>2 DEF NextIsListed
<1> QED
  BY <1>3, <1>4, <1>5, <1>6, <1>7, <1>8, <1>9, <1>10, <1>11 DEF Next, TimerThread

\* If only threads below the timer thread start and stop timers: stopped timers
\* stay silent, with no rule left to follow.
THEOREM StoppedTimersAreSilentBelow ==
    ASSUME Callers \subseteq {"below"} PROVE Spec => StoppedStaysSilent
<1>1. OneStarter
  BY TimerAssumption DEF OneStarter
<1>2. RInv /\ [Next]_vars => RInv'
  BY <1>1, RingPreserved
<1>3. RInv /\ NextIsListed /\ [Next]_vars => NextIsListed'
  BY NextStaysListed
<1>4. Init => NextIsListed
  BY DEF Init, NextIsListed
<1>5. Spec /\ []NextIsListed => StoppedStaysSilent
  BY <1>1, StoppedTimersAreSilent
<1> QED
  BY <1>2, <1>3, <1>4, <1>5, RingInitially, PTL DEF Spec

-----------------------------------------------------------------------------
(* The clock wraps.  Every timer in the list is due from Lag ticks ago to    *)
(* its own timeout ahead, and if that is less than half of the counter apart *)
(* in all, comparing ticks modulo their number compares those distances.     *)

\* No timeout, with the lag of the timer thread, spans half of the counter.
Headroom == Lag < Half /\ \A x \in Timers : InitTick[x] + Lag < Half

\* A sum or a difference of ticks wraps once at most.
LEMMA WrapOnce ==
    ASSUME NEW w \in Int, -Ticks <= w, w < 2 * Ticks
    PROVE  w % Ticks = IF w < 0 THEN w + Ticks ELSE IF w < Ticks THEN w ELSE w - Ticks
<1>1. Ticks \in Nat \ {0}
  BY HalfOfTicks
<1>2. CASE w < 0
  <2>1. w + Ticks \in 0..Ticks - 1
    BY <1>1, <1>2
  <2> QED
    BY <1>1, <1>2, <2>1
<1>3. CASE w >= 0 /\ w < Ticks
  BY <1>1, <1>3
<1>4. CASE w >= Ticks
  <2>1. w - Ticks \in 0..Ticks - 1
    BY <1>1, <1>4
  <2> QED
    BY <1>1, <1>4, <2>1
<1> QED
  BY <1>1, <1>2, <1>3, <1>4

\* The ticks at two distances from the same one, less than half of the counter
\* apart, compare as the distances do.
LEMMA Distances ==
    ASSUME NEW tk \in TickRange, NEW d \in Int, NEW e \in Int,
           -Half < d, d < Half, -Half < e, e < Half, -Half < e - d, e - d < Half
    PROVE  LET a == (tk + d) % Ticks
               b == (tk + e) % Ticks
           IN  /\ a \in TickRange
               /\ (b - a) % Ticks = IF d <= e THEN e - d ELSE e - d + Ticks
               /\ Later(b, a) <=> d < e
               /\ NotAfter(a, b) <=> d <= e
               /\ a = b <=> d = e
<1> DEFINE a == (tk + d) % Ticks
           b == (tk + e) % Ticks
<1>1. Ticks \in Nat \ {0} /\ Half \in Nat /\ 2 * Half <= Ticks - 1 /\ tk \in 0..Ticks - 1
  BY HalfOfTicks DEF TickRange
<1>2. a = IF tk + d < 0 THEN tk + d + Ticks ELSE IF tk + d < Ticks THEN tk + d ELSE tk + d - Ticks
  BY <1>1, WrapOnce
<1>3. b = IF tk + e < 0 THEN tk + e + Ticks ELSE IF tk + e < Ticks THEN tk + e ELSE tk + e - Ticks
  BY <1>1, WrapOnce
<1> HIDE DEF a, b
<1>4. a \in 0..Ticks - 1 /\ b \in 0..Ticks - 1
  BY <1>1, <1>2, <1>3
<1>5. (b - a) % Ticks = IF b < a THEN b - a + Ticks ELSE b - a
  BY <1>1, <1>4, WrapOnce
<1>6. (b - a) % Ticks = IF d <= e THEN e - d ELSE e - d + Ticks
  BY <1>1, <1>2, <1>3, <1>4, <1>5
<1>7. a = b <=> d = e
  BY <1>1, <1>2, <1>3
<1>8. Later(b, a) <=> d < e
  BY <1>1, <1>6 DEF Later
<1>9. NotAfter(a, b) <=> d <= e
  BY <1>1, <1>6 DEF NotAfter
<1> QED
  BY <1>4, <1>6, <1>7, <1>8, <1>9 DEF a, b, TickRange

\* at is the timeout of x as long as x is not called.
Near(at, tk, x) == \E d \in -Lag..InitTick[x] : at = (tk + d) % Ticks

\* The tick that the walk compares with is at most Lag behind.
WalkIsNear == pc \in {"enter", "walk", "finish"} => \E a \in 0..Lag : cur = (tick - a) % Ticks

\* So are the timers in the list and those between the halves of a start.
NearInv ==
    /\ \A x \in Linked : Near(timeout[x], tick, x)
    /\ \A c \in Interruptible :
          phase[c] = "withdrawn" => Near(timeout[subject[c]], tick, subject[c])
    /\ WalkIsNear

LEMMA LagAndTimeouts ==
    ASSUME Headroom, NEW x \in Timers
    PROVE  InitTick[x] \in Nat /\ Lag \in Nat /\ InitTick[x] + Lag < Half /\ Half \in Nat
<1>1. InitTick[x] \in 0..Half - 1 /\ Lag \in Nat /\ Half \in Nat
  BY TimerAssumption, HalfOfTicks
<1> QED
  BY <1>1 DEF Headroom

\* A timeout set now is near.
LEMMA DeadlineIsNear ==
    ASSUME NEW x \in Timers PROVE Near(Deadline(x), tick, x)
<1>1. InitTick[x] \in 0..Half - 1 /\ Lag \in Nat /\ Half \in Nat
  BY TimerAssumption, HalfOfTicks
<1>2. InitTick[x] \in -Lag..InitTick[x]
  BY <1>1
<1> QED
  BY <1>2 DEF Near, Deadline

\* The next tick is one closer to it, or further behind it, unless that is as
\* far as the timer thread ever is.
LEMMA NearAtNextTick ==
    ASSUME Headroom, tick \in TickRange, NEW x \in Timers, NEW at, Near(at, tick, x),
           NotAfter(at, tick) => (tick - at) % Ticks < Lag,
           tick' = (tick + 1) % Ticks
    PROVE  Near(at, tick', x)
<1>1. PICK d \in -Lag..InitTick[x] : at = (tick + d) % Ticks
  BY DEF Near
<1>2. /\ InitTick[x] \in Nat /\ Lag \in Nat /\ InitTick[x] + Lag < Half /\ Half \in Nat
      /\ Ticks \in Nat \ {0} /\ 2 * Half <= Ticks - 1 /\ tick \in 0..Ticks - 1 /\ d \in Int
  BY LagAndTimeouts, HalfOfTicks DEF TickRange
<1>3. tick = (tick + 0) % Ticks
  BY <1>2
<1>4. /\ NotAfter(at, tick) <=> d <= 0
      /\ (tick - at) % Ticks = IF d <= 0 THEN 0 - d ELSE 0 - d + Ticks
  <2>1. -Half < d /\ d < Half /\ -Half < 0 - d /\ 0 - d < Half /\ -Half < 0 /\ 0 < Half
    BY <1>1, <1>2
  <2>2. tick \in TickRange /\ d \in Int /\ 0 \in Int
    BY <1>2
  <2> DEFINE a == (tick + d) % Ticks
             b == (tick + 0) % Ticks
  <2>3. (NotAfter(a, b) <=> d <= 0) /\ (b - a) % Ticks = IF d <= 0 THEN 0 - d ELSE 0 - d + Ticks
    BY <2>1, <2>2, Distances
  <2> QED
    BY <1>1, <1>3, <2>3
<1>5. -Lag < d
  BY <1>1, <1>2, <1>4
<1>6. d - 1 \in -Lag..InitTick[x]
  BY <1>1, <1>2, <1>5
<1>7. at = (tick' + (d - 1)) % Ticks
  <2>1. tick' = IF tick + 1 < Ticks THEN tick + 1 ELSE tick + 1 - Ticks
    <3>1. tick \in Int /\ Ticks \in Int /\ tick + 1 \in Int /\ -Ticks <= tick + 1 /\ tick + 1 < 2 * Ticks /\ ~(tick + 1 < 0)
      BY <1>2
    <3>2. (tick + 1) % Ticks = IF tick + 1 < 0 THEN tick + 1 + Ticks
                               ELSE IF tick + 1 < Ticks THEN tick + 1 ELSE tick + 1 - Ticks
      BY <3>1, WrapOnce
    <3> QED
      BY <3>1, <3>2
  <2>2. at = IF tick + d < 0 THEN tick + d + Ticks ELSE IF tick + d < Ticks THEN tick + d ELSE tick + d - Ticks
    <3>1. tick \in Int /\ d \in Int /\ Ticks \in Int /\ tick + d \in Int /\ -Ticks <= tick + d /\ tick + d < 2 * Ticks
      BY <1>1, <1>2
    <3>2. (tick + d) % Ticks = IF tick + d < 0 THEN tick + d + Ticks
                               ELSE IF tick + d < Ticks THEN tick + d ELSE tick + d - Ticks
      BY <3>1, WrapOnce
    <3> QED
      BY <1>1, <3>2
  <2> DEFINE w == tick' + (d - 1)
  <2>3. w \in Int /\ -Ticks <= w /\ w < 2 * Ticks
    BY <1>1, <1>2, <2>1
  <2>4. w % Ticks = IF w < 0 THEN w + Ticks ELSE IF w < Ticks THEN w ELSE w - Ticks
    BY <2>3, WrapOnce
  <2> QED
    BY <1>1, <1>2, <2>1, <2>2, <2>4
<1> QED
  BY <1>6, <1>7 DEF Near

LEMMA CurAtNextTick ==
    ASSUME NEW L \in Nat, L < Half, tick \in TickRange,
           NEW a \in 0..L, cur = (tick - a) % Ticks, (tick - cur) % Ticks < L,
           tick' = (tick + 1) % Ticks
    PROVE  \E b \in 0..L : cur = (tick' - b) % Ticks
<1>1. /\ L \in Nat /\ L < Half /\ Half \in Nat /\ Ticks \in Nat \ {0}
      /\ 2 * Half <= Ticks - 1 /\ tick \in 0..Ticks - 1 /\ a \in Int
  BY HalfOfTicks DEF TickRange
<1>2. tick \in Int /\ Ticks \in Int /\ a \in Int /\ 0 <= a /\ a <= L
  BY <1>1
<1>3. (tick - a) % Ticks = IF tick - a < 0 THEN tick - a + Ticks ELSE tick - a
  <2>1. tick - a \in Int /\ -Ticks <= tick - a /\ tick - a < 2 * Ticks /\ tick - a < Ticks
    BY <1>1
  <2> QED
    BY <1>2, <2>1, WrapOnce
<1>4. cur \in Int /\ cur = IF tick - a < 0 THEN tick - a + Ticks ELSE tick - a
  BY <1>1, <1>3
<1>5. (tick - cur) % Ticks = a
  <2>1. tick - cur \in Int /\ -Ticks <= tick - cur /\ tick - cur < 2 * Ticks
        /\ cur = IF tick < a THEN tick - a + Ticks ELSE tick - a
    BY <1>1, <1>4
  <2>2. (tick - cur) % Ticks = IF tick - cur < 0 THEN tick - cur + Ticks
                               ELSE IF tick - cur < Ticks THEN tick - cur ELSE tick - cur - Ticks
    BY <1>2, <2>1, WrapOnce
  <2> QED
    BY <1>1, <2>1, <2>2
<1>6. a + 1 \in 0..L
  BY <1>1, <1>5
<1>7. tick' = IF tick + 1 < Ticks THEN tick + 1 ELSE tick + 1 - Ticks
  <2>1. tick + 1 \in Int /\ -Ticks <= tick + 1 /\ tick + 1 < 2 * Ticks /\ ~(tick + 1 < 0)
    BY <1>1
  <2>2. (tick + 1) % Ticks = IF tick + 1 < Ticks THEN tick + 1 ELSE tick + 1 - Ticks
    BY <1>2, <2>1, WrapOnce
  <2> QED
    BY <2>2
<1>8. cur = (tick' - (a + 1)) % Ticks
  <2> DEFINE w == tick' - (a + 1)
  <2>1. w \in Int /\ -Ticks <= w /\ w < 2 * Ticks /\ w < Ticks
    BY <1>1, <1>2, <1>7
  <2>2. w % Ticks = IF w < 0 THEN w + Ticks ELSE w
    BY <1>2, <2>1, WrapOnce
  <2> QED
    BY <1>1, <1>2, <1>4, <1>7, <2>2
<1> QED
  BY <1>6, <1>8

LEMMA WalkStaysNear == ASSUME Lag < Half, TInv, WalkIsNear, [Next]_vars PROVE WalkIsNear'
<1> USE DEF walk
<1>1. tick \in TickRange /\ Lag \in Nat
  BY TimerAssumption DEF TInv, TypeOK
<1>2. ASSUME UNCHANGED <<tick, cur>>, pc' \in {"enter", "walk", "finish"} =>
                 pc \in {"enter", "walk", "finish"}
      PROVE  WalkIsNear'
  BY <1>2 DEF WalkIsNear
<1>3. CASE Check \/ Return
  <2>1. cur' = tick /\ tick' = tick /\ tick - 0 = tick /\ tick % Ticks = tick /\ 0 \in 0..Lag
    BY <1>1, <1>3, HalfOfTicks DEF Check, Return, TickRange
  <2> QED
    BY <2>1 DEF WalkIsNear
<1>4. CASE Tick
  <2>1. /\ tick' = (tick + 1) % Ticks /\ cur' = cur
        /\ pc \in {"enter", "walk", "finish"} => (tick - cur) % Ticks < Lag
        /\ pc' \in {"enter", "walk", "finish"} => pc \in {"enter", "walk", "finish"}
    BY <1>4 DEF Tick
  <2> QED
    BY <1>1, <2>1, CurAtNextTick DEF WalkIsNear
<1>5. ASSUME NEW x \in Timers, \/ Start(x) \/ Stop(x)
                               \/ \E c \in Interruptible : Withdraw(c, x) \/ StopCheck(c, x)
      PROVE  WalkIsNear'
  BY <1>2, <1>5 DEF Start, Resume, Withdraw, Stop, StopCheck
<1>6. ASSUME NEW c \in Interruptible, Proceed(c) PROVE WalkIsNear'
  BY <1>2, <1>6 DEF Proceed, Insert, Awaken, StopRemove, StopClear, Resume, Waiting
<1>7. CASE Look \/ Enter \/ Finish \/ UNCHANGED vars
  BY <1>2, <1>7 DEF Look, Enter, Finish, vars
<1>8. CASE Plan \/ Delay \/ Call \/ Leave
  BY <1>8 DEF Plan, Delay, Call, Leave, WalkIsNear
<1> QED
  BY <1>3, <1>4, <1>5, <1>6, <1>7, <1>8 DEF Next, TimerThread

LEMMA NearPreserved ==
    ASSUME Headroom, RInv, TInv, NearInv, [Next]_vars PROVE NearInv'
<1>0. /\ tick \in TickRange /\ timeout \in [Timers -> TickRange] /\ CallsOK
      /\ \A c \in Interruptible : phase[c] # "none" => subject[c] \in Timers
      /\ Linked \subseteq Timers
  BY DEF TInv, TypeOK, CallsOK, Linked, LinkedIn
<1>1. WalkIsNear'
  BY WalkStaysNear DEF NearInv, Headroom
<1>2. ASSUME UNCHANGED <<tick, timeout>>, Linked' \subseteq Linked,
             \A c \in Interruptible : phase'[c] = "withdrawn" =>
                phase[c] = "withdrawn" /\ subject'[c] = subject[c]
      PROVE  NearInv'
  BY <1>1, <1>2 DEF NearInv
<1>3. ASSUME NEW x \in Timers, UNCHANGED tick, Linked' \subseteq Linked \cup {x},
             timeout' = [timeout EXCEPT ![x] = Deadline(x)],
             \A c \in Interruptible : phase'[c] = "withdrawn" =>
                subject'[c] = x \/ (phase[c] = "withdrawn" /\ subject'[c] = subject[c])
      PROVE  NearInv'
  <2>1. Near(timeout'[x], tick', x)
    BY <1>0, <1>3, DeadlineIsNear
  <2>2. \A y \in Timers : y # x => timeout'[y] = timeout[y]
    BY <1>0, <1>3
  <2> QED
    BY <1>0, <1>1, <1>3, <2>1, <2>2 DEF NearInv
<1>4. CASE Quiet /\ ~Tick
  <2>1. UNCHANGED <<tick, timeout>> /\ Linked' = Linked
    BY <1>4, QuietSteps DEF Quiet, Awaken, StopCheck, Look, Plan, Delay, Check, Enter, Leave,
                            Return, vars
  <2>2. \A c \in Interruptible : phase'[c] = "withdrawn" =>
           phase[c] = "withdrawn" /\ subject'[c] = subject[c]
    BY <1>0, <1>4, QuietCalls
  <2> QED
    BY <1>2, <2>1, <2>2
<1>5. ASSUME NEW x \in Timers, Start(x) PROVE NearInv'
  <2>1. /\ Linked' = Linked \cup {x} /\ timeout' = [timeout EXCEPT ![x] = Deadline(x)]
        /\ UNCHANGED <<tick, subject, phase>>
    BY <1>5, StartedLinks DEF Start, Started, call
  <2> QED
    BY <1>3, <2>1
<1>6. ASSUME NEW c \in Interruptible, NEW x \in Timers, Withdraw(c, x) PROVE NearInv'
  <2>1. /\ list' = Removed(x) /\ timeout' = [timeout EXCEPT ![x] = Deadline(x)]
        /\ UNCHANGED tick
    BY <1>6 DEF Withdraw
  <2>2. Linked' = Linked \ {x}
    BY <2>1, TakenOutLinks
  <2>3. subject'[c] = x /\ Others(c)
    BY <1>0, <1>6, CallsMove DEF Withdraw, Phases
  <2>4. \A d \in Interruptible : phase'[d] = "withdrawn" =>
           subject'[d] = x \/ (phase[d] = "withdrawn" /\ subject'[d] = subject[d])
    BY <2>3 DEF Others
  <2> QED
    BY <1>3, <2>1, <2>2, <2>4
<1>7. ASSUME NEW x \in Timers, Stop(x) PROVE NearInv'
  <2>1. list' = Removed(x) /\ UNCHANGED <<tick, timeout, subject, phase>>
    BY <1>7 DEF Stop, call
  <2>2. Linked' = Linked \ {x}
    BY <2>1, TakenOutLinks
  <2> QED
    BY <1>2, <2>1, <2>2
<1>8. ASSUME NEW c \in Interruptible, Insert(c) PROVE NearInv'
  <2>1. /\ subject[c] \in Timers /\ Linked' = Linked \cup {subject[c]} /\ phase[c] = "withdrawn"
        /\ phase'[c] = "inserted" /\ Others(c) /\ UNCHANGED <<tick, timeout>>
    BY <1>0, <1>8, InsertLinks, CallsMove DEF Insert, At, Phases
  <2>2. \A d \in Interruptible : phase'[d] = "withdrawn" =>
           phase[d] = "withdrawn" /\ subject'[d] = subject[d]
    BY <2>1 DEF Others
  <2> QED
    BY <1>1, <2>1, <2>2 DEF NearInv
<1>9. ASSUME NEW c \in Interruptible, StopRemove(c) \/ StopClear(c) PROVE NearInv'
  <2>1. UNCHANGED <<tick, timeout>> /\ Linked' \subseteq Linked
    BY <1>9, StopRemoveLinks DEF StopRemove, StopClear, Linked, LinkedIn
  <2>2. phase'[c] \in {"removed", "none"} /\ Others(c)
    BY <1>0, <1>9, CallsMove DEF StopRemove, StopClear, Phases
  <2>3. \A d \in Interruptible : phase'[d] = "withdrawn" =>
           phase[d] = "withdrawn" /\ subject'[d] = subject[d]
    BY <2>2 DEF Others
  <2> QED
    BY <1>2, <2>1, <2>3
<1>10. CASE Call
  <2>1. Linked' = Linked \ {n} /\ UNCHANGED <<tick, timeout, subject, phase>>
    BY <1>10, CallLinks DEF Call, call
  <2> QED
    BY <1>2, <2>1
<1>11. CASE Finish
  <2>1. t \in Timers /\ UNCHANGED <<tick, subject, phase>>
    BY <1>11 DEF Finish, TInv, TypeOK, call
  <2>2. CASE Started(t)
    <3>1. Linked' = Linked \cup {t} /\ timeout' = [timeout EXCEPT ![t] = Deadline(t)]
      BY <2>1, <2>2, StartedLinks DEF Started
    <3> QED
      BY <1>3, <2>1, <3>1
  <2>3. CASE UNCHANGED <<list, timeout>>
    <3>1. Linked' = Linked
      BY <2>3 DEF Linked, LinkedIn
    <3> QED
      BY <1>2, <2>1, <2>3, <3>1
  <2> QED
    BY <1>11, <2>2, <2>3 DEF Finish
<1>12. CASE Tick
  <2>1. /\ tick' = (tick + 1) % Ticks
        /\ \A x \in Linked : NotAfter(timeout[x], tick) => (tick - timeout[x]) % Ticks < Lag
        /\ \A c \in Interruptible :
              phase[c] = "withdrawn" /\ NotAfter(timeout[subject[c]], tick) =>
                  (tick - timeout[subject[c]]) % Ticks < Lag
        /\ UNCHANGED <<timeout, subject, phase>> /\ Linked' = Linked
    BY <1>12, QuietSteps DEF Tick, Quiet, call
  <2>2. ASSUME NEW x \in Linked PROVE Near(timeout[x], tick', x)
    BY <1>0, <2>1, NearAtNextTick DEF NearInv
  <2>3. ASSUME NEW c \in Interruptible, phase[c] = "withdrawn"
        PROVE  Near(timeout[subject[c]], tick', subject[c])
    BY <1>0, <2>1, <2>3, NearAtNextTick DEF NearInv
  <2> QED
    BY <1>1, <2>1, <2>2, <2>3 DEF NearInv
<1> QED
  BY <1>4, <1>5, <1>6, <1>7, <1>8, <1>9, <1>10, <1>11, <1>12
     DEF Next, TimerThread, Proceed, Quiet

LEMMA NearInitially == Init => NearInv
  BY NoneLinkedInitially DEF Init, NearInv, WalkIsNear

\* A timer that is due when the walk compares it is due by the clock.
LEMMA DueIsNotEarly ==
    ASSUME Headroom, TInv, NearInv, NextIsListed, Call
    PROVE  ~Later(timeout[n], tick)
<1>1. n \in Timers /\ n \in Linked /\ NotAfter(timeout[n], cur) /\ pc = "walk"
  BY DEF Call, Due, NextIsListed, TInv, TypeOK, Nodes
<1>2. PICK d \in -Lag..InitTick[n] : timeout[n] = (tick + d) % Ticks
  BY <1>1 DEF NearInv, Near
<1>3. PICK a \in 0..Lag : cur = (tick - a) % Ticks
  BY <1>1 DEF NearInv, WalkIsNear
<1>4. /\ InitTick[n] \in Nat /\ Lag \in Nat /\ InitTick[n] + Lag < Half /\ Half \in Nat
      /\ tick \in TickRange /\ tick \in Int /\ d \in Int /\ a \in Int /\ tick % Ticks = tick
  BY <1>1, LagAndTimeouts, HalfOfTicks DEF TInv, TypeOK, TickRange
<1> DEFINE e == 0 - a
<1>5. e \in Int /\ -Half < d /\ d < Half /\ -Half < e /\ e < Half /\ -Half < e - d /\ e - d < Half
      /\ e <= 0 /\ tick + e = tick - a /\ 0 \in Int /\ -Half < 0 /\ 0 < Half
      /\ -Half < d - 0 /\ d - 0 < Half /\ tick + 0 = tick
  BY <1>2, <1>3, <1>4
<1> HIDE DEF e
<1>6. NotAfter(timeout[n], cur) <=> d <= e
  <2> DEFINE p == (tick + d) % Ticks
             q == (tick + e) % Ticks
  <2>1. NotAfter(p, q) <=> d <= e
    BY <1>4, <1>5, Distances
  <2> QED
    BY <1>2, <1>3, <1>5, <2>1
<1>7. Later(timeout[n], tick) <=> 0 < d
  <2> DEFINE p == (tick + 0) % Ticks
             q == (tick + d) % Ticks
  <2>1. Later(q, p) <=> 0 < d
    BY <1>4, <1>5, Distances
  <2> QED
    BY <1>2, <1>4, <1>5, <2>1
<1> QED
  BY <1>1, <1>4, <1>5, <1>6, <1>7

\* No callback comes before its time, across any number of wraps of the clock,
\* if every timeout leaves headroom, no timer has two starters and nobody stops
\* the timer at which the walk goes on after a callback.
THEOREM TimersAreNeverEarly ==
    ASSUME OneStarter, Headroom PROVE Spec /\ []NextIsListed => NeverEarly
<1>1. RInv /\ [Next]_vars => RInv'
  BY RingPreserved
<1>2. RInv /\ TInv /\ NearInv /\ [Next]_vars => NearInv'
  BY NearPreserved
<1>3. TInv /\ NearInv /\ NextIsListed => [Call => ~Later(timeout[n], tick)]_vars
  BY DueIsNotEarly
<1> QED
  BY <1>1, <1>2, <1>3, RingInitially, TypesInitially, TypesPreserved, NearInitially,
     PTL DEF Spec, NeverEarly

\* Within two ticks of the one that was read, whatever n points to: what was
\* due then is now due by the clock.
LEMMA DueIsNotEarlySoon ==
    ASSUME Lag <= 2, Lag < Half, TInv, WalkIsNear, Call PROVE ~Later(timeout[n], tick)
<1>1. n \in Timers /\ NotAfter(timeout[n], cur) /\ pc = "walk"
  BY DEF Call, Due, TInv, TypeOK, Nodes
<1>2. PICK a \in 0..Lag : cur = (tick - a) % Ticks
  BY <1>1 DEF WalkIsNear
<1> DEFINE at == timeout[n]
<1>3. /\ Ticks \in Nat \ {0} /\ Half \in Nat /\ 2 * Half <= Ticks - 1 /\ Lag \in Nat
      /\ tick \in 0..Ticks - 1 /\ at \in 0..Ticks - 1 /\ a \in Int /\ 0 <= a /\ a <= 2 /\ a < Half
      /\ cur \in 0..Ticks - 1
  BY <1>1, <1>2, HalfOfTicks, TimerAssumption DEF TInv, TypeOK, TickRange
<1> HIDE DEF at
<1>4. cur = IF tick - a < 0 THEN tick - a + Ticks ELSE tick - a
  <2>1. /\ tick \in Int /\ a \in Int /\ Ticks \in Int /\ tick - a \in Int /\ -Ticks <= tick - a
        /\ tick - a < 2 * Ticks /\ tick - a < Ticks
    BY <1>3
  <2>2. (tick - a) % Ticks = IF tick - a < 0 THEN tick - a + Ticks ELSE tick - a
    BY <2>1, WrapOnce
  <2> QED
    BY <1>2, <2>2
<1>5. (cur - at) % Ticks = IF cur - at < 0 THEN cur - at + Ticks ELSE cur - at
  <2>1. /\ cur \in Int /\ at \in Int /\ Ticks \in Int /\ cur - at \in Int /\ -Ticks <= cur - at
        /\ cur - at < 2 * Ticks /\ cur - at < Ticks
    BY <1>3
  <2> QED
    BY <2>1, WrapOnce
<1>6. (at - tick) % Ticks = IF at - tick < 0 THEN at - tick + Ticks ELSE at - tick
  <2>1. /\ tick \in Int /\ at \in Int /\ Ticks \in Int /\ at - tick \in Int /\ -Ticks <= at - tick
        /\ at - tick < 2 * Ticks /\ at - tick < Ticks
    BY <1>3
  <2> QED
    BY <2>1, WrapOnce
<1>7. (cur - at) % Ticks < Half
  BY <1>1 DEF NotAfter, at
<1>8. (at - tick) % Ticks \notin 1..Half - 1
  BY <1>3, <1>4, <1>5, <1>6, <1>7
<1> QED
  BY <1>8 DEF Later, at

\* No callback comes before its time, whoever starts and stops timers, if the
\* walk gets to it within two ticks of the one it has read: whatever became
\* of the timer at which it goes on.
THEOREM QuickWalksAreNeverEarly ==
    ASSUME Lag <= 2, Lag < Half PROVE Spec => NeverEarly
<1>1. TInv /\ WalkIsNear /\ [Next]_vars => WalkIsNear'
  BY WalkStaysNear
<1>2. TInv /\ WalkIsNear => [Call => ~Later(timeout[n], tick)]_vars
  BY DueIsNotEarlySoon
<1>3. Init => WalkIsNear
  BY DEF Init, WalkIsNear
<1> QED
  BY <1>1, <1>2, <1>3, TypesInitially, TypesPreserved, PTL DEF Spec, NeverEarly

\* If only threads below the timer thread start and stop timers: never early,
\* with no rule left to follow.
THEOREM TimersBelowAreNeverEarly ==
    ASSUME Callers \subseteq {"below"}, Headroom PROVE Spec => NeverEarly
<1>1. OneStarter
  BY TimerAssumption DEF OneStarter
<1>2. RInv /\ [Next]_vars => RInv'
  BY <1>1, RingPreserved
<1>3. RInv /\ NextIsListed /\ [Next]_vars => NextIsListed'
  BY NextStaysListed
<1>4. Init => NextIsListed
  BY DEF Init, NextIsListed
<1>5. Spec /\ []NextIsListed => NeverEarly
  BY <1>1, TimersAreNeverEarly
<1> QED
  BY <1>2, <1>3, <1>4, <1>5, RingInitially, PTL DEF Spec

-----------------------------------------------------------------------------
(* The order of the list.  Modulo the number of ticks "later" is no order at *)
(* all; among timers that are near it is one.                                *)

Precedes(to, ord, x, y) == Later(to[y], to[x]) \/ (to[y] = to[x] /\ <<x, y>> \in ord)

Ordered(l, to, ord) ==
    \A x \in LinkedIn(l) : l.next[x] # Root => Precedes(to, ord, x, l.next[x])

\* Who was started before whom is transitive.
Transitive(ord) ==
    \A x, y, z \in Timers : <<x, y>> \in ord /\ <<y, z>> \in ord => <<x, z>> \in ord

LEMMA StartedLast ==
    ASSUME Transitive(order), NEW x \in Timers,
           order' = {r \in order : r[1] # x} \cup ((Timers \ {x}) \X {x})
    PROVE  /\ Transitive(order')
           /\ \A y \in Timers \ {x} : <<y, x>> \in order'
           /\ \A y, z \in Timers : y # x /\ <<y, z>> \in order => <<y, z>> \in order'
<1>1. ASSUME NEW y \in Timers, NEW z \in Timers
      PROVE  <<y, z>> \in order' <=> y # x /\ (<<y, z>> \in order \/ z = x)
  <2>1. <<y, z>>[1] = y
    OBVIOUS
  <2> QED
    BY <2>1
<1> QED
  BY <1>1 DEF Transitive

\* The timeouts of two timers compare as their distances do.
LEMMA NearOnesCompare ==
    ASSUME Headroom, tick \in TickRange, NEW x \in Timers, NEW y \in Timers,
           NEW c \in -Lag..InitTick[x], NEW d \in -Lag..InitTick[y]
    PROVE  LET a == (tick + c) % Ticks
               b == (tick + d) % Ticks
           IN  /\ c \in Int /\ d \in Int
               /\ Later(b, a) <=> c < d
               /\ Later(a, b) <=> d < c
               /\ a = b <=> c = d
<1>1. /\ Lag \in Nat /\ Half \in Nat
      /\ InitTick[x] \in Nat /\ InitTick[x] + Lag < Half
      /\ InitTick[y] \in Nat /\ InitTick[y] + Lag < Half
  BY LagAndTimeouts
<1>2. /\ c \in Int /\ d \in Int
      /\ -Half < c /\ c < Half /\ -Half < d /\ d < Half
      /\ -Half < d - c /\ d - c < Half /\ -Half < c - d /\ c - d < Half
  BY <1>1
<1> DEFINE a == (tick + c) % Ticks
           b == (tick + d) % Ticks
<1>3. (Later(b, a) <=> c < d) /\ (a = b <=> c = d)
  BY <1>2, Distances
<1>4. Later(a, b) <=> d < c
  BY <1>2, Distances
<1> QED
  BY <1>2, <1>3, <1>4

\* Among near timers "not later" is an order, and of two one precedes.
LEMMA NearOnesAreOrdered ==
    ASSUME Headroom, tick \in TickRange, NEW x \in Timers, NEW y \in Timers, NEW z \in Timers,
           NEW a, NEW b, NEW e, Near(a, tick, x), Near(b, tick, y), Near(e, tick, z)
    PROVE  /\ ~Later(b, a) <=> Later(a, b) \/ a = b
           /\ ~Later(a, b) /\ ~Later(b, e) => ~Later(a, e)
<1>1. PICK c \in -Lag..InitTick[x] : a = (tick + c) % Ticks
  BY DEF Near
<1>2. PICK d \in -Lag..InitTick[y] : b = (tick + d) % Ticks
  BY DEF Near
<1>3. PICK f \in -Lag..InitTick[z] : e = (tick + f) % Ticks
  BY DEF Near
<1>4. c \in Int /\ d \in Int /\ (Later(b, a) <=> c < d) /\ (Later(a, b) <=> d < c) /\ (a = b <=> c = d)
  BY <1>1, <1>2, NearOnesCompare
<1>5. f \in Int /\ (Later(e, b) <=> d < f) /\ (Later(b, e) <=> f < d) /\ (b = e <=> d = f)
  BY <1>2, <1>3, NearOnesCompare
<1>6. (Later(e, a) <=> c < f) /\ (Later(a, e) <=> f < c) /\ (a = e <=> c = f)
  BY <1>1, <1>3, NearOnesCompare
<1> QED
  BY <1>4, <1>5, <1>6

LEMMA PrecedesIsTransitive ==
    ASSUME Headroom, tick \in TickRange, Transitive(order),
           NEW x \in Timers, NEW y \in Timers, NEW z \in Timers,
           Near(timeout[x], tick, x), Near(timeout[y], tick, y), Near(timeout[z], tick, z),
           Precedes(timeout, order, x, y), Precedes(timeout, order, y, z)
    PROVE  Precedes(timeout, order, x, z)
<1>1. PICK c \in -Lag..InitTick[x] : timeout[x] = (tick + c) % Ticks
  BY DEF Near
<1>2. PICK d \in -Lag..InitTick[y] : timeout[y] = (tick + d) % Ticks
  BY DEF Near
<1>3. PICK e \in -Lag..InitTick[z] : timeout[z] = (tick + e) % Ticks
  BY DEF Near
<1>4. c \in Int /\ d \in Int /\ (c < d \/ (c = d /\ <<x, y>> \in order))
  BY <1>1, <1>2, NearOnesCompare DEF Precedes
<1>5. e \in Int /\ (d < e \/ (d = e /\ <<y, z>> \in order))
  BY <1>2, <1>3, NearOnesCompare DEF Precedes
<1>6. c < e \/ (c = e /\ <<x, z>> \in order)
  <2>1. CASE c = d /\ d = e
    BY <1>4, <1>5, <2>1 DEF Transitive
  <2>2. CASE c < d \/ d < e
    BY <1>4, <1>5, <2>2
  <2> QED
    BY <1>4, <1>5, <2>1, <2>2
<1> QED
  BY <1>1, <1>3, <1>6, NearOnesCompare DEF Precedes

\* A removal brings together two timers that had one in between.
LEMMA RemovedIsOrdered ==
    ASSUME Headroom, RInv, TInv, NearInv, Transitive(order), Ordered(list, timeout, order),
           NEW x \in Timers
    PROVE  Ordered(Removed(x), timeout, order)
<1> DEFINE m == Removed(x)
<1>1. /\ list \in Lists /\ Sound(list) /\ x \in Nodes /\ Timers \subseteq Nodes
      /\ Root \notin Timers /\ LinkedIn(m) = Linked \ {x}
      /\ list.next \in [Nodes -> Nodes] /\ list.prev \in [Nodes -> Nodes]
      /\ Linked = LinkedIn(list) /\ Linked \subseteq Timers
  BY TimerAssumption, RemovedLinks DEF RInv, IInv, ListIsSound, Nodes, Lists, Linked, LinkedIn
<1>2. \A y \in Nodes : m.next[y] = IF y = x THEN x ELSE IF y = list.prev[x] THEN list.next[x]
                                   ELSE list.next[y]
  BY <1>1 DEF Removed, Without
<1> HIDE DEF m
<1> SUFFICES ASSUME NEW y \in LinkedIn(m), m.next[y] # Root
             PROVE  Precedes(timeout, order, y, m.next[y])
  BY DEF Ordered, m
<1>3. y \in Linked /\ y # x /\ y \in Nodes /\ y \in Timers
  BY <1>1
<1>4. CASE y # list.prev[x]
  BY <1>1, <1>2, <1>3, <1>4 DEF Ordered
<1>5. CASE y = list.prev[x]
  <2>1. list.next[y] = x /\ m.next[y] = list.next[x]
    BY <1>1, <1>2, <1>3, <1>5 DEF Sound
  <2>2. list.next[x] # x
    BY <1>1, <1>3, <1>5 DEF Sound
  <2>3. x \in Linked
    BY <1>1, <2>2 DEF LinkedIn
  <2>4. list.next[x] \in Linked
    BY <1>1, <2>1, <2>2, NextOfLinked
  <2>5. Precedes(timeout, order, y, x) /\ Precedes(timeout, order, x, list.next[x])
    BY <1>1, <1>3, <2>1, <2>3 DEF Ordered
  <2>6. tick \in TickRange /\ Near(timeout[x], tick, x) /\ Near(timeout[y], tick, y)
        /\ Near(timeout[list.next[x]], tick, list.next[x])
    BY <1>3, <2>3, <2>4 DEF NearInv, TInv, TypeOK
  <2> QED
    BY <1>1, <1>3, <2>1, <2>4, <2>5, <2>6, PrecedesIsTransitive
<1> QED
  BY <1>4, <1>5

\* A timer that is put in comes behind those that are not later.
LEMMA PutInIsOrdered ==
    ASSUME Headroom, tick \in TickRange, Transitive(order), NEW l \in Lists, Sound(l), Ranked(l),
           NEW x \in Timers, Lone(l, x), NEW at, PutIn(l, x, at), Near(at, tick, x),
           Ordered(l, timeout, order), \A y \in LinkedIn(l) : Near(timeout[y], tick, y),
           timeout'[x] = at, \A y \in Timers : y # x => timeout'[y] = timeout[y]
    PROVE  Ordered(list', timeout', order') /\ Transitive(order')
<1>0. /\ Timers \subseteq Nodes /\ Root \in Nodes /\ Root \notin Timers /\ x \in Nodes
      /\ l.next \in [Nodes -> Nodes] /\ LinkedIn(l) \subseteq Timers /\ x \notin LinkedIn(l)
  BY TimerAssumption DEF Nodes, Lists, LinkedIn, Lone
<1>1. PICK p \in Places(l, at) : list' = With(l, p, x)
  BY DEF PutIn
<1>2. /\ p \in LinkedIn(l) \cup {Root} /\ p \in Nodes /\ p # x
      /\ p = Root \/ ~Later(timeout[p], at)
      /\ l.next[p] = Root \/ Later(timeout[l.next[p]], at)
  BY <1>0, <1>1 DEF Places
<1>3. /\ Transitive(order')
      /\ \A y \in Timers \ {x} : <<y, x>> \in order'
      /\ \A y, z \in Timers : y # x /\ <<y, z>> \in order => <<y, z>> \in order'
  BY StartedLast DEF PutIn
<1>4. \A y \in Nodes : list'.next[y] = IF y = x THEN l.next[p] ELSE IF y = p THEN x ELSE l.next[y]
  BY <1>0, <1>1, <1>2 DEF With
<1>5. LinkedIn(list') = LinkedIn(l) \cup {x}
  BY <1>1, <1>2, WithIsRanked
<1>6. \A y \in Nodes : y # x => l.next[y] # x /\ l.next[y] \in Nodes
  BY <1>0 DEF Lone, Sound
<1> SUFFICES ASSUME NEW y \in LinkedIn(list'), list'.next[y] # Root
             PROVE  Precedes(timeout', order', y, list'.next[y])
  BY <1>3 DEF Ordered
<1>7. CASE y = x
  <2>1. list'.next[y] = l.next[p] /\ l.next[p] \in Timers /\ l.next[p] # x
        /\ Later(timeout[l.next[p]], at)
    BY <1>0, <1>2, <1>4, <1>6, <1>7 DEF Nodes
  <2> QED
    BY <1>7, <2>1 DEF Precedes
<1>8. CASE y = p
  <2>1. y \in LinkedIn(l) /\ y \in Timers /\ y # x /\ list'.next[y] = x /\ ~Later(timeout[y], at)
    BY <1>0, <1>2, <1>4, <1>5, <1>8
  <2>2. Later(at, timeout[y]) \/ timeout[y] = at
    BY <2>1, NearOnesAreOrdered
  <2>3. <<y, x>> \in order'
    BY <1>3, <2>1
  <2> QED
    BY <2>1, <2>2, <2>3 DEF Precedes
<1>9. CASE y # x /\ y # p
  <2>1. y \in LinkedIn(l) /\ y \in Timers /\ list'.next[y] = l.next[y]
        /\ l.next[y] \in Timers /\ l.next[y] # x
    BY <1>0, <1>4, <1>5, <1>6, <1>9 DEF Nodes
  <2>2. Precedes(timeout, order, y, l.next[y])
    BY <2>1 DEF Ordered
  <2> QED
    BY <1>3, <1>9, <2>1, <2>2 DEF Precedes
<1> QED
  BY <1>7, <1>8, <1>9

OInv == Ordered(list, timeout, order) /\ Transitive(order)

LEMMA OrderPreserved ==
    ASSUME Headroom, RInv, TInv, NearInv, OInv, [Next]_vars PROVE OInv'
<1>0. /\ tick \in TickRange /\ timeout \in [Timers -> TickRange]
      /\ Linked = LinkedIn(list) /\ Linked \subseteq Timers
      /\ Ordered(list, timeout, order) /\ Transitive(order)
  BY DEF TInv, TypeOK, Linked, LinkedIn, OInv
<1>1. OInv' <=> Ordered(list', timeout', order') /\ Transitive(order')
  BY DEF OInv, Ordered, Precedes, LinkedIn, Transitive, Later
<1>2. ASSUME NEW x \in Timers, Started(x) PROVE OInv'
  <2>1. /\ Removed(x) \in Lists /\ Sound(Removed(x)) /\ Lone(Removed(x), x)
        /\ LinkedIn(Removed(x)) = Linked \ {x} /\ Ranked(Removed(x))
    BY RemovedLinks
  <2>2. Ordered(Removed(x), timeout, order)
    BY <1>0, RemovedIsOrdered
  <2>3. /\ PutIn(Removed(x), x, Deadline(x)) /\ Near(Deadline(x), tick, x)
        /\ timeout'[x] = Deadline(x) /\ \A y \in Timers : y # x => timeout'[y] = timeout[y]
    BY <1>0, <1>2, DeadlineIsNear DEF Started
  <2>4. \A y \in LinkedIn(Removed(x)) : Near(timeout[y], tick, y)
    BY <2>1 DEF NearInv
  <2> QED
    BY <1>0, <1>1, <2>1, <2>2, <2>3, <2>4, PutInIsOrdered
<1>3. ASSUME NEW c \in Interruptible, Insert(c) PROVE OInv'
  <2>1. /\ subject[c] \in Timers /\ Lone(list, subject[c]) /\ list \in Lists /\ Sound(list)
        /\ Ranked(list) /\ PutIn(list, subject[c], timeout[subject[c]]) /\ UNCHANGED timeout
        /\ Near(timeout[subject[c]], tick, subject[c])
    BY <1>3 DEF Insert, At, RInv, IInv, CallsOK, Apart, ListIsSound, NearInv
  <2>2. \A y \in LinkedIn(list) : Near(timeout[y], tick, y)
    BY <1>0 DEF NearInv
  <2> QED
    BY <1>0, <1>1, <2>1, <2>2, PutInIsOrdered
<1>4. ASSUME NEW x \in Timers, Stop(x) \/ \E c \in Interruptible : Withdraw(c, x)
      PROVE  OInv'
  <2>1. list' = Removed(x) /\ UNCHANGED order
        /\ \A y \in Timers : y # x => timeout'[y] = timeout[y]
    BY <1>0, <1>4 DEF Withdraw, Stop
  <2>2. Ordered(Removed(x), timeout, order)
    BY <1>0, RemovedIsOrdered
  <2>3. /\ LinkedIn(Removed(x)) = Linked \ {x} /\ Removed(x) \in Lists
        /\ Lone(Removed(x), x) /\ Sound(Removed(x))
    BY RemovedLinks
  <2>4. ASSUME NEW y \in LinkedIn(Removed(x)), Removed(x).next[y] # Root
        PROVE  y \in Timers \ {x} /\ Removed(x).next[y] \in Timers \ {x}
    <3>1. y \in Timers /\ y # x /\ y \in Nodes /\ Removed(x).next[y] \in Timers
      BY <1>0, <2>3, <2>4 DEF Lists, Nodes
    <3>2. Removed(x).next[y] # x
      BY <2>3, <3>1 DEF Lone, Sound
    <3> QED
      BY <3>1, <3>2
  <2>5. Ordered(Removed(x), timeout', order)
    BY <2>1, <2>2, <2>4 DEF Ordered, Precedes
  <2> QED
    BY <1>0, <1>1, <2>1, <2>5
<1>5. CASE Call
  <2>1. n \in Timers /\ list' = Removed(n) /\ UNCHANGED <<timeout, order>>
    BY <1>5, CallLinks DEF Call
  <2> QED
    BY <1>0, <1>1, <2>1, RemovedIsOrdered
<1>6. ASSUME NEW c \in Interruptible, StopRemove(c) PROVE OInv'
  <2>1. subject[c] \in Timers /\ list' = Removed(subject[c]) /\ UNCHANGED <<timeout, order>>
    BY <1>6, StopRemoveLinks DEF StopRemove
  <2> QED
    BY <1>0, <1>1, <2>1, RemovedIsOrdered
<1>7. ASSUME UNCHANGED <<list, timeout, order>> PROVE OInv'
  BY <1>0, <1>1, <1>7
<1>8. CASE Finish
  BY <1>2, <1>7, <1>8 DEF Finish, TInv, TypeOK
<1>9. CASE Quiet
  BY <1>7, <1>9, QuietSteps
<1>10. ASSUME NEW c \in Interruptible, StopClear(c) PROVE OInv'
  BY <1>7, <1>10 DEF StopClear
<1>11. ASSUME NEW x \in Timers, Start(x) PROVE OInv'
  BY <1>2, <1>11 DEF Start
<1> QED
  BY <1>3, <1>4, <1>5, <1>6, <1>8, <1>9, <1>10, <1>11 DEF Next, TimerThread, Proceed, Quiet

LEMMA OrderInitially == Init => OInv
  BY NoneLinkedInitially DEF Init, OInv, Ordered, Transitive, Linked

\* The timer that is due first comes first, and of two due together the one
\* started first, across any number of wraps of the clock, if every timeout
\* leaves headroom and no timer has two starters.
THEOREM ListStaysInOrder == ASSUME OneStarter, Headroom PROVE Spec => []InOrder
<1>1. RInv /\ [Next]_vars => RInv'
  BY RingPreserved
<1>2. RInv /\ TInv /\ NearInv /\ [Next]_vars => NearInv'
  BY NearPreserved
<1>3. RInv /\ TInv /\ NearInv /\ OInv /\ [Next]_vars => OInv'
  BY OrderPreserved
<1>4. OInv => InOrder
  BY DEF OInv, Ordered, Precedes, InOrder, StartedBefore, Linked
<1> QED
  BY <1>1, <1>2, <1>3, <1>4, OrderInitially, RingInitially, TypesInitially, TypesPreserved,
     NearInitially, PTL DEF Spec

-----------------------------------------------------------------------------
(* The timer thread does not sleep past a timer.                             *)

\* In a list that is one ring, the first member that has some property is the
\* first of all or comes behind one that has it not.
LEMMA FirstOfRing ==
    ASSUME NEW l \in Lists, Sound(l), Ranked(l), NEW B \in SUBSET LinkedIn(l), B # {}
    PROVE  \E x \in B : /\ l.next[l.prev[x]] = x
                        /\ l.prev[x] = Root \/ l.prev[x] \in LinkedIn(l) \ B
<1>1. PICK rank \in [Nodes -> Nat] : \A x \in LinkedIn(l) : rank[l.prev[x]] < rank[x]
  BY DEF Ranked
<1>2. /\ \A x \in LinkedIn(l) : x \in Timers /\ x \in Nodes /\ l.prev[x] \in Nodes
      /\ \A x \in Nodes : rank[x] \in Nat
  BY DEF LinkedIn, Nodes, Lists
<1> DEFINE T == {rank[x] : x \in B}
<1>3. PICK x \in B : \A y \in B : rank[x] <= rank[y]
  <2>1. T \in SUBSET Nat /\ T # {}
    BY <1>2
  <2>2. \E k \in T : \A m \in T : k <= m
    <3> HIDE DEF T
    <3> QED
      BY <2>1, LeastNat
  <2> QED
    BY <2>2
<1>4. l.prev[x] \notin B
  BY <1>1, <1>2, <1>3
<1>5. l.next[l.prev[x]] = x /\ l.prev[x] # x
  BY <1>1, <1>2, <1>4 DEF Sound
<1>6. l.prev[x] = Root \/ l.prev[x] \in LinkedIn(l)
  BY <1>2, <1>5 DEF LinkedIn, Nodes
<1> QED
  BY <1>4, <1>5, <1>6

\* What rt_timer_list_next_timeout reads is the earliest timeout of the list.
LEMMA FirstIsEarliest ==
    ASSUME Headroom, RInv, TInv, NearInv, OInv, NEW x \in Linked
    PROVE  /\ list.next[Root] \in Linked
           /\ ~Later(timeout[list.next[Root]], timeout[x])
<1> DEFINE f == list.next[Root]
           B == {y \in Linked : Later(timeout[f], timeout[y])}
<1>0. /\ list \in Lists /\ Sound(list) /\ Ranked(list) /\ Linked = LinkedIn(list)
      /\ Linked \subseteq Timers /\ Root \in Nodes /\ Root \notin Timers /\ Timers \subseteq Nodes
      /\ tick \in TickRange /\ Ordered(list, timeout, order)
      /\ \A y \in Linked : Near(timeout[y], tick, y)
  BY TimerAssumption DEF RInv, IInv, ListIsSound, Linked, LinkedIn, Nodes, TInv, TypeOK, OInv, NearInv
<1>1. f \in Linked
  <2>1. PICK y \in Linked : list.next[list.prev[y]] = y /\ list.prev[y] = Root
    <3>1. Linked \in SUBSET LinkedIn(list) /\ Linked # {} /\ LinkedIn(list) \ Linked = {}
      BY <1>0
    <3> HIDE DEF f, B
    <3> QED
      BY <1>0, <3>1, FirstOfRing
  <2> QED
    BY <2>1
<1>2. B = {}
  <2> SUFFICES ASSUME B # {} PROVE FALSE
    OBVIOUS
  <2>1. PICK y \in B : /\ list.next[list.prev[y]] = y
                       /\ list.prev[y] = Root \/ list.prev[y] \in Linked \ B
    <3>1. B \in SUBSET LinkedIn(list)
      BY <1>0
    <3> HIDE DEF B
    <3> QED
      BY <1>0, <3>1, FirstOfRing
  <2>2. y \in Linked /\ y \in Timers /\ f \in Timers
        /\ Near(timeout[y], tick, y) /\ Near(timeout[f], tick, f)
    BY <1>0, <1>1
  <2>3. CASE list.prev[y] = Root
    <3>1. f = y
      BY <2>1, <2>3
    <3>2. ~Later(timeout[y], timeout[y])
      BY <1>0, <2>2, NearOnesAreOrdered
    <3> QED
      BY <3>1, <3>2
  <2>4. CASE list.prev[y] \in Linked \ B
    <3> DEFINE p == list.prev[y]
    <3>1. p \in Linked /\ p \in Timers /\ Near(timeout[p], tick, p) /\ ~Later(timeout[f], timeout[p])
          /\ y # Root /\ list.next[p] = y
      BY <1>0, <2>1, <2>2, <2>4
    <3>2. Precedes(timeout, order, p, y)
      BY <1>0, <3>1 DEF Ordered
    <3>3. ~Later(timeout[p], timeout[y])
      BY <1>0, <2>2, <3>1, <3>2, NearOnesAreOrdered DEF Precedes
    <3>4. ~Later(timeout[f], timeout[y])
      <4> HIDE DEF f, p
      <4> QED
        BY <1>0, <2>2, <3>1, <3>3, NearOnesAreOrdered
    <3> QED
      BY <3>4
  <2> QED
    BY <2>1, <2>3, <2>4
<1> QED
  BY <1>1, <1>2

NoneBefore(w) == \A x \in Linked : ~Later(w, timeout[x])

\* No timeout, with the lag of the timer thread and its pause, spans half of the
\* counter.
SleepRoom == \A x \in Timers : InitTick[x] + Lag + Pause < Half

\* What it has seen is still so when it goes to sleep, Pause ticks later at most.
SleepInv ==
    /\ SleepsInTime
    /\ pc = "plan" => IF wake = TickMax THEN Linked = {}
                      ELSE \E f \in Linked : wake = timeout[f] /\ NoneBefore(timeout[f])
    /\ pc = "delta" => \E f \in Linked : /\ wake = (timeout[f] - cur) % Ticks
                                         /\ NoneBefore(timeout[f])
                                         /\ \E a \in 0..Pause : cur = (tick - a) % Ticks

\* Ticks added to a tick that may have wrapped.
LEMMA AddTicks ==
    ASSUME NEW v \in Int, NEW k \in Int, -Ticks <= v, v < 2 * Ticks, -Ticks < k, k < Ticks,
           -Ticks <= v + k, v + k < 2 * Ticks
    PROVE  ((v % Ticks) + k) % Ticks = (v + k) % Ticks
<1>1. Ticks \in Nat \ {0} /\ v + k \in Int
  BY HalfOfTicks
<1>2. v % Ticks = IF v < 0 THEN v + Ticks ELSE IF v < Ticks THEN v ELSE v - Ticks
  BY WrapOnce
<1>3. (v + k) % Ticks = IF v + k < 0 THEN v + k + Ticks ELSE IF v + k < Ticks THEN v + k ELSE v + k - Ticks
  BY <1>1, WrapOnce
<1> DEFINE u == v % Ticks
<1>4. u \in Int /\ 0 <= u /\ u < Ticks
  BY <1>1, <1>2
<1>5. u = IF v < 0 THEN v + Ticks ELSE IF v < Ticks THEN v ELSE v - Ticks
  BY <1>2
<1> HIDE DEF u
<1> DEFINE w == u + k
<1>6. w \in Int /\ -Ticks <= w /\ w < 2 * Ticks
  BY <1>1, <1>4
<1> HIDE DEF w
<1>7. w % Ticks = IF w < 0 THEN w + Ticks ELSE IF w < Ticks THEN w ELSE w - Ticks
  BY <1>6, WrapOnce
<1>8. (u + k) % Ticks = (v + k) % Ticks
  BY <1>1, <1>3, <1>4, <1>5, <1>7 DEF w
<1> QED
  BY <1>8 DEF u

\* A sleep that begins a few ticks after the tick was read ends as many after the
\* first timer is due.
LEMMA DelayIsInTime ==
    ASSUME SleepRoom, tick \in TickRange, NEW f \in Timers, NEW x \in Timers,
           Near(timeout[f], tick, f), Near(timeout[x], tick, x), ~Later(timeout[f], timeout[x]),
           NEW a \in 0..Pause, cur = (tick - a) % Ticks, wake = (timeout[f] - cur) % Ticks
    PROVE  ~Later((tick + wake) % Ticks, (timeout[x] + Pause) % Ticks)
<1>1. PICK d \in -Lag..InitTick[f] : timeout[f] = (tick + d) % Ticks
  BY DEF Near
<1>2. PICK e \in -Lag..InitTick[x] : timeout[x] = (tick + e) % Ticks
  BY DEF Near
<1>3. /\ InitTick[f] \in Nat /\ InitTick[x] \in Nat /\ Lag \in Nat /\ Pause \in Nat /\ Pause <= Lag
      /\ InitTick[f] + Lag + Pause < Half /\ InitTick[x] + Lag + Pause < Half /\ Half \in Nat
      /\ Ticks \in Nat \ {0} /\ 2 * Half <= Ticks - 1 /\ tick \in 0..Ticks - 1
      /\ d \in Int /\ e \in Int /\ a \in Int /\ 0 <= a /\ a <= Pause
  <2>1. InitTick[f] \in 0..Half - 1 /\ InitTick[x] \in 0..Half - 1 /\ Half \in Nat
    BY TimerAssumption, HalfOfTicks
  <2> QED
    BY <2>1, TimerAssumption, HalfOfTicks DEF SleepRoom, TickRange
<1>4. /\ -Lag <= d /\ d + Lag + Pause < Half /\ -Lag <= e /\ e + Lag + Pause < Half
  BY <1>3
<1> DEFINE b == 0 - a
<1>5. b \in Int /\ tick + b = tick - a /\ -Pause <= b /\ b <= 0
  BY <1>3
<1> HIDE DEF b
<1>6. d <= e
  <2>1. d \in Int /\ e \in Int /\ -Half < d /\ d < Half /\ -Half < e /\ e < Half
        /\ -Half < d - e /\ d - e < Half
    BY <1>3, <1>4
  <2> DEFINE p == (tick + e) % Ticks
             q == (tick + d) % Ticks
  <2>2. Later(q, p) <=> e < d
    BY <2>1, Distances
  <2> QED
    BY <1>1, <1>2, <1>3, <2>2
<1>7. wake = IF b <= d THEN d - b ELSE d - b + Ticks
  <2>1. -Half < b /\ b < Half /\ -Half < d /\ d < Half /\ -Half < d - b /\ d - b < Half
    BY <1>3, <1>4, <1>5
  <2> DEFINE p == (tick + b) % Ticks
             q == (tick + d) % Ticks
  <2>2. (q - p) % Ticks = IF b <= d THEN d - b ELSE d - b + Ticks
    BY <1>3, <1>5, <2>1, Distances
  <2> QED
    BY <1>1, <1>5, <2>2
<1> DEFINE late == d - b
<1>8. late \in Int /\ -Half < late /\ late < Half /\ late <= e + Pause /\ wake \in Int
      /\ (wake = late \/ (wake = late + Ticks /\ late < 0))
  BY <1>3, <1>4, <1>5, <1>6, <1>7
<1> HIDE DEF late
<1>9. (tick + wake) % Ticks = (tick + late) % Ticks
  <2>1. CASE wake = late
    BY <2>1
  <2>2. CASE wake = late + Ticks /\ late < 0
    <3> DEFINE v == tick + late
               w == tick + wake
    <3>1. /\ v \in Int /\ w \in Int /\ w = v + Ticks /\ -Ticks <= v /\ v < Ticks
          /\ -Ticks <= w /\ w < 2 * Ticks /\ 0 <= w /\ v < 2 * Ticks
      BY <1>3, <1>8, <2>2
    <3> HIDE DEF v, w
    <3>2. v % Ticks = IF v < 0 THEN v + Ticks ELSE IF v < Ticks THEN v ELSE v - Ticks
      BY <3>1, WrapOnce
    <3>3. w % Ticks = IF w < 0 THEN w + Ticks ELSE IF w < Ticks THEN w ELSE w - Ticks
      BY <3>1, WrapOnce
    <3>4. w % Ticks = v % Ticks
      BY <1>3, <3>1, <3>2, <3>3
    <3> QED
      BY <3>4 DEF v, w
  <2> QED
    BY <1>8, <2>1, <2>2
<1>10. (timeout[x] + Pause) % Ticks = (tick + (e + Pause)) % Ticks
  <2> DEFINE v == tick + e
  <2>1. /\ v \in Int /\ Pause \in Int /\ -Ticks <= v /\ v < 2 * Ticks /\ -Ticks < Pause
        /\ Pause < Ticks /\ -Ticks <= v + Pause /\ v + Pause < 2 * Ticks
        /\ v + Pause = tick + (e + Pause)
    BY <1>3, <1>4
  <2> HIDE DEF v
  <2>2. ((v % Ticks) + Pause) % Ticks = (v + Pause) % Ticks
    BY <2>1, AddTicks
  <2> QED
    BY <1>2, <2>1, <2>2 DEF v
<1> DEFINE g == e + Pause
<1>11. g \in Int /\ -Half < g /\ g < Half /\ -Half < late - g /\ late - g < Half /\ late <= g
  BY <1>3, <1>4, <1>5, <1>6, <1>8 DEF late
<1> HIDE DEF g
<1>12. Later((tick + late) % Ticks, (tick + g) % Ticks) <=> g < late
  BY <1>8, <1>11, Distances
<1>13. ~Later((tick + late) % Ticks, (tick + g) % Ticks)
  BY <1>8, <1>11, <1>12
<1> QED
  BY <1>9, <1>10, <1>13 DEF g

LEMMA SleepPreserved ==
    ASSUME "preempting" \notin Callers, Headroom, SleepRoom, NobodyAtTickMax,
           RInv, TInv, NearInv, OInv, SleepInv, [Next]_vars
    PROVE  SleepInv'
<1> USE DEF walk, call
<1>0. /\ CallsOK /\ "below" \in Interruptible /\ Linked \subseteq Timers /\ tick \in TickRange
      /\ \A c \in Interruptible : phase[c] # "none" => subject[c] \in Timers
  BY DEF TInv, TypeOK, CallsOK, Interruptible, Linked, LinkedIn
<1>a. ASSUME pc' \notin {"plan", "delta", "suspended", "delay"} PROVE SleepInv'
  BY <1>a DEF SleepInv, SleepsInTime
<1>b. ASSUME Waiting, UNCHANGED <<pc, wake>>, phase["below"] # "inserted", Linked' \subseteq Linked,
             \A x \in Linked' : timeout'[x] = timeout[x]
      PROVE  SleepInv'
  BY <1>b DEF SleepInv, SleepsInTime, Waiting
<1>c. ASSUME pc = "callback", UNCHANGED pc PROVE SleepInv'
  BY <1>a, <1>c
<1>1. CASE Look
  <2>1. /\ Linked' = Linked /\ timeout' = timeout /\ pc' = "plan"
        /\ wake' = IF list.next[Root] = Root THEN TickMax ELSE timeout[list.next[Root]]
    BY <1>1, QuietSteps DEF Look, Quiet
  <2>2. CASE Linked = {}
    <3>1. wake' = TickMax
      <4>1. list.next[Root] = Root
        <5>1. list \in Lists /\ Sound(list) /\ Root \in Nodes /\ Linked = LinkedIn(list)
          BY DEF RInv, IInv, ListIsSound, Nodes, Linked
        <5> QED
          BY <2>2, <5>1, NextOfLinked
      <4> QED
        BY <2>1, <4>1
    <3> QED
      BY <2>1, <2>2, <3>1 DEF SleepInv, SleepsInTime
  <2>3. CASE Linked # {}
    <3> DEFINE f == list.next[Root]
    <3>1. f \in Linked /\ \A x \in Linked : ~Later(timeout[f], timeout[x])
      BY <2>3, FirstIsEarliest
    <3>2. f \in Timers /\ Root \notin Timers
      BY <1>0, <3>1, TimerAssumption
    <3>3. wake' = timeout[f] /\ wake' # TickMax
      BY <2>1, <3>2 DEF NobodyAtTickMax
    <3> HIDE DEF f
    <3>4. \E g \in Linked' : wake' = timeout'[g] /\ \A x \in Linked' : ~Later(timeout'[g], timeout'[x])
      BY <2>1, <3>1, <3>3
    <3> QED
      BY <2>1, <3>3, <3>4 DEF SleepInv, SleepsInTime, NoneBefore, Later
  <2> QED
    BY <2>2, <2>3
<1>2. CASE Plan
  <2>1. Linked' = Linked /\ timeout' = timeout /\ tick' = tick
    BY <1>2, QuietSteps DEF Quiet, Plan
  <2>2. CASE wake = TickMax
    <3>1. pc' = "suspended" /\ Linked' = {}
      BY <1>2, <2>1, <2>2 DEF Plan, SleepInv
    <3> QED
      BY <3>1 DEF SleepInv, SleepsInTime
  <2>3. CASE wake # TickMax /\ NotAfter(tick, wake)
    <3>1. pc' = "delta" /\ wake' = (wake - tick) % Ticks /\ cur' = tick
      BY <1>2, <2>3 DEF Plan
    <3>2. PICK f \in Linked : wake = timeout[f] /\ NoneBefore(timeout[f])
      BY <1>2, <2>3 DEF Plan, SleepInv
    <3>3. 0 \in 0..Pause /\ cur' = (tick' - 0) % Ticks
      BY <1>0, <2>1, <3>1, HalfOfTicks, TimerAssumption DEF TickRange
    <3>4. wake' = (timeout'[f] - cur') % Ticks /\ \A x \in Linked' : ~Later(timeout'[f], timeout'[x])
      BY <2>1, <3>1, <3>2 DEF NoneBefore
    <3> QED
      BY <2>1, <3>1, <3>3, <3>4 DEF SleepInv, SleepsInTime, NoneBefore, Later
  <2>4. CASE wake # TickMax /\ ~NotAfter(tick, wake)
    BY <1>2, <1>a, <2>4 DEF Plan
  <2> QED
    BY <2>2, <2>3, <2>4
<1>3. CASE Delay
  <2>1. Linked' = Linked /\ timeout' = timeout /\ pc = "delta" /\ pc' = "delay"
        /\ wake' = (tick + wake) % Ticks
    BY <1>3, QuietSteps DEF Quiet, Delay
  <2>2. PICK f \in Linked : wake = (timeout[f] - cur) % Ticks /\ NoneBefore(timeout[f])
                            /\ \E a \in 0..Pause : cur = (tick - a) % Ticks
    BY <2>1 DEF SleepInv
  <2>3. ASSUME NEW x \in Linked PROVE ~Later((tick + wake) % Ticks, (timeout[x] + Pause) % Ticks)
    <3>1. /\ f \in Timers /\ x \in Timers /\ Near(timeout[f], tick, f) /\ Near(timeout[x], tick, x)
          /\ ~Later(timeout[f], timeout[x])
      BY <1>0, <2>2 DEF NearInv, NoneBefore
    <3> QED
      BY <1>0, <2>2, <3>1, DelayIsInTime
  <2> QED
    BY <2>1, <2>3 DEF SleepInv, SleepsInTime, Later
<1>4. CASE Tick
  <2>1. Linked' = Linked /\ timeout' = timeout /\ phase' = phase /\ cur' = cur
        /\ (pc' = "check" \/ UNCHANGED <<pc, wake>>)
        /\ tick' = (tick + 1) % Ticks /\ (pc = "delta" => (tick - cur) % Ticks < Pause)
    BY <1>4, QuietSteps DEF Tick, Quiet
  <2>2. CASE pc' = "check"
    BY <1>a, <2>2
  <2>3. CASE UNCHANGED <<pc, wake>> /\ pc # "delta"
    BY <2>1, <2>3 DEF SleepInv, SleepsInTime, NoneBefore, Later
  <2>4. CASE UNCHANGED <<pc, wake>> /\ pc = "delta"
    <3>1. PICK f \in Linked : wake = (timeout[f] - cur) % Ticks /\ NoneBefore(timeout[f])
                              /\ \E a \in 0..Pause : cur = (tick - a) % Ticks
      BY <2>4 DEF SleepInv
    <3>2. Pause \in Nat /\ Pause < Half
      BY TimerAssumption, HalfOfTicks DEF Headroom
    <3>3. \E a \in 0..Pause : cur = (tick' - a) % Ticks
      BY <1>0, <2>1, <2>4, <3>1, <3>2, CurAtNextTick
    <3>4. /\ f \in Linked' /\ wake' = (timeout'[f] - cur') % Ticks
          /\ \A x \in Linked' : ~Later(timeout'[f], timeout'[x])
      BY <2>1, <2>4, <3>1 DEF NoneBefore
    <3> QED
      BY <2>1, <2>4, <3>3, <3>4 DEF SleepInv, SleepsInTime, NoneBefore, Later
  <2> QED
    BY <2>1, <2>2, <2>3, <2>4
<1>5. ASSUME NEW x \in Timers, Start(x) \/ Stop(x) PROVE FALSE
  BY <1>5 DEF Start, Stop, MayCall
<1>6. ASSUME NEW c \in Interruptible, NEW x \in Timers, Withdraw(c, x) PROVE SleepInv'
  <2>1. list' = Removed(x) /\ UNCHANGED <<pc, wake>> /\ Runs(c) /\ phase[c] = "none"
    BY <1>0, <1>6, CallsMove DEF Withdraw, Phases
  <2>2. Linked' = Linked \ {x}
    BY <2>1, TakenOutLinks
  <2>3. \A y \in Linked' : timeout'[y] = timeout[y]
    BY <1>0, <1>6, <2>2 DEF Withdraw, TInv, TypeOK
  <2> QED
    BY <1>b, <1>c, <2>1, <2>2, <2>3 DEF Runs, Interruptible
<1>7. ASSUME NEW c \in Interruptible, Insert(c) PROVE SleepInv'
  <2>1. UNCHANGED <<pc, wake>> /\ Runs(c) /\ phase'[c] = "inserted"
    BY <1>0, <1>7, CallsMove DEF Insert, At, Phases
  <2>2. CASE c = "callback"
    BY <1>c, <2>1, <2>2 DEF Runs
  <2>3. CASE c = "below"
    BY <2>1, <2>3 DEF Runs, Waiting, SleepInv, SleepsInTime
  <2> QED
    BY <2>2, <2>3 DEF Interruptible
<1>8. ASSUME NEW c \in Interruptible, Awaken(c) PROVE SleepInv'
  BY <1>8, <1>a DEF Awaken, At, Runs, Resume, Interruptible, Waiting
<1>9. ASSUME NEW c \in Interruptible, NEW x \in Timers, StopCheck(c, x) PROVE SleepInv'
  <2>1. UNCHANGED <<pc, wake, timeout>> /\ Linked' = Linked /\ Runs(c) /\ phase[c] = "none"
    BY <1>0, <1>9, CallsMove DEF StopCheck, Phases, Linked, LinkedIn
  <2> QED
    BY <1>b, <1>c, <2>1 DEF Runs, Interruptible
<1>10. ASSUME NEW c \in Interruptible, StopRemove(c) \/ StopClear(c) PROVE SleepInv'
  <2>1. /\ UNCHANGED <<pc, wake, timeout>> /\ Linked' \subseteq Linked
        /\ Runs(c) /\ phase[c] # "inserted"
    BY <1>10, StopRemoveLinks DEF StopRemove, StopClear, At, Linked, LinkedIn
  <2> QED
    BY <1>b, <1>c, <2>1 DEF Runs, Interruptible
<1>11. CASE Check \/ Enter \/ Call \/ Leave \/ Return \/ Finish
  BY <1>a, <1>11 DEF Check, Enter, Call, Leave, Return, Finish
<1>12. CASE UNCHANGED vars
  <2>1. Linked' = Linked /\ UNCHANGED <<timeout, pc, wake, phase, cur, tick>>
    BY <1>12, QuietSteps DEF vars, Quiet
  <2> QED
    BY <2>1 DEF SleepInv, SleepsInTime, NoneBefore, Later
<1> QED
  BY <1>1, <1>2, <1>3, <1>4, <1>5, <1>6, <1>7, <1>8, <1>9, <1>10, <1>11, <1>12
     DEF Next, TimerThread, Proceed

\* The timer thread never sleeps past a timer, for every set of timers and
\* clock, if callbacks and threads below it start and stop timers, no timer has
\* two starters, every timeout leaves headroom and none falls on the tick that
\* stands for "no timer": it is woken by the time the first is due, later at most
\* by the ticks that came between its reading of the tick and the start of its
\* delay.  What is left to fairness is that ticks and threads go on.
THEOREM NeverSleepsPastATimer ==
    ASSUME OneStarter, "preempting" \notin Callers, Headroom, SleepRoom
    PROVE  Spec => NeverSleepsPast
<1>1. RInv /\ [Next]_vars => RInv'
  BY RingPreserved
<1>2. RInv /\ TInv /\ NearInv /\ [Next]_vars => NearInv'
  BY NearPreserved
<1>3. RInv /\ TInv /\ NearInv /\ OInv /\ [Next]_vars => OInv'
  BY OrderPreserved
<1>4. NobodyAtTickMax /\ RInv /\ TInv /\ NearInv /\ OInv /\ SleepInv /\ [Next]_vars => SleepInv'
  BY SleepPreserved
<1>5. Init => OInv /\ SleepInv
  BY OrderInitially DEF Init, SleepInv, SleepsInTime
<1>6. SleepInv => SleepsInTime
  BY DEF SleepInv
<1> QED
  BY <1>1, <1>2, <1>3, <1>4, <1>5, <1>6, RingInitially, TypesInitially, TypesPreserved,
     NearInitially, PTL DEF Spec, NeverSleepsPast

=============================================================================
