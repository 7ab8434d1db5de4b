---------------------------- MODULE EventService ----------------------------
(***************************************************************************)
(* What an event object promises its callers, without wait lists, time-    *)
(* outs, priorities or the order in which a send looks at the waiters: a   *)
(* set of bits.  A thread asks for all or any of some bits, is answered at *)
(* once or later with bits that really are there, and takes them away with *)
(* it if it asked to.  A bit sent once goes to at most one who takes it    *)
(* away, and nobody goes on waiting for what is there.  Nothing is said of *)
(* when an answer comes, nor that one comes to who meets a detach.         *)
(***************************************************************************)
EXTENDS FiniteSets

CONSTANTS Thread, Bit

VARIABLES
    set,         \* the bits that are there
    phase,       \* per thread: idle, asked, answered and not yet back
    asks,        \* what a thread asked for, while it is unanswered
    answer       \* the last answer of each thread; no bits: none

svars == <<set, phase, asks, answer>>

Requests == [want : (SUBSET Bit) \ {{}}, all : BOOLEAN, clear : BOOLEAN]
Nothing == [want |-> {}, all |-> FALSE, clear |-> FALSE]

Met(s, r) == IF r.all THEN r.want \subseteq s ELSE r.want \cap s # {}

SInit == /\ set = {}
         /\ phase = [t \in Thread |-> "idle"]
         /\ asks = [t \in Thread |-> Nothing]
         /\ answer = [t \in Thread |-> {}]

Asked == {t \in Thread : phase[t] = "asked"}

Answered(T) ==
    /\ phase' = [t \in Thread |-> IF t \in T THEN "answered" ELSE phase[t]]
    /\ asks' = [t \in Thread |-> IF t \in T THEN Nothing ELSE asks[t]]

AnswerAtOnce(t, r) ==
    /\ Met(set, r)
    /\ answer' = [answer EXCEPT ![t] = r.want \cap set]
    /\ set' = IF r.clear THEN set \ r.want ELSE set
    /\ UNCHANGED <<phase, asks>>

Refuse(t, r) ==
    /\ ~Met(set, r)
    /\ answer' = [answer EXCEPT ![t] = {}]
    /\ UNCHANGED <<set, phase, asks>>

KeepWaiting(t, r) ==
    /\ ~Met(set, r)
    /\ phase' = [phase EXCEPT ![t] = "asked"]
    /\ asks' = [asks EXCEPT ![t] = r]
    /\ answer' = [answer EXCEPT ![t] = {}]
    /\ UNCHANGED set

Ask(t, r) ==
    /\ phase[t] = "idle"
    /\ AnswerAtOnce(t, r) \/ Refuse(t, r) \/ KeepWaiting(t, r)

\* Those of T get their answers, each bit to one of them at most if taken away.
Serve(T, there) ==
    LET takers == {t \in T : asks[t].clear}
    IN  /\ \A t \in Thread :
              IF t \in T
              THEN /\ answer'[t] \subseteq asks[t].want \cap there
                   /\ Met(answer'[t], asks[t])
              ELSE answer'[t] = answer[t]
        /\ \A t, u \in takers : t # u => answer'[t] \cap answer'[u] = {}
        /\ set' = there \ UNION {answer'[t] : t \in takers}

Send(s) ==
    \E T \in SUBSET Asked :
        /\ answer' \in [Thread -> SUBSET Bit]
        /\ Serve(T, set \cup s)
        /\ \A t \in Asked \ T : ~Met(set', asks[t])
        /\ Answered(T)

GiveUp(t) ==
    /\ phase[t] = "asked"
    /\ answer' = [answer EXCEPT ![t] = {}]
    /\ Answered({t})
    /\ UNCHANGED set

\* Everybody gives up and the bits are gone.
Clear ==
    /\ answer' = [t \in Thread |-> IF t \in Asked THEN {} ELSE answer[t]]
    /\ Answered(Asked)
    /\ set' = {}

GoBack(t) ==
    /\ phase[t] = "answered"
    /\ phase' = [phase EXCEPT ![t] = "idle"]
    /\ UNCHANGED <<set, asks, answer>>

SNext ==
    \/ \E t \in Thread, r \in Requests : Ask(t, r)
    \/ \E s \in (SUBSET Bit) \ {{}} : Send(s)
    \/ \E t \in Thread : GiveUp(t) \/ GoBack(t)
    \/ Clear

SSpec == SInit /\ [][SNext]_svars
=============================================================================
