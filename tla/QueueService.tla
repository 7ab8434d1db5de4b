---------------------------- MODULE QueueService ----------------------------
(***************************************************************************)
(* What a message queue promises its callers, without blocks, wait lists,  *)
(* timeouts or interrupts: a sequence of messages of bounded size.  A put  *)
(* first claims room and later makes its message visible, at the tail or,  *)
(* urgent, at the head.  A get removes the head, keeps its room until the  *)
(* message is safely in the caller's hands and delivers exactly what was   *)
(* put.  A call may give up only before it has claimed or removed anything.*)
(***************************************************************************)
EXTENDS Naturals, Sequences, FiniteSets

CONSTANTS Thread, Msg, Capacity

VARIABLES
    visible,     \* the messages a get can find
    stage        \* per thread: how far its call has come

svars == <<visible, stage>>

Idle == [at |-> "idle"]
Blocked == [at |-> "blocked"]
Putting(m, urgent) == [at |-> "putting", msg |-> m, urgent |-> urgent]
Getting(m) == [at |-> "getting", msg |-> m]
Delivered(m) == [at |-> "delivered", msg |-> m]

InFlight == {t \in Thread : stage[t].at \in {"putting", "getting", "delivered"}}
Room == Capacity - Len(visible) - Cardinality(InFlight)

SInit == /\ visible = <<>>
         /\ stage = [t \in Thread |-> Idle]

Becomes(t, s) == stage' = [stage EXCEPT ![t] = s]
Uncommitted(t) == stage[t] \in {Idle, Blocked}

Block(t) == stage[t] = Idle /\ Becomes(t, Blocked) /\ UNCHANGED visible
GiveUp(t) == stage[t] = Blocked /\ Becomes(t, Idle) /\ UNCHANGED visible

Claim(t) ==
    /\ Uncommitted(t) /\ Room > 0
    /\ \E m \in Msg, urgent \in BOOLEAN : Becomes(t, Putting(m, urgent))
    /\ UNCHANGED visible

Publish(t) ==
    /\ stage[t].at = "putting"
    /\ visible' = IF stage[t].urgent THEN <<stage[t].msg>> \o visible
                                     ELSE Append(visible, stage[t].msg)
    /\ Becomes(t, Idle)

Remove(t) ==
    /\ Uncommitted(t) /\ visible # <<>>
    /\ Becomes(t, Getting(Head(visible)))
    /\ visible' = Tail(visible)

Deliver(t) ==
    /\ stage[t].at = "getting"
    /\ Becomes(t, Delivered(stage[t].msg))
    /\ UNCHANGED visible

GiveBack(t) == stage[t].at = "delivered" /\ Becomes(t, Idle) /\ UNCHANGED visible

Discard == visible' = <<>> /\ UNCHANGED stage

SNext == \/ \E t \in Thread : \/ Block(t) \/ GiveUp(t) \/ Claim(t) \/ Publish(t)
                              \/ Remove(t) \/ Deliver(t) \/ GiveBack(t)
         \/ Discard

SSpec == SInit /\ [][SNext]_svars
=============================================================================
