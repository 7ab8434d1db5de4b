------------------------ MODULE CameraPipelineProofs ------------------------
(***************************************************************************)
(* Theorems about the camera pipeline for every window, wrap, queue size   *)
(* and number of camera_sample calls.  The capture properties need only    *)
(* the types; the averages rest on the sums, which follow u and t modulo   *)
(* the window, through the restarts.                                       *)
(* Last, the safety half of FramesKeepFlowing: once a capture was started, *)
(* something is always on its way that will start the next.                *)
(***************************************************************************)
EXTENDS CameraPipeline, Integers, TLAPS

\* A number has one remainder.
LEMMA QuotientUnique ==
  ASSUME NEW W \in Nat \ {0}, NEW q \in Int, NEW p \in Int, NEW r \in 0..W-1, NEW s \in 0..W-1,
         W*q + r = W*p + s
  PROVE r = s
<1>1. CASE q > p
  <2>1. q - p >= 1 BY <1>1
  <2>2. W * (q - p) >= W BY <2>1
  <2>3. W * (q - p) = s - r BY SMT
  <2> QED BY <2>2, <2>3
<1>2. CASE p > q
  <2>1. p - q >= 1 BY <1>2
  <2>2. W * (p - q) >= W BY <2>1
  <2>3. W * (p - q) = r - s BY SMT
  <2> QED BY <2>2, <2>3
<1>3. CASE p = q BY <1>3
<1> QED BY <1>1, <1>2, <1>3

\* What the provers know of quotient and remainder.
LEMMA Division ==
  ASSUME NEW W \in Nat \ {0}, NEW n \in Nat
  PROVE /\ n % W \in 0..W-1 /\ n \div W \in Int
        /\ n = W * (n \div W) + (n % W)
 OBVIOUS

\* The remainder of the next number: it grows by one or starts again.
LEMMA ModStep ==
  ASSUME NEW W \in Nat \ {0}, NEW n \in Nat
  PROVE (n + 1) % W = IF (n % W) + 1 = W THEN 0 ELSE (n % W) + 1
<1> DEFINE q == n \div W
           r == n % W
           p == (n + 1) \div W
           s == (n + 1) % W
<1>1. r \in 0..W-1 /\ q \in Int /\ n = W * q + r
  BY Division
<1>2. s \in 0..W-1 /\ p \in Int /\ n + 1 = W * p + s
  BY n+1 \in Nat, Division
<1> HIDE DEF q, r, p, s
<1>3. CASE r + 1 = W
  <2>1. W * (q + 1) + 0 = W * p + s BY <1>1, <1>2, <1>3
  <2> QED BY <2>1, QuotientUnique, <1>1, <1>2, q + 1 \in Int, 0 \in 0..W-1, <1>3 DEF r, s
<1>4. CASE r + 1 # W
  <2>1. W * q + (r + 1) = W * p + s BY <1>1, <1>2
  <2>2. r + 1 \in 0..W-1 BY <1>1, <1>4
  <2> QED BY <2>1, <2>2, QuotientUnique, <1>1, <1>2, <1>4 DEF r, s
<1> QED BY <1>3, <1>4

-----------------------------------------------------------------------------
\* The sums follow the counters, and the counters restart in time.
SumsFollow ==
    /\ AveragesOverWindow
    /\ t = 0 => sumT = 0
    /\ u - sumU <= Wrap
    /\ t - 1 - sumT <= Wrap

\* Between two analyses pre_u is u.
IInv == TypeOK /\ SumsFollow /\ preU = u /\ CountsMisses

USE PipelineAssumption

\* What one analysis does to the obstacle's counter and sum.
LEMMA ObstacleStep ==
    ASSUME IInv, Obstacle
    PROVE  /\ t' \in 0..Wrap + Window /\ sumT' \in 0..Window - 1
           /\ divT' \in {1, Window} \/ divT' = divT
           /\ t' > 0 /\ sumT' = (t' - 1) % Window
           /\ t' - 1 - sumT' <= Wrap
<1>1. /\ t \in Nat /\ sumT \in 0..Window - 1 /\ t - 1 - sumT <= Wrap
      /\ t > 0 => sumT = (t - 1) % Window
      /\ t = 0 => sumT = 0
      /\ Window \in Nat \ {0} /\ Wrap \in Nat \ {0}
  BY DEF IInv, TypeOK, SumsFollow, AveragesOverWindow
<1>2. t > 0 => t % Window = IF sumT + 1 = Window THEN 0 ELSE sumT + 1
  <2> SUFFICES ASSUME t > 0 PROVE t % Window = IF sumT + 1 = Window THEN 0 ELSE sumT + 1
    OBVIOUS
  <2>1. t - 1 \in Nat /\ t = (t - 1) + 1
    BY <1>1
  <2>2. (t - 1 + 1) % Window = IF ((t - 1) % Window) + 1 = Window THEN 0 ELSE ((t - 1) % Window) + 1
    BY <2>1, <1>1, ModStep
  <2> QED
    BY <2>1, <2>2, <1>1
<1>3. 0 % Window = 0
  <2>1. 0 % Window \in 0..Window - 1 /\ 0 \div Window \in Int
        /\ 0 = Window * (0 \div Window) + (0 % Window)
    BY <1>1, Division
  <2>2. 0 = Window * 0 + 0
    BY <1>1
  <2> QED
    BY <2>1, <2>2, <1>1, QuotientUnique
<1>4. CASE t % Window = 0
  <2>1. sumT' = 0 /\ divT' = sumT + 1 /\ t' = IF t > Wrap THEN 1 ELSE t + 1
    BY <1>4 DEF Obstacle
  <2>2. divT' \in {1, Window}
    BY <2>1, <1>1, <1>2, <1>4
  <2>3. t' - 1 = 0 \/ t' - 1 = t
    BY <2>1, <1>1
  <2> QED
    BY <2>1, <2>2, <2>3, <1>1, <1>3, <1>4
<1>5. CASE t % Window # 0
  <2>1. sumT' = sumT + 1 /\ divT' = divT /\ t' = t + 1 /\ t > 0
    BY <1>1, <1>3, <1>5 DEF Obstacle
  <2>2. t' - 1 = t /\ t % Window = sumT + 1 /\ sumT + 1 # Window
    BY <2>1, <1>1, <1>2, <1>5
  <2> QED
    BY <2>1, <2>2, <1>1
<1> QED
  BY <1>4, <1>5

\* What one analysis does to the target's counter and sum: u always changes.
LEMMA TargetStep ==
    ASSUME IInv, Target
    PROVE  /\ u' \in 0..Wrap + Window /\ sumU' \in 0..Window - 1
           /\ divU' = Window \/ divU' = divU
           /\ sumU' = u' % Window /\ u' - sumU' <= Wrap
           /\ u' # u
<1>1. /\ u \in Nat /\ sumU \in 0..Window - 1 /\ u - sumU <= Wrap
      /\ sumU = u % Window
      /\ Window \in Nat \ {0} /\ Wrap \in Nat \ {0}
  BY DEF IInv, TypeOK, SumsFollow, AveragesOverWindow
<1>2. (u + 1) % Window = IF sumU + 1 = Window THEN 0 ELSE sumU + 1
  BY <1>1, ModStep
<1>3. 0 % Window = 0
  <2>1. 0 % Window \in 0..Window - 1 /\ 0 \div Window \in Int
        /\ 0 = Window * (0 \div Window) + (0 % Window)
    BY <1>1, Division
  <2>2. 0 = Window * 0 + 0
    BY <1>1
  <2> QED
    BY <2>1, <2>2, <1>1, QuotientUnique
<1>4. CASE (u + 1) % Window = 0
  <2>1. sumU' = 0 /\ divU' = sumU + 1 /\ u' = IF u + 1 > Wrap THEN 0 ELSE u + 1
    BY <1>4 DEF Target
  <2>2. divU' = Window
    BY <2>1, <1>1, <1>2, <1>4
  <2>3. u' % Window = 0
    BY <2>1, <1>3, <1>4
  <2> QED
    BY <2>1, <2>2, <2>3, <1>1
<1>5. CASE (u + 1) % Window # 0
  <2>1. sumU' = sumU + 1 /\ divU' = divU /\ u' = u + 1
    BY <1>5 DEF Target
  <2> QED
    BY <2>1, <1>1, <1>2, <1>5
<1> QED
  BY <1>4, <1>5

\* Missing, when u has changed and when it has not.
LEMMA MissingStep ==
    ASSUME IInv, Missing, u' \in 0..Wrap + Window
    PROVE  /\ preU' = u' /\ queued' \in 0..QueueSize
           /\ u' # u => count' = 0
           /\ u' = u => count' = (count + 1) % LostAfter
<1>1. preU = u /\ queued \in 0..QueueSize
  BY DEF IInv, TypeOK
<1> QED
  BY <1>1 DEF Missing

LEMMA Preserved == IInv /\ [Next]_vars => IInv'
<1> SUFFICES ASSUME IInv, [Next]_vars PROVE IInv'
  OBVIOUS
<1> USE DEF camera, report, vars
<1>1. CASE UNCHANGED vars
  BY <1>1 DEF IInv, TypeOK, SumsFollow, AveragesOverWindow, CountsMisses
<1>2. CASE FrameISR
  <2>0. pc \in {"recv", "blocked", "show", "analyse", "restart", "delay"}
        /\ event \in BOOLEAN /\ fb \in {0, 1}
    BY DEF IInv, TypeOK
  <2>a. UNCHANGED <<samples, report>> /\ capturing' = FALSE /\ fb' \in {0, 1}
    BY <1>2, <2>0 DEF FrameISR, Stop
  <2>b. pc' \in {"recv", "blocked", "show", "analyse", "restart", "delay"}
    BY <1>2, <2>0 DEF FrameISR, Send
  <2>c. event' \in BOOLEAN
    BY <1>2, <2>0 DEF FrameISR, Send
  <2>1. UNCHANGED <<samples, report>> /\ capturing' = FALSE /\ fb' \in {0, 1}
        /\ event' \in BOOLEAN /\ pc' \in {"recv", "blocked", "show", "analyse", "restart", "delay"}
    BY <2>a, <2>b, <2>c
  <2> QED
    BY <2>1 DEF IInv, TypeOK, SumsFollow, AveragesOverWindow, CountsMisses
<1>3. CASE CameraSample
  <2>1. UNCHANGED <<fb, event, pc, report>> /\ capturing' = TRUE /\ samples' \in 0..MaxSamples
    BY <1>3 DEF CameraSample, Start, IInv, TypeOK
  <2> QED
    BY <2>1 DEF IInv, TypeOK, SumsFollow, AveragesOverWindow, CountsMisses
<1>4. CASE RecvEvent \/ Show \/ Restart \/ Wake
  <2>1. UNCHANGED <<fb, samples, report>> /\ capturing' \in BOOLEAN /\ event' \in BOOLEAN
        /\ pc' \in {"recv", "blocked", "show", "analyse", "restart", "delay"}
    BY <1>4 DEF RecvEvent, Show, Restart, Wake, Start, IInv, TypeOK
  <2> QED
    BY <2>1 DEF IInv, TypeOK, SumsFollow, AveragesOverWindow, CountsMisses
<1>5. CASE Analyse
  <2>1. Missing /\ UNCHANGED camera /\ pc' = "restart"
    BY <1>5 DEF Analyse
  <2>2. /\ t' \in 0..Wrap + Window /\ sumT' \in 0..Window - 1
        /\ divT' \in {1, Window} \/ divT' = divT
        /\ t' > 0 => sumT' = (t' - 1) % Window
        /\ t' = 0 => sumT' = 0
        /\ t' - 1 - sumT' <= Wrap
    <3>1. CASE Obstacle
      <4>1. t' \in Nat /\ t' > 0
        BY <3>1, ObstacleStep
      <4> QED
        BY <3>1, <4>1, ObstacleStep
    <3>2. CASE UNCHANGED <<t, sumT, divT>>
      BY <3>2 DEF IInv, TypeOK, SumsFollow, AveragesOverWindow
    <3> QED
      BY <1>5, <3>1, <3>2 DEF Analyse
  <2>3. /\ u' \in 0..Wrap + Window /\ sumU' \in 0..Window - 1
        /\ divU' = Window \/ divU' = divU
        /\ sumU' = u' % Window /\ u' - sumU' <= Wrap
        /\ \/ u' # u /\ unseen' = 0
           \/ u' = u /\ unseen' = (unseen + 1) % LostAfter
    <3>1. CASE Target /\ unseen' = 0
      BY <3>1, TargetStep
    <3>2. CASE UNCHANGED <<u, sumU, divU>> /\ unseen' = (unseen + 1) % LostAfter
      BY <3>2 DEF IInv, TypeOK, SumsFollow, AveragesOverWindow
    <3> QED
      BY <1>5, <3>1, <3>2 DEF Analyse
  <2>4. preU' = u' /\ queued' \in 0..QueueSize /\ count' = unseen'
    BY <2>1, <2>3, MissingStep DEF IInv, CountsMisses
  <2>5. unseen' \in 0..LostAfter - 1
    <3>1. unseen + 1 \in Nat
      BY DEF IInv, TypeOK
    <3>2. (unseen + 1) % LostAfter \in 0..LostAfter - 1
      BY <3>1, Division
    <3> QED
      BY <2>3, <3>2
  <2>6. TypeOK'
    <3>1. divT' \in 0..Window /\ divU' \in 0..Window
      BY <2>2, <2>3 DEF IInv, TypeOK
    <3>2. capturing' \in BOOLEAN /\ event' \in BOOLEAN /\ fb' \in {0, 1}
      BY <2>1 DEF IInv, TypeOK
    <3>3. samples' \in 0..MaxSamples
      BY <2>1 DEF IInv, TypeOK
    <3> QED
      BY <2>1, <2>2, <2>3, <2>4, <2>5, <3>1, <3>2, <3>3 DEF TypeOK
  <2>7. SumsFollow'
    BY <2>2, <2>3 DEF IInv, SumsFollow, AveragesOverWindow
  <2> QED
    BY <2>4, <2>6, <2>7 DEF IInv, CountsMisses
<1> QED
  BY <1>1, <1>2, <1>3, <1>4, <1>5 DEF Next, Thread

LEMMA Initially == Init => IInv
<1>1. 0 % Window = 0
  <2>1. 0 % Window \in 0..Window - 1 /\ 0 \div Window \in Int
        /\ 0 = Window * (0 \div Window) + (0 % Window)
    BY Division
  <2>2. 0 = Window * 0 + 0
    OBVIOUS
  <2> QED
    BY <2>1, <2>2, QuotientUnique
<1>2. Init => capturing \in BOOLEAN /\ event \in BOOLEAN
  BY DEF Init
<1>3. 0 \in 0..MaxSamples /\ 0 \in 0..QueueSize /\ 0 \in 0..Window
      /\ 0 \in 0..Window - 1 /\ 0 \in 0..LostAfter - 1 /\ 0 \in 0..Wrap + Window
  OBVIOUS
<1>4. Init => TypeOK
  BY <1>2, <1>3 DEF Init, TypeOK
<1> QED
  BY <1>1, <1>4 DEF Init, IInv, SumsFollow, AveragesOverWindow, CountsMisses

-----------------------------------------------------------------------------
\* One permission to fill the framebuffer circulates per camera_sample.
FInv == TypeOK /\ OneFramePerSample

LEMMA FramesPreserved == FInv /\ TypeOK' /\ [Next]_vars => FInv'
<1> SUFFICES ASSUME FInv, TypeOK', [Next]_vars PROVE OneFramePerSample'
  BY DEF FInv
<1> USE DEF camera, report, vars, One, Busy
<1>1. samples \in Nat
  BY DEF FInv, TypeOK
<1>2. CASE UNCHANGED vars
  BY <1>2 DEF FInv, OneFramePerSample
<1>3. CASE FrameISR
  <2>1. capturing /\ ~capturing' /\ samples' = samples
    BY <1>3 DEF FrameISR, Stop
  <2>2. CASE pc = "blocked"
    BY <1>1, <1>3, <2>1, <2>2 DEF FrameISR, Send, FInv, OneFramePerSample
  <2>3. CASE pc # "blocked"
    BY <1>1, <1>3, <2>1, <2>3 DEF FrameISR, Send, FInv, OneFramePerSample
  <2> QED
    BY <2>2, <2>3
<1>4. CASE CameraSample
  BY <1>1, <1>4 DEF CameraSample, Start, FInv, OneFramePerSample
<1>5. CASE RecvEvent
  BY <1>1, <1>5 DEF RecvEvent, FInv, OneFramePerSample
<1>6. CASE Show
  BY <1>1, <1>6 DEF Show, FInv, OneFramePerSample
<1>7. CASE Analyse
  BY <1>1, <1>7 DEF Analyse, FInv, OneFramePerSample
<1>8. CASE Restart
  BY <1>1, <1>8 DEF Restart, Start, FInv, OneFramePerSample
<1>9. CASE Wake
  BY <1>1, <1>9 DEF Wake, FInv, OneFramePerSample
<1> QED
  BY <1>2, <1>3, <1>4, <1>5, <1>6, <1>7, <1>8, <1>9 DEF Next, Thread

LEMMA FramesInitially == Init => OneFramePerSample
  BY DEF Init, OneFramePerSample, One, Busy

\* Only the interrupt writes the framebuffer, and it needs the permission the
\* thread has while it reads.
LEMMA NotWhileRead ==
    FInv /\ [Next]_vars
        => [samples <= 1 /\ pc \in {"show", "analyse"} => UNCHANGED fb]_vars
<1> SUFFICES ASSUME FInv, [Next]_vars, samples <= 1, pc \in {"show", "analyse"}
             PROVE  UNCHANGED fb
  BY Zenon
<1>1. ~capturing
  BY DEF FInv, TypeOK, OneFramePerSample, One, Busy
<1> QED
  BY <1>1 DEF Next, Thread, FrameISR, CameraSample, RecvEvent, Show, Analyse, Restart, Wake,
              camera, report, vars

\* For every number of camera_sample calls there is never more than one frame
\* in the works for each.
THEOREM FramesAreBounded == Spec => []OneFramePerSample
<1>1. IInv => TypeOK
  BY DEF IInv
<1>2. TypeOK /\ OneFramePerSample <=> FInv
  BY DEF FInv
<1> QED
  BY <1>1, <1>2, Initially, Preserved, FramesInitially, FramesPreserved, PTL DEF Spec

\* Started once, the camera never tears an image being shown or analysed.
THEOREM ImagesAreNotTorn == Spec => NoTear
<1>1. IInv => TypeOK
  BY DEF IInv
<1>2. TypeOK /\ OneFramePerSample <=> FInv
  BY DEF FInv
<1> QED
  BY <1>1, <1>2, Initially, Preserved, FramesAreBounded, NotWhileRead, PTL DEF Spec, NoTear

\* For every window, wrap and queue the counters of the analysis stay within
\* a window of where they restart, and mq within its pool.
THEOREM TypesHold == Spec => []TypeOK
<1>1. IInv => TypeOK
  BY DEF IInv
<1> QED
  BY <1>1, Initially, Preserved, PTL DEF Spec

\* For every window and restart value the averages are of exactly Window
\* samples, but for the first one of the obstacle.
THEOREM AveragesAreWhole == Spec => []AveragesOverWindow
<1>1. IInv => AveragesOverWindow
  BY DEF IInv, SumsFollow
<1> QED
  BY <1>1, Initially, Preserved, PTL DEF Spec

\* For every threshold, count is the number of images without target: urgent
\* messages come after LostAfter misses.
THEOREM MissesAreCounted == Spec => []CountsMisses
<1>1. IInv => CountsMisses
  BY DEF IInv
<1> QED
  BY <1>1, Initially, Preserved, PTL DEF Spec
-----------------------------------------------------------------------------
\* What FramesKeepFlowing rests on: once started, the permission is never lost.
FrameInWorks == samples > 0 => capturing \/ event \/ Busy

\* A thread that waits for the event has not overlooked it.
NoEventMissed == pc = "blocked" => ~event

\* Whenever the camera thread waits for a frame, one is being captured.
NeverStalls == samples > 0 /\ pc = "blocked" => capturing

LEMMA PermissionKept ==
    TypeOK /\ FrameInWorks /\ NoEventMissed /\ [Next]_vars => FrameInWorks' /\ NoEventMissed'
<1> SUFFICES ASSUME TypeOK, FrameInWorks, NoEventMissed, [Next]_vars
             PROVE  FrameInWorks' /\ NoEventMissed'
  OBVIOUS
<1> USE DEF camera, report, vars, Busy, FrameInWorks, NoEventMissed
<1>1. CASE UNCHANGED vars
  BY <1>1
<1>2. CASE FrameISR
  <2>1. event' \/ pc' = "show"
    BY <1>2 DEF FrameISR, Send
  <2>2. pc' = "blocked" => event' = event /\ pc # "blocked"
    BY <1>2 DEF FrameISR, Send
  <2>3. pc' # "blocked"
    BY <1>2 DEF FrameISR, Send
  <2> QED
    BY <2>1, <2>3
<1>3. CASE CameraSample
  BY <1>3 DEF CameraSample, Start
<1>4. CASE RecvEvent
  BY <1>4 DEF RecvEvent
<1>5. CASE Show
  BY <1>5 DEF Show
<1>6. CASE Analyse
  BY <1>6 DEF Analyse
<1>7. CASE Restart
  BY <1>7 DEF Restart, Start
<1>8. CASE Wake
  BY <1>8 DEF Wake
<1> QED
  BY <1>1, <1>2, <1>3, <1>4, <1>5, <1>6, <1>7, <1>8 DEF Next, Thread

\* However often camera_sample is typed, and wherever the interrupt comes, the
\* camera thread never waits for a frame while no capture is on: DCMI_Stop in
\* the interrupt always finds its DCMI_Start.  This is the safety half of
\* FramesKeepFlowing; the rest is that frames complete.
THEOREM CameraNeverStalls == Spec => []NeverStalls
<1>1. Init => FrameInWorks /\ NoEventMissed
  BY DEF Init, FrameInWorks, NoEventMissed
<1>2. IInv => TypeOK
  BY DEF IInv
<1>3. FrameInWorks /\ NoEventMissed => NeverStalls
  BY DEF FrameInWorks, NoEventMissed, NeverStalls, Busy
<1> QED
  BY <1>1, <1>2, <1>3, Initially, Preserved, PermissionKept, PTL DEF Spec

=============================================================================
