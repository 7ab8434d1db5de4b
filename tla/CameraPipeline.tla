--------------------------- MODULE CameraPipeline ---------------------------
(***************************************************************************)
(* The vision half of the robot: the capture and its frame interrupt, the  *)
(* camera thread that shows and analyses each frame, the shell command     *)
(* that starts the capture, and what the analysis reports.                 *)
(*                                                                         *)
(* The camera thread (priority 12) outranks the shell (20) and busy-waits  *)
(* for the display, so the shell runs only while the thread waits for a    *)
(* frame or sleeps; the interrupt may come whenever a capture is on.       *)
(* Whether an image holds the target or the obstacle is up to the image.   *)
(***************************************************************************)
EXTENDS Naturals

CONSTANTS
    Window,      \* samples per average: 10
    LostAfter,   \* analyses without target before an urgent message: 50
    Wrap,        \* u and t restart once they exceed this: 10000
    QueueSize,   \* blocks in mq: 170
    MaxSamples   \* bound on how often camera_sample is typed

ASSUME PipelineAssumption ==
    /\ Window \in Nat \ {0} /\ LostAfter \in Nat \ {0} /\ Wrap \in Nat \ {0}
    /\ QueueSize \in Nat /\ MaxSamples \in Nat

VARIABLES
    capturing,   \* DCMI_CR_CAPTURE and the DMA stream are on
    fb,          \* which of two images the framebuffer holds: flips per write
    event,       \* bit 0 of ov2640_event
    pc,          \* the camera thread
    samples,     \* camera_sample calls so far
    t, u,        \* analyses that saw the obstacle, the target, wrapped
    sumT, sumU,  \* samples added up in sum[4..7] (obstacle), sum[0..3] (target)
    divT, divU,  \* how many samples the latest average of each divided by 10
    preU, count, \* u at the last analysis, analyses since it changed
    unseen,      \* images since the target was seen, modulo LostAfter; not in
                 \* the code, only for a property
    queued       \* urgent messages in mq; no code of the project receives them

camera == <<capturing, fb, event, samples>>
report == <<t, u, sumT, sumU, divT, divU, preU, count, unseen, queued>>
vars == <<camera, pc, report>>

Init ==
    /\ capturing = FALSE /\ event = FALSE /\ fb = 0 /\ samples = 0
    /\ pc = "recv"
    /\ t = 0 /\ u = 0 /\ preU = 0 /\ count = 0 /\ unseen = 0 /\ queued = 0
    /\ sumT = 0 /\ sumU = 0 /\ divT = 0 /\ divU = 0

-----------------------------------------------------------------------------
\* DCMI_Start, DCMI_Stop.
Start == capturing' = TRUE

\* Mutant: the interrupt leaves the capture running.
StopForgotten == UNCHANGED capturing

Stop == capturing' = FALSE

\* Mutant: a frame is announced only to a thread that waits for it.
SendIfWaiting ==
    /\ pc' = IF pc = "blocked" THEN "show" ELSE pc
    /\ UNCHANGED event

\* rt_event_send(&ov2640_event, 1): a waiting thread takes the bit at once.
Send == IF pc = "blocked" THEN pc' = "show" /\ UNCHANGED event
                          ELSE event' = TRUE /\ UNCHANGED pc

\* The frame interrupt: stop, convert the image into the framebuffer, announce.
FrameISR ==
    /\ capturing
    /\ Stop
    /\ fb' = 1 - fb
    /\ Send
    /\ UNCHANGED <<samples, report>>

\* The shell: camera_sample reprograms the sensor and starts the capture.
CameraSample ==
    /\ pc \in {"blocked", "delay"} /\ samples < MaxSamples
    /\ samples' = samples + 1
    /\ Start
    /\ UNCHANGED <<fb, event, pc, report>>

\* Mutant: the event is received without RT_EVENT_FLAG_CLEAR.
NotCleared ==
    /\ pc = "recv"
    /\ pc' = IF event THEN "show" ELSE "blocked"
    /\ UNCHANGED <<camera, report>>

\* rt_event_recv(..., RT_EVENT_FLAG_AND | RT_EVENT_FLAG_CLEAR, forever, ...).
RecvEvent ==
    /\ pc = "recv"
    /\ event' = FALSE
    /\ pc' = IF event THEN "show" ELSE "blocked"
    /\ UNCHANGED <<capturing, fb, samples, report>>

\* RTGRAPHIC_CTRL_RECT_UPDATE reads the framebuffer for the display.
Show == pc = "show" /\ pc' = "analyse" /\ UNCHANGED <<camera, report>>

\* The obstacle, found: the test comes before t++.
Obstacle ==
    IF t % Window = 0
    THEN /\ t' = IF t > Wrap THEN 1 ELSE t + 1
         /\ sumT' = 0 /\ divT' = sumT + 1
    ELSE t' = t + 1 /\ sumT' = sumT + 1 /\ UNCHANGED divT

\* Mutant: u restarts on its own, without an average.
WrapsAnywhere ==
    IF (u + 1) % Window = 0
    THEN u' = u + 1 /\ sumU' = 0 /\ divU' = sumU + 1
    ELSE /\ u' = IF u + 1 > Wrap THEN 0 ELSE u + 1
         /\ sumU' = sumU + 1 /\ UNCHANGED divU

\* The target, found: the test comes after u++.
Target ==
    IF (u + 1) % Window = 0
    THEN /\ u' = IF u + 1 > Wrap THEN 0 ELSE u + 1
         /\ sumU' = 0 /\ divU' = sumU + 1
    ELSE u' = u + 1 /\ sumU' = sumU + 1 /\ UNCHANGED divU

\* Mutant: the count goes on when the target is back.
CountKept ==
    IF preU # u' THEN preU' = u' /\ UNCHANGED <<count, queued>>
    ELSE /\ UNCHANGED preU
         /\ count' = (count + 1) % LostAfter
         /\ queued' = IF count + 1 = LostAfter /\ queued < QueueSize
                      THEN queued + 1 ELSE queued

\* Mutant: a full mq is not noticed.
QueueOverrun ==
    IF preU # u' THEN preU' = u' /\ count' = 0 /\ UNCHANGED queued
    ELSE /\ UNCHANGED preU
         /\ count' = (count + 1) % LostAfter
         /\ queued' = IF count + 1 = LostAfter THEN queued + 1 ELSE queued

\* Whether the target was seen is read off u; rt_mq_urgent fails on a full mq.
Missing ==
    IF preU # u' THEN preU' = u' /\ count' = 0 /\ UNCHANGED queued
    ELSE /\ UNCHANGED preU
         /\ count' = (count + 1) % LostAfter
         /\ queued' = IF count + 1 = LostAfter /\ queued < QueueSize
                      THEN queued + 1 ELSE queued

\* Feature_Recognize_Start_Phoenix.
Analyse ==
    /\ pc = "analyse"
    /\ pc' = "restart"
    /\ Obstacle \/ UNCHANGED <<t, sumT, divT>>
    /\ \/ Target /\ unseen' = 0
       \/ UNCHANGED <<u, sumU, divU>> /\ unseen' = (unseen + 1) % LostAfter
    /\ Missing
    /\ UNCHANGED camera

Restart ==
    /\ pc = "restart"
    /\ pc' = "delay"
    /\ Start
    /\ UNCHANGED <<fb, event, samples, report>>

\* rt_thread_mdelay(10) is over.
Wake == pc = "delay" /\ pc' = "recv" /\ UNCHANGED <<camera, report>>

Thread == RecvEvent \/ Show \/ Analyse \/ Restart \/ Wake

Next == FrameISR \/ CameraSample \/ Thread

Spec == Init /\ [][Next]_vars

\* The sensor completes a frame while it is asked to, the camera thread is
\* the most urgent one of the application and its sleep ends.  Whoever holds
\* the board types camera_sample or not: no fairness for CameraSample.
FairSpec == Spec /\ WF_vars(FrameISR) /\ WF_vars(Thread)

-----------------------------------------------------------------------------
\* Types.  mq never holds more than its pool, though nobody empties it, and
\* the counters stay within a window of the point where they restart.
TypeOK ==
    /\ capturing \in BOOLEAN /\ event \in BOOLEAN /\ fb \in {0, 1}
    /\ pc \in {"recv", "blocked", "show", "analyse", "restart", "delay"}
    /\ samples \in 0..MaxSamples
    /\ t \in 0..Wrap + Window /\ u \in 0..Wrap + Window
    /\ sumT \in 0..Window - 1 /\ sumU \in 0..Window - 1
    /\ divT \in 0..Window /\ divU \in 0..Window
    /\ preU \in 0..Wrap + Window
    /\ count \in 0..LostAfter - 1 /\ unseen \in 0..LostAfter - 1
    /\ queued \in 0..QueueSize

One(b) == IF b THEN 1 ELSE 0
Busy == pc \in {"show", "analyse", "restart"}

\* One frame is in the works for each camera_sample: being captured, announced
\* or in the hands of the thread.  DCMI_Stop in the interrupt and DCMI_Start
\* in the thread keep passing the same permission to and fro.
OneFramePerSample == One(capturing) + One(event) + One(Busy) <= samples

\* Once started, the interrupt never writes the framebuffer while the thread
\* shows or analyses it; a second camera_sample ends this guarantee.
NoTear == [][samples <= 1 /\ pc \in {"show", "analyse"} => UNCHANGED fb]_vars

\* Each average is taken over Window samples, restarts of u and t included,
\* except that the first obstacle is averaged alone.
AveragesOverWindow ==
    /\ sumU = u % Window
    /\ t > 0 => sumT = (t - 1) % Window
    /\ divU \in {0, Window} /\ divT \in {0, 1, Window}

\* count is the number of images since the target was last seen: no restart
\* of u is taken for a missing target, no found one is overlooked.
CountsMisses == count = unseen

\* Once camera_sample was typed, frames are analysed for ever.
FramesKeepFlowing == samples > 0 ~> pc = "analyse"
=============================================================================
