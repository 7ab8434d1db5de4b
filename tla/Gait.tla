-------------------------------- MODULE Gait --------------------------------
(***************************************************************************)
(* The walking of the robot, gear_con.c: a thread started by the command   *)
(* thread_gear goes through gait tables for ever and commands eight        *)
(* servos, five times for each row of a table, by interpolation between    *)
(* the pose of the row before and that of the row.  The command            *)
(* pwm_sample, which never returns, swings one of the same servos.         *)
(*                                                                         *)
(* A thread sleeps after each section; what it does between two sleeps is  *)
(* one step, or two at the start of a row.  Sleeping times are left out.   *)
(*                                                                         *)
(* The tables are those gear_control uses, without the column of times.    *)
(* The first row is a pose, the others are changes.                        *)
(***************************************************************************)
EXTENDS Integers, Sequences

CONSTANTS
    Thread,      \* the threads that thread_gear may start
    Off          \* not started

Servo == 1..8
Standby == <<130, 115, 45, 50, 50, 50, 115, 130>>

GearProg00 == << Standby >>

\* Mutant: rows 3 and 4 swapped, the second pair of legs rises too early.
GearProg02Swapped == << Standby,
    <<20, 0, 0, 0, 0, 0, -45, 20>>, <<0, 0, 0, -20, -20, 0, 0, 0>>,
    <<-20, 0, 0, 0, 0, 0, 0, -20>>, <<0, -45, 45, 0, 0, 0, 45, 0>>,
    <<0, 0, 0, 20, 20, 0, 0, 0>>, <<20, 45, 0, 0, 0, 0, 0, 20>>,
    <<0, 0, -45, 0, 0, 45, 0, 0>>, <<-20, 0, 0, 0, 0, 0, 0, -20>>,
    <<0, 0, 0, 0, -20, 0, 0, 0>>, <<0, 0, 0, 0, 20, -45, 0, 0>> >>

\* Forward
GearProg02 == << Standby,
    <<20, 0, 0, 0, 0, 0, -45, 20>>, <<-20, 0, 0, 0, 0, 0, 0, -20>>,
    <<0, 0, 0, -20, -20, 0, 0, 0>>, <<0, -45, 45, 0, 0, 0, 45, 0>>,
    <<0, 0, 0, 20, 20, 0, 0, 0>>, <<20, 45, 0, 0, 0, 0, 0, 20>>,
    <<0, 0, -45, 0, 0, 45, 0, 0>>, <<-20, 0, 0, 0, 0, 0, 0, -20>>,
    <<0, 0, 0, 0, -20, 0, 0, 0>>, <<0, 0, 0, 0, 20, -45, 0, 0>> >>

\* Move left
GearProg04 == << Standby,
    <<0, 0, -22, -10, -10, 0, 0, 0>>, <<0, 0, 0, 10, 10, 0, 0, 0>>,
    <<10, 0, 0, 0, 0, 0, 0, 10>>, <<0, 22, 22, 0, 0, -22, 0, 0>>,
    <<-10, 0, 0, 0, 0, 0, 0, -10>>, <<0, 0, 0, -10, -10, 22, 0, 0>>,
    <<0, -22, 0, 0, 0, 0, 22, 0>>, <<0, 0, 0, 10, 10, 0, 0, 0>>,
    <<0, 0, 0, 0, 0, 0, 0, 10>>, <<0, 0, 0, 0, 0, 0, -22, -10>> >>

\* Move right
GearProg05 == << Standby,
    <<0, 0, 0, -10, -10, -22, 0, 0>>, <<0, 0, 0, 10, 10, 0, 0, 0>>,
    <<10, 0, 0, 0, 0, 0, 0, 10>>, <<0, 0, -22, 0, 0, 22, 22, 0>>,
    <<-10, 0, 0, 0, 0, 0, 0, -10>>, <<0, 0, 22, -10, -10, 0, 0, 0>>,
    <<0, 22, 0, 0, 0, 0, -22, 0>>, <<0, 0, 0, 10, 10, 0, 0, 0>>,
    <<10, 0, 0, 0, 0, 0, 0, 0>>, <<-10, -22, 0, 0, 0, 0, 0, 0>> >>

\* Turn left
GearProg06 == << Standby,
    <<10, 0, 0, 0, 0, 0, 0, 20>>, <<0, 45, 0, 0, 0, 0, 45, 0>>,
    <<-20, 0, 0, 0, 0, 0, 0, -20>>, <<0, 0, 0, -20, -20, 0, 0, 0>>,
    <<0, 0, 45, 0, 0, 45, 0, 0>>, <<0, 0, 0, 20, 20, 0, 0, 0>>,
    <<0, -45, -45, 0, 0, -45, -45, 0>> >>

\* Mutant: leg 1 rises by less than it comes down.
GearProg07Typo == << Standby,
    <<0, 0, 0, -20, -20, 0, 0, 0>>, <<0, 0, -45, 0, 0, -45, 0, 0>>,
    <<0, 0, 0, 20, 20, 0, 0, 0>>, <<10, 0, 0, 0, 0, 0, 0, 20>>,
    <<0, -45, 0, 0, 0, 0, -45, 0>>, <<-20, 0, 0, 0, 0, 0, 0, -20>>,
    <<0, 45, 45, 0, 0, 45, 45, 0>> >>

\* Turn right
GearProg07 == << Standby,
    <<0, 0, 0, -20, -20, 0, 0, 0>>, <<0, 0, -45, 0, 0, -45, 0, 0>>,
    <<0, 0, 0, 20, 20, 0, 0, 0>>, <<20, 0, 0, 0, 0, 0, 0, 20>>,
    <<0, -45, 0, 0, 0, 0, -45, 0>>, <<-20, 0, 0, 0, 0, 0, 0, -20>>,
    <<0, 45, 45, 0, 0, 45, 45, 0>> >>

\* Say hi
GearProg09 == << <<180, 115, 45, 50, 0, 50, 115, 130>>,
    <<-50, 0, 0, 0, 50, 0, 0, 0>>, <<50, 0, 0, 0, -50, 0, 0, 0>>,
    <<-50, 0, 0, 0, 50, 0, 0, 0>> >>

\* Fighting
Left(n) == <<0, -n, -n, 0, 0, -n, -n, 0>>

GearProg10 == << <<130, 100, 60, 50, 65, 75, 100, 115>>,
    Left(20), Left(-40), Left(40), Left(-40), <<-50, -20, -20, -40, 50, -20, -20, 40>>,
    Left(20), Left(-40), Left(40), Left(-40), Left(20) >>

\* Dancing 1
GearProg13 == << <<90, 80, 80, 90, 90, 100, 80, 90>>,
    <<-40, 0, 0, 0, 0, 0, 0, 0>>, <<40, 0, 0, 40, 0, 0, 0, 0>>,
    <<0, 0, 0, -40, 0, 0, 0, -40>>, <<0, 0, 0, 0, 40, 0, 0, 40>>,
    <<-40, 0, 0, 0, -40, 0, 0, 0>>, <<40, 0, 0, 40, 0, 0, 0, 0>>,
    <<0, 0, 0, -40, 0, 0, 0, -40>>, <<0, 0, 0, 0, 40, 0, 0, 40>>,
    <<0, 0, 0, 0, -40, 0, 0, 0>> >>

\* The calls of cmdcon in the loop of gear_control.
Routine == << GearProg02, GearProg04, GearProg05, GearProg06,
              GearProg07, GearProg09, GearProg10, GearProg13 >>

Gaits == 1..Len(Routine)
Walking == 1..5

-----------------------------------------------------------------------------
VARIABLES
    servoPos,    \* where the servos were at the start of the row
    gear,        \* per thread: its table, row, section and gear_angle, or Off
    out,         \* the pulse each servo is commanded, in ns
    sample       \* pulse and dir of pwm_sample, or Off

vars == <<servoPos, gear, out, sample>>

Sections == 5

\* map_util computes from + (j / 5) * (to - from) in single precision and drops
\* the fraction; for angles in 0..180 that is the integer below, with one
\* exception.  0.6 is stored as a little more than 3/5, and where three fifths of
\* a way back lie in the upper half of the numbers with their exponent, 3 * 2^(e-1)
\* to 2^(e+1), the product is rounded up.  A difference that should be whole
\* is then less than whole, unless it is too large for the digits to tell.
FallsShort(j, from, to) ==
    LET back == 3 * ((from - to) \div Sections)
    IN  /\ j = 3 /\ to < from /\ (from - to) % Sections = 0
        /\ \E e \in 0..6 : /\ 3 * 2^e < 2 * back /\ back < 2^(e + 1)
                         /\ from - back <= 2^(e + 1)

map_util(j, from, to) ==
    (Sections * from + j * (to - from)) \div Sections - IF FallsShort(j, from, to) THEN 1 ELSE 0

Width(angle) == (angle * 2000000) \div 180

Pulse(angle) == 500000 + Width(angle)

\* After prepare_statu; servoPos is not set before the first row.
Init ==
    /\ servoPos = [p \in Servo |-> 0]
    /\ gear = [t \in Thread |-> Off]
    /\ out = [p \in Servo |-> Pulse(GearProg00[1][p])]
    /\ sample = Off

\* The shell takes the next command when the last has returned.
thread_gear(t) ==
    /\ sample = Off /\ gear[t] = Off
    /\ gear' = [gear EXCEPT ![t] =
                   [gait |-> 1, row |-> 0, section |-> Sections, angle |-> [p \in Servo |-> 0]]]
    /\ UNCHANGED <<servoPos, out, sample>>

\* Table and row after those of g.
Advanced(g) ==
    IF g.row < Len(Routine[g.gait])
    THEN [g EXCEPT !.row = @ + 1, !.section = 0]
    ELSE [g EXCEPT !.gait = (@ % Len(Routine)) + 1, !.row = 1, !.section = 0]

RowFrom(g, angle) == IF g.row = 1 THEN [p \in Servo |-> Routine[g.gait][1][p]] ELSE angle

RowTo(g, angle) ==
    [p \in Servo |-> Routine[g.gait][g.row][p] + IF g.row = 1 THEN 0 ELSE angle[p]]

\* Mutant: a section less.
OverEarly(g) == g.section >= Sections - 1

Over(g) == g.section >= Sections

\* A row begins: servoPos and gear_angle.
StartRow(t) ==
    /\ gear[t] # Off /\ Over(gear[t])
    /\ LET g == Advanced(gear[t])
       IN  /\ servoPos' = RowFrom(g, g.angle)
           /\ gear' = [gear EXCEPT ![t] = [g EXCEPT !.angle = RowTo(g, g.angle)]]
    /\ UNCHANGED <<out, sample>>

\* A section: all servos are commanded, and the thread sleeps.
Section(t) ==
    /\ gear[t] # Off /\ ~Over(gear[t])
    /\ LET g == gear[t]
       IN  out' = [p \in Servo |-> Pulse(map_util(g.section, servoPos[p], g.angle[p]))]
    /\ gear' = [gear EXCEPT ![t].section = @ + 1]
    /\ UNCHANGED <<servoPos, sample>>

\* "pwm4", channel 3
Sampled == 7

pwm_sample ==
    /\ sample = Off
    /\ sample' = [pulse |-> 500000, dir |-> 1]
    /\ out' = [out EXCEPT ![Sampled] = 500000]
    /\ UNCHANGED <<servoPos, gear>>

\* Mutant: the turn comes a step late.
TurnsLate(s) == IF s.pulse > 2500000 THEN 0 ELSE IF s.pulse = 500000 THEN 1 ELSE s.dir

Turn(s) == IF s.pulse >= 2500000 THEN 0 ELSE IF s.pulse = 500000 THEN 1 ELSE s.dir

Swing ==
    /\ sample # Off
    /\ LET s == [sample EXCEPT !.pulse = IF sample.dir # 0 THEN @ + 500000 ELSE @ - 500000]
       IN  /\ sample' = [s EXCEPT !.dir = Turn(s)]
           /\ out' = [out EXCEPT ![Sampled] = s.pulse]
    /\ UNCHANGED <<servoPos, gear>>

Next ==
    \/ \E t \in Thread : thread_gear(t) \/ StartRow(t) \/ Section(t)
    \/ pwm_sample
    \/ Swing

Spec == Init /\ [][Next]_vars

-----------------------------------------------------------------------------
Angle == 0..180
PulseRange == 500000..2500000

\* The types.  The angles of all tables, added up, are within the half circle
\* of a servo, and no pulse is shorter or longer than it takes.
TypeOK ==
    /\ servoPos \in [Servo -> Angle]
    /\ \A t \in Thread :
           \/ gear[t] = Off
           \/ /\ gear[t].gait \in Gaits /\ gear[t].row \in 0..Len(Routine[gear[t].gait])
              /\ gear[t].section \in 0..Sections
              /\ gear[t].angle \in [Servo -> Angle]
    /\ DOMAIN out = Servo /\ \A p \in Servo : out[p] \in PulseRange
    /\ sample \in {Off} \cup [pulse : {500000 * n : n \in 1..5}, dir : {0, 1}]

Walked == Servo \ (IF sample = Off THEN {} ELSE {Sampled})

\* What turning left leaves behind: leg 1 rises by 10 and comes down by 20.
Drift(gait, p) == IF Routine[gait] = GearProg06 /\ p = 1 THEN -10 ELSE 0

\* A gait that walks, moves sideways or turns brings every leg back to where it
\* stood, however its ten rows take it there: no servo has drifted by the time
\* the next gait starts from the standby pose.  Turning left does not do it.
ComesHome ==
    \A t \in Thread, p \in Servo :
        gear[t] # Off /\ gear[t].gait \in Walking /\ gear[t].row = Len(Routine[gear[t].gait]) =>
            gear[t].angle[p] = Standby[p] + Drift(gear[t].gait, p)

Abs(n) == IF n < 0 THEN -n ELSE n

\* From one command to the next, in a gait and from row to row, a servo turns
\* by no more than a fifth of what some row asks of it, but for the rounding.
NoJump ==
    [][\A t \in Thread :
          Section(t) /\ gear[t].row > 1 =>
              \A p \in Walked : \E r \in 2..Len(Routine[gear[t].gait]) :
                  Abs(out'[p] - out[p]) <= Width(Abs(Routine[gear[t].gait][r][p]) \div Sections + 1) + 1]_vars

Raised(p) ==
    IF p \in {1, 8} THEN out[p] > Pulse(Standby[p]) ELSE out[p] < Pulse(Standby[p])

\* When it walks, moves sideways or turns, the robot never has a leg of both
\* diagonal pairs off the ground: 1 and 4 or 2 and 3 carry it.
StandsOnTwo ==
    \A t \in Thread :
        gear[t] # Off /\ gear[t].gait \in Walking /\ (gear[t].row > 1 \/ gear[t].section > 0) =>
            ~ ((\E p \in {1, 8} : Raised(p)) /\ (\E p \in {4, 5} : Raised(p)))

\* All of them come home.  They do not: turning left leaves servo 1 ten degrees
\* from where it stood.  (GaitDrift.cfg)
AllComeHome ==
    \A t \in Thread, p \in Servo :
        gear[t] # Off /\ gear[t].gait \in Walking /\ gear[t].row = Len(Routine[gear[t].gait]) =>
            gear[t].angle[p] = Standby[p]

\* The last command of a gait is the pose its last row asks for.  It is not: the
\* last section of a row stops a fifth before it.  (GaitEnds.cfg)
EndsInPose ==
    \A t \in Thread, p \in Walked :
        gear[t] # Off /\ gear[t].section = Sections /\ gear[t].row = Len(Routine[gear[t].gait]) =>
            out[p] = Pulse(gear[t].angle[p])
=============================================================================
