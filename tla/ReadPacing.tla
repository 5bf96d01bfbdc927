----------------------------- MODULE ReadPacing -----------------------------
(***************************************************************************)
(* The schedule by which UltralyticsCameraRuntime.read chooses the frames   *)
(* to infer on (core/model/detector/ultralytics/runtime.py): a frame that   *)
(* comes before _next_due is grabbed and discarded, any other is passed and *)
(* moves _next_due on.  The schedule is kept by the wall clock, time.time(),*)
(* which the system may set while the camera runs.                          *)
(*                                                                         *)
(* Inference is part of the time until the next frame is grabbed.           *)
(***************************************************************************)
EXTENDS Integers

CONSTANTS
    FrameInterval, \* _frame_interval
    Starts,        \* readings of the wall clock the process may start with
    MaxGap,        \* bound: time between two frames
    ClockSteps,    \* by how much the wall clock may be set
    MaxSteps,      \* bound: how often it is set in a window
    MaxTime        \* bound: real time

ASSUME ReadPacingAssumption ==
    /\ FrameInterval \in Nat \ {0}
    /\ Starts \subseteq Nat
    /\ MaxGap \in Nat
    /\ ClockSteps \subseteq Int
    /\ MaxSteps \in Nat
    /\ MaxTime \in Nat

VARIABLES
    wall,       \* time.time()
    due,        \* _next_due
    real,       \* history: the time that has really passed
    \* history of a window, which a frame that is passed opens
    framesRead, \* frames passed in it, 0 before the first one
    from,       \* when it was opened, in real time
    steps,      \* how often the wall clock was set in it
    steady,     \* no frame was lost or took longer than an interval, no clock set
    setback     \* by how much the wall clock was ever set back in all

windowVars == <<framesRead, from, steps, steady>>
paceVars == <<wall, due, real, windowVars, setback>>

-----------------------------------------------------------------------------

\* Mutant of Advance: the schedule restarts from every frame.
AdvanceFromNow(now) == now + FrameInterval

\* Mutant of Advance: the debt is never forgiven.
AdvanceAlways(now) == due + FrameInterval

\* Mutant of Advance: a schedule that is behind skips one interval.
AdvanceSkips(now) ==
    IF now - (due + FrameInterval) > FrameInterval THEN now + 2 * FrameInterval ELSE due + FrameInterval

\* _next_due after a frame that was passed: an interval on, unless the schedule
\* is more than an interval behind then, in which case it starts again.
Advance(now) ==
    IF now - (due + FrameInterval) > FrameInterval THEN now + FrameInterval ELSE due + FrameInterval

TimePasses(gap) ==
    /\ real + gap <= MaxTime
    /\ real' = real + gap
    /\ wall' = wall + gap

Steady(gap) == steady /\ gap <= FrameInterval

Discard(gap) ==
    /\ TimePasses(gap)
    /\ wall' < due
    /\ steady' = Steady(gap)
    /\ UNCHANGED <<due, framesRead, from, steps, setback>>

Pass(gap) ==
    /\ TimePasses(gap)
    /\ wall' >= due
    /\ due' = Advance(wall')
    /\ \/ /\ framesRead > 0
          /\ framesRead' = framesRead + 1
          /\ steady' = Steady(gap)
          /\ UNCHANGED <<from, steps>>
       \/ /\ framesRead' = 1
          /\ from' = real'
          /\ steps' = 0
          /\ steady' = TRUE
    /\ UNCHANGED setback

\* SourceUnavailable: the frame could not be grabbed, or not be retrieved.  The
\* schedule stays, also over the reconnect that follows.
NoFrame(gap) ==
    /\ TimePasses(gap)
    /\ steady' = FALSE
    /\ UNCHANGED <<due, framesRead, from, steps, setback>>

\* The system sets the wall clock: by NTP, or by hand.
SetClock(d) ==
    /\ wall + d >= 0
    /\ steps < MaxSteps
    /\ wall' = wall + d
    /\ steps' = steps + 1
    /\ steady' = FALSE
    /\ setback' = IF d < 0 THEN setback - d ELSE setback
    /\ UNCHANGED <<due, real, framesRead, from>>

PaceInit ==
    /\ wall \in Starts
    /\ due = 0
    /\ real = 0
    /\ framesRead = 0 /\ from = 0 /\ steps = 0 /\ steady = FALSE
    /\ setback = 0

PaceNext ==
    \/ \E gap \in 1..MaxGap : Discard(gap) \/ Pass(gap) \/ NoFrame(gap)
    \/ \E d \in ClockSteps : SetClock(d)

PaceSpec == PaceInit /\ [][PaceNext]_paceVars

-----------------------------------------------------------------------------
(* Safety.                                                                 *)

\* Types of the variables.
PaceTypeOK ==
    /\ wall \in Nat /\ due \in Nat /\ real \in Nat
    /\ framesRead \in Nat /\ from \in 0..real /\ steps \in Nat /\ steady \in BOOLEAN
    /\ setback \in Nat

\* fps_target is a ceiling over every window that begins with a frame: what is
\* passed beyond one frame per interval is a burst of three frames, and one of
\* three more for every time the wall clock was set, by however much; a long
\* outage, slow inference or a large step does not come back as a longer burst.
BurstBounded ==
    FrameInterval * framesRead <= (real - from) + 3 * FrameInterval + 3 * FrameInterval * steps

\* fps_target is reached: as long as the source and the inference come back
\* within an interval, not one frame is missing from one per interval, although
\* frames rarely come when they are due.
RateKept ==
    steady /\ framesRead > 0 => FrameInterval * framesRead >= real - from

\* A camera waits no longer than an interval for the next frame it may pass, and
\* as much longer as the wall clock was set back.
WaitBounded == due - wall <= FrameInterval + setback
=============================================================================
