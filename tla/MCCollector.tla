---------------------------- MODULE MCCollector ----------------------------
(* Instances of Collector for TLC. *)
EXTENDS Collector

CONSTANTS car, person

TwoClasses == {car, person}

\* One session of each kind: every detection up to two frames, a car every second
\* from the second on, and anything at random.
Always == 100
Every(mode, every, classes, max) ==
    [mode |-> mode, every |-> every, classes |-> classes, minDetections |-> 0,
     maxFrames |-> max, after |-> 0, before |-> Always]
TwoSessions ==
    << Every("on_detection", 0, TwoClasses, 2),
       [Every("interval", 2, {car}, NoLimit) EXCEPT !.minDetections = 1, !.after = 1] >>
ThreeSessions == Append(TwoSessions, Every("random", 2, TwoClasses, 1))

StepsBack == {-2}
=============================================================================
