---------------------------- MODULE MCFrameRate ----------------------------
(* Instances of FrameRate for TLC. *)
EXTENDS FrameRate

\* Unknown, the usual rates of cameras, and rates close to a multiple of a target.
CameraRates == {0, 1000, 1200, 1201, 1250, 1499, 1500, 1501, 2000, 2500, 2997, 3000, 3001, 6000}
AnyTarget   == {0, 1, 5, 7, 10, 15, 25, 30}

\* A clock that begins with the schedule, and one that has run before.
TwoStarts == {0, 20}

\* Steps back, and forward by less and by more than the debt that is forgiven.
BackAndForth == {-5, 4, 15}
=============================================================================
