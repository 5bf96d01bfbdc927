------------------------------ MODULE MCTracks ------------------------------
(* Instances of Tracks for TLC. *)
EXTENDS Tracks, TLC

CONSTANTS c1, c2, c3, car, person

AllCameras == {c1, c2, c3}
Models     == c1 :> "ultralytics" @@ c2 :> "ultralytics" @@ c3 :> "deepstream"
TwoThings  == {car, person}
PerClass   == [x \in TwoThings |-> x]
=============================================================================
