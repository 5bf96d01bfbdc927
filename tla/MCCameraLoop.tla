---------------------------- MODULE MCCameraLoop ----------------------------
(* Instances of CameraLoop for TLC. *)
EXTENDS CameraLoop

CONSTANTS c1, c2

TwoCameras == {c1, c2}

All == FaultKinds
=============================================================================
