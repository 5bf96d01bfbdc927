----------------------------- MODULE FrameRate -----------------------------
(***************************************************************************)
(* fps_target of a camera, kept by either runtime: build_camera_runtime      *)
(* gives a camera the runtime of its model, and each keeps the rate in its   *)
(* own way, DeepStream by decoder and probe (RateGate), the other by a       *)
(* schedule of its reads (ReadPacing).                                       *)
(***************************************************************************)
EXTENDS RateGate, ReadPacing

VARIABLE
    runtime \* the runtime of the camera's model

\* build_camera_runtime: what the other runtime would keep is not there.
Build ==
    \/ /\ runtime = "deepstream"
       /\ GateInit
       /\ wall = 0 /\ due = 0 /\ real = 0 /\ framesRead = 0
       /\ from = 0 /\ steps = 0 /\ steady = FALSE /\ setback = 0
    \/ /\ runtime = "ultralytics"
       /\ PaceInit
       /\ source = 0 /\ target = 0 /\ credit = 0
       /\ seen = 0 /\ decoded = 0 /\ passed = 0
       /\ base = 0 /\ strays = 0 /\ stolen = 0 /\ dropped = 0

DeepStreamStep == runtime = "deepstream" /\ GateNext /\ UNCHANGED <<runtime, paceVars>>

UltralyticsStep == runtime = "ultralytics" /\ PaceNext /\ UNCHANGED <<runtime, gateVars>>

FrameRateSpec == Build /\ [][DeepStreamStep \/ UltralyticsStep]_<<runtime, gateVars, paceVars>>
=============================================================================
