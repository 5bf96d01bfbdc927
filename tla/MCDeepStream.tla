---------------------------- MODULE MCDeepStream ----------------------------
(* Instances of DeepStream for TLC. *)
EXTENDS DeepStream

CONSTANTS c1

OneCamera == {c1}

StopHangs == {"hang", "stop"}
Late      == {"late"}
=============================================================================
