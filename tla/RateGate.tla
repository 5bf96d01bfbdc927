------------------------------ MODULE RateGate ------------------------------
(***************************************************************************)
(* The frame rate of a DeepStream camera: _plan_rate and _rate_gate of      *)
(* core/model/detector/deepstream/runtime.py.  The decoder keeps one frame  *)
(* in N, and a probe behind it passes the share that is left over.          *)
(*                                                                         *)
(* Rates are counted in hundredths of a frame per second.                   *)
(***************************************************************************)
EXTENDS Integers

CONSTANTS
    Sources,    \* rates the probe may report, in hundredths; 0 is unknown
    Targets,    \* fps_target; 0 is not set
    MaxSeen,    \* bound: frames of one connection
    MaxStrays,  \* bound: frames of an abandoned pipeline during one connection
    HasInterval \* the source element has the property drop-frame-interval

ASSUME RateGateAssumption ==
    /\ Sources \subseteq Nat
    /\ Targets \subseteq Nat
    /\ MaxSeen \in Nat
    /\ MaxStrays \in Nat
    /\ HasInterval \in BOOLEAN

VARIABLES
    source, target,     \* what _plan_rate was called with
    credit,             \* _gate_credit
    \* history of the connection
    seen,               \* frames the source sent
    decoded,            \* frames the decoder kept
    passed,             \* frames that reached nvinfer
    base,               \* the credit it began with
    strays, stolen,     \* frames an abandoned pipeline decoded meanwhile, and passed
    dropped             \* frames the probe has dropped in a row

gateVars == <<source, target, credit, seen, decoded, passed, base, strays, stolen, dropped>>

-----------------------------------------------------------------------------
(* _plan_rate.                                                             *)

\* round() of a / b: to the nearest integer, a half to the even one.
Round(a, b) == LET q == a \div b
                   r == a % b
               IN  IF 2 * r > b \/ (2 * r = b /\ q % 2 = 1) THEN q + 1 ELSE q

Plans == target # 0 /\ source # 0 /\ source > 100 * target

\* _drop_interval: the whole number of target rates in the source rate.
Interval == IF Plans THEN source \div (100 * target) ELSE 1

\* Mutant of Gated: a whole frame per second over the target is near enough.
GatedLoose == Plans /\ source > Interval * (100 * target + 100)

\* The decoder alone does not come within 0.01 fps of the target.
Gated == Plans /\ source > Interval * (100 * target + 1)

GateTarget == IF Gated THEN 100 * target ELSE 0

GateSource == IF Gated THEN Round(source, Interval) ELSE 0

-----------------------------------------------------------------------------
(* The frames.                                                             *)

\* The decoder keeps the first of every Interval frames.
Keeps == ~HasInterval \/ seen % Interval = 0

\* _rate_gate's condition.
Passes == credit + GateTarget >= GateSource

\* Mutant of Spend: the credit that is left over is lost.
SpendAll == 0

\* _rate_gate's credit after a frame it passes.
Spend == credit + GateTarget - GateSource

\* _rate_gate: the probe is only there if there is a gate.
Gate ==
    IF GateSource = 0 \/ Passes
    THEN /\ passed' = passed + 1
         /\ dropped' = 0
         /\ credit' = IF GateSource = 0 THEN credit ELSE Spend
    ELSE /\ credit' = credit + GateTarget
         /\ dropped' = dropped + 1
         /\ UNCHANGED passed

Frame ==
    /\ seen < MaxSeen
    /\ seen' = seen + 1
    /\ IF Keeps THEN decoded' = decoded + 1 /\ Gate
       ELSE UNCHANGED <<decoded, passed, dropped, credit>>
    /\ UNCHANGED <<source, target, base, strays, stolen>>

\* The pipeline of an abandoned teardown may still play: its probe draws on the
\* same credit.
AbandonedFrame ==
    /\ strays < MaxStrays
    /\ strays' = strays + 1
    /\ GateSource # 0
    /\ credit' = IF Passes THEN Spend ELSE credit + GateTarget
    /\ stolen' = IF Passes THEN stolen + 1 ELSE stolen
    /\ UNCHANGED <<source, target, seen, decoded, passed, base, dropped>>

\* A reconnect plans nothing anew: the next connection begins with the credit.
NextConnection ==
    /\ seen > 0
    /\ seen' = 0 /\ decoded' = 0 /\ passed' = 0 /\ strays' = 0 /\ stolen' = 0 /\ dropped' = 0
    /\ base' = credit
    /\ UNCHANGED <<source, target, credit>>

GateInit ==
    /\ source \in Sources
    /\ target \in Targets
    /\ credit = 0
    /\ seen = 0 /\ decoded = 0 /\ passed = 0 /\ base = 0 /\ strays = 0 /\ stolen = 0
    /\ dropped = 0

GateNext == Frame \/ AbandonedFrame \/ NextConnection

GateSpec == GateInit /\ [][GateNext]_gateVars

-----------------------------------------------------------------------------
(* Safety.                                                                 *)

\* Types of the variables.
GateTypeOK ==
    /\ source \in Sources /\ target \in Targets
    /\ credit \in Nat
    /\ seen \in 0..MaxSeen
    /\ decoded \in Nat /\ passed \in Nat /\ base \in Nat /\ dropped \in Nat
    /\ strays \in 0..MaxStrays /\ stolen \in 0..strays

\* "Pass fps_target frames out of every source frame, exactly": what the credit
\* was and what came in is what was passed and what the credit is.  An abandoned
\* pipeline counts in: what it passes is missing from the new one's share.
Exact ==
    Gated => GateTarget * (decoded + strays) + base = GateSource * (passed + stolen) + credit

\* The credit never reaches a whole frame, whoever draws on it, so that the share
\* passed is off by less than one frame, however long the camera runs.
LessThanAFrame == credit = 0 \/ credit < GateSource

\* What the pipelines of a camera pass is their share of what is decoded, to within
\* a frame; without an abandoned one, what the camera passes.
ShareKept == Exact /\ LessThanAFrame

\* The frames are spread, two neighbours never both dropped, and fps_target is a
\* ceiling, but for the 0.01 fps below which no probe is installed: decoder and probe
\* together pass no more than its share of the source's frames, a frame begun before
\* and the first one.
EvenBelowTarget ==
    HasInterval /\ strays = 0
        => /\ dropped <= 1
           /\ Plans => source * passed <= (100 * target + 1) * seen + 2 * source
=============================================================================
