------------------------------- MODULE Alerts -------------------------------
(***************************************************************************)
(* From a detection to the alerts about it: CameraPipeline._process         *)
(* (core/pipeline/pipeline.py), the one RulesEngine that all the cameras    *)
(* share (core/rules/engine.py), the Notifier with its webhook tasks        *)
(* (core/notifier/notifier.py), and the order in which main.run takes them  *)
(* down.                                                                   *)
(*                                                                         *)
(* Up to buffer.write nothing in _process gives up the event loop, so that  *)
(* the rules, the cooldowns and the start of the webhooks are one step for a*)
(* whole frame.  What the buffer does with the rows is in Delivery; here a  *)
(* write returns or raises.                                                *)
(***************************************************************************)
EXTENDS Integers, Sequences, FiniteSets

CONSTANTS
    Cameras,
    Rules,          \* names of the enabled rules
    RuleOf,         \* their configuration
    Webhooks,       \* names of the enabled webhooks
    WebhookOf,      \* their configuration
    Routed,         \* for every camera the classes that have a raw table
    Frames,         \* what a model may find in a frame: sequences of detections
    Zones,          \* the values of DetectionEvent.zone
    Day,            \* minutes of a day
    Hours,          \* times of day at which the agent may start
    Boots,          \* minutes since the host has started, at the start of the agent
    MaxTime,        \* bound: minutes since the host has started
    MaxFrames       \* bound: frames in all

All == "*"

Windows == [after : 0..(Day - 1), before : 0..(Day - 1)]

Detections == [class : STRING, zone : Zones, confidence : Nat]

\* The empty set of cameras, zones, rules or severities stands for all of them,
\* the empty set of schedules for all day.
ASSUME AlertsAssumption ==
    /\ Day \in Nat \ {0}
    /\ \A rule \in Rules :
        /\ RuleOf[rule].cooldown \in Nat
        /\ RuleOf[rule].schedule \subseteq Windows
        /\ RuleOf[rule].notify \in BOOLEAN /\ RuleOf[rule].table \in BOOLEAN
    /\ Frames \subseteq Seq(Detections)
    /\ Hours \subseteq 0..(Day - 1) /\ Boots \subseteq Nat
    /\ MaxTime \in Nat /\ MaxFrames \in Nat

VARIABLES
    now,            \* time.monotonic()
    hhmm,           \* time of day
    lastFired,      \* RulesEngine._last_fired, 0 where it has no entry
    pc,             \* per camera: reading, writing its rows, done
    rows,           \* per camera: the notification rows that are being written
    calls,          \* Notifier._pending
    client,         \* the HTTP client of the notifier
    awaited,        \* the tasks that Notifier.stop has gathered
    phase,          \* how far main.run is
    frames,         \* history: the number of frames
    alerts,         \* history: the matches, each is one line in the log
    silenced,       \* history: what the cooldowns have suppressed in the last frame
    written         \* history: notification rows whose write has ended in some way

engine == <<lastFired, frames, alerts, silenced>>
notifier == <<calls, client, awaited>>
vars == <<now, hhmm, engine, pc, rows, notifier, phase, written>>

-----------------------------------------------------------------------------
(* The rules.                                                              *)

Contains(window, time) ==
    IF window.after <= window.before
    THEN window.after <= time /\ time <= window.before
    ELSE time >= window.after \/ time <= window.before

Selects(filter, value) == filter = {} \/ value \in filter

Matches(rule, camera, det) ==
    LET r == RuleOf[rule]
    IN  /\ Selects(r.cameras, camera)
        /\ r.class \in {All, det.class}
        /\ Selects(r.zones, det.zone)
        /\ \A window \in r.schedule : Contains(window, hhmm)
        /\ det.confidence >= r.floor

Keys == [rule : Rules, camera : Cameras, zone : Zones]

KeyOf(alert) == [rule |-> alert.rule, camera |-> alert.camera, zone |-> alert.zone]

Cooldown(key) == RuleOf[key.rule].cooldown

\* Mutant of Cooling: the cooldown is that of the camera and rule, in any zone.
CoolingAnyZone(key) ==
    /\ Cooldown(key) > 0
    /\ \E zone \in Zones : now - lastFired[[key EXCEPT !.zone = zone]] < Cooldown(key)

\* The last alert of this key is less than a cooldown ago.
Cooling(key) == Cooldown(key) > 0 /\ now - lastFired[key] < Cooldown(key)

\* The rules that a detection of the frame matches and that notify.
Notified(camera, frame) ==
    {m \in [nth : DOMAIN frame, rule : Rules] :
        Matches(m.rule, camera, frame[m.nth]) /\ RuleOf[m.rule].notify}

\* The alerts of a frame if there was no cooldown.
Candidates(camera, frame) ==
    {[frame |-> frames, nth |-> m.nth, rule |-> m.rule, camera |-> camera,
      zone |-> frame[m.nth].zone, at |-> now] : m \in Notified(camera, frame)}

\* Mutant of Fired: only the alerts of earlier frames count.
FiredEachOfFrame(camera, frame) ==
    {a \in Candidates(camera, frame) : ~Cooling(KeyOf(a))}

\* With a cooldown only the first match of a key in a frame can be an alert.
Fired(camera, frame) ==
    {a \in Candidates(camera, frame) :
        /\ ~Cooling(KeyOf(a))
        /\ \/ Cooldown(KeyOf(a)) = 0
           \/ \A b \in Candidates(camera, frame) : KeyOf(b) = KeyOf(a) => a.nth <= b.nth}

HasDetectionRows(camera, frame) ==
    \E i \in DOMAIN frame :
        /\ \E rule \in Rules : Matches(rule, camera, frame[i])
        /\ frame[i].class \in Routed[camera]

\* Mutant of NotificationRows: a rule without a table has rows as well.
NotificationRowsAll(fired) == fired

NotificationRows(fired) == {a \in fired : RuleOf[a.rule].table}

-----------------------------------------------------------------------------
(* The notifier.                                                           *)

Accepts(hook, rule) ==
    /\ Selects(WebhookOf[hook].rules, rule)
    /\ Selects(WebhookOf[hook].severities, RuleOf[rule].severity)

Sends(fired) ==
    {call \in [alert : fired, hook : Webhooks] : Accepts(call.hook, call.alert.rule)}

\* The webhook has answered, or has timed out, or could not be reached: the task
\* ends in the same way, and nothing is retried.
Settle(call) ==
    /\ call \in calls
    /\ calls' = calls \ {call}
    /\ UNCHANGED <<now, hhmm, engine, pc, rows, client, awaited, phase, written>>

-----------------------------------------------------------------------------
(* The cameras.                                                            *)

Remember(fired) ==
    [key \in Keys |-> IF \E a \in fired : KeyOf(a) = key THEN now ELSE lastFired[key]]

\* A frame, and _process up to the write.  A camera that is asked to stop may
\* still deliver the frame that it is reading.
Process(camera, frame) ==
    LET fired == Fired(camera, frame)
    IN  /\ pc[camera] = "reading"
        /\ frames < MaxFrames
        /\ frames' = frames + 1
        /\ lastFired' = Remember(fired)
        /\ alerts' = alerts \cup fired
        /\ silenced' = Candidates(camera, frame) \ fired
        /\ calls' = calls \cup Sends(fired)
        /\ rows' = [rows EXCEPT ![camera] = NotificationRows(fired)]
        /\ pc' = IF HasDetectionRows(camera, frame) \/ NotificationRows(fired) /= {}
                 THEN [pc EXCEPT ![camera] = "writing"] ELSE pc
        /\ UNCHANGED <<now, hhmm, client, awaited, phase, written>>

\* buffer.write has returned, or has raised, which the loop logs and outlives.
WriteEnds(camera) ==
    /\ pc[camera] = "writing"
    /\ pc' = [pc EXCEPT ![camera] = "reading"]
    /\ rows' = [rows EXCEPT ![camera] = {}]
    /\ written' = written \cup rows[camera]
    /\ UNCHANGED <<now, hhmm, engine, notifier, phase>>

\* The loop sees the stop event, or its source is lost while it is stopping.
Leave(camera) ==
    /\ phase = "stopping"
    /\ pc[camera] = "reading"
    /\ pc' = [pc EXCEPT ![camera] = "done"]
    /\ UNCHANGED <<now, hhmm, engine, rows, notifier, phase, written>>

-----------------------------------------------------------------------------
(* main.run.                                                               *)

\* A signal, or a camera whose native call is wedged.
Stop ==
    /\ phase = "running"
    /\ phase' = "stopping"
    /\ UNCHANGED <<now, hhmm, engine, pc, rows, notifier, written>>

\* The shutdown timeout: the pipelines that still run are cancelled where they
\* wait, and are waited for.
Abandon ==
    /\ phase = "stopping"
    /\ \E camera \in Cameras : pc[camera] /= "done"
    /\ pc' = [camera \in Cameras |-> "done"]
    /\ rows' = [camera \in Cameras |-> {}]
    /\ written' = written \cup UNION {rows[camera] : camera \in Cameras}
    /\ UNCHANGED <<now, hhmm, engine, notifier, phase>>

\* Mutant of CamerasDown: the pipelines are told to stop and not waited for.
CamerasDownAtOnce == TRUE

CamerasDown == \A camera \in Cameras : pc[camera] = "done"

\* ingest.stop has flushed, registry.close has returned, notifier.stop begins.
Gather ==
    /\ phase = "stopping"
    /\ CamerasDown
    /\ phase' = "closing"
    /\ awaited' = calls
    /\ UNCHANGED <<now, hhmm, engine, pc, rows, calls, client, written>>

\* Mutant of AllSettled: the gathered set is expected to empty itself.
AllSettledEmpty == awaited = {}

AllSettled == awaited \cap calls = {}

\* aclose, once the gathered tasks have ended, and the rest of the shutdown.
CloseClient ==
    /\ phase = "closing"
    /\ AllSettled
    /\ client' = "closed"
    /\ phase' = "exited"
    /\ UNCHANGED <<now, hhmm, engine, pc, rows, calls, awaited, written>>

\* ingest.stop or registry.close raises: the shutdown ends there, and with it
\* the process and the tasks that were under way.
StopRaises ==
    /\ phase = "stopping"
    /\ CamerasDown
    /\ phase' = "exited"
    /\ calls' = {}
    /\ UNCHANGED <<now, hhmm, engine, pc, rows, client, awaited, written>>

-----------------------------------------------------------------------------

NextMinute == (hhmm + 1) % Day

\* The shutdown takes no time to speak of.
Tick ==
    /\ phase = "running"
    /\ now < MaxTime
    /\ now' = now + 1
    /\ hhmm' = NextMinute
    /\ UNCHANGED <<engine, pc, rows, notifier, phase, written>>

Init ==
    /\ now \in Boots
    /\ hhmm \in Hours
    /\ lastFired = [key \in Keys |-> 0]
    /\ pc = [camera \in Cameras |-> "reading"]
    /\ rows = [camera \in Cameras |-> {}]
    /\ calls = {} /\ client = "open" /\ awaited = {}
    /\ phase = "running"
    /\ frames = 0 /\ alerts = {} /\ silenced = {} /\ written = {}

Next ==
    \/ Tick
    \/ \E camera \in Cameras :
        \/ \E frame \in Frames : Process(camera, frame)
        \/ WriteEnds(camera) \/ Leave(camera)
    \/ \E call \in calls : Settle(call)
    \/ Stop \/ Abandon \/ Gather \/ CloseClient \/ StopRaises

Spec == Init /\ [][Next]_vars

\* Every webhook task ends, by its timeout if nothing else ends it; the shutdown
\* timeout runs out; main goes on.
Fairness ==
    /\ WF_vars(\E call \in calls : Settle(call))
    /\ WF_vars(Abandon)
    /\ WF_vars(Gather \/ StopRaises)
    /\ WF_vars(CloseClient)

FairSpec == Spec /\ Fairness

-----------------------------------------------------------------------------
(* Safety.                                                                 *)

AlertRecords ==
    [frame : Nat, nth : Nat, rule : Rules, camera : Cameras, zone : Zones, at : Nat]

\* Types of the variables; the records of the history are what was sent on.
TypeOK ==
    /\ now \in Nat /\ hhmm \in 0..(Day - 1) /\ frames \in Nat
    /\ lastFired \in [Keys -> Nat]
    /\ pc \in [Cameras -> {"reading", "writing", "done"}]
    /\ rows \in [Cameras -> SUBSET alerts]
    /\ calls \subseteq [alert : alerts, hook : Webhooks]
    /\ awaited \subseteq [alert : alerts, hook : Webhooks]
    /\ client \in {"open", "closed"}
    /\ phase \in {"running", "stopping", "closing", "exited"}
    /\ alerts \subseteq AlertRecords
    /\ silenced \subseteq AlertRecords
    /\ written \subseteq alerts

\* Two alerts of a rule for the same camera and zone are at least its cooldown
\* apart: whatever is seen in between, by however many detections of one frame,
\* and whichever other cameras use the engine.
CooldownHolds ==
    \A a, b \in alerts :
        a /= b /\ KeyOf(a) = KeyOf(b) /\ Cooldown(KeyOf(a)) > 0
            => \/ b.at >= a.at + Cooldown(KeyOf(a))
               \/ a.at >= b.at + Cooldown(KeyOf(a))

\* Nothing else suppresses an alert: one of the same rule, camera and zone has
\* been less than a cooldown ago, in an earlier frame or earlier in this one.  The
\* exception is a host that has started less than a cooldown ago, for which the
\* engine takes its start for an alert.
SilenceExplained ==
    \A s \in silenced :
        \/ \E a \in alerts :
            /\ KeyOf(a) = KeyOf(s)
            /\ a.frame <= s.frame /\ a.at <= s.at /\ s.at < a.at + Cooldown(KeyOf(s))
        \/ s.at < Cooldown(KeyOf(s))

\* The window of a rule is one stretch of the day, from the minute it opens to
\* the one it closes, also when that is past midnight.
WindowIsOneStretch ==
    \A rule \in Rules : \A window \in RuleOf[rule].schedule :
        Contains(window, hhmm)
            <=> (hhmm - window.after) % Day <= (window.before - window.after) % Day

\* No webhook is called over a client that is closed: at the end every call has
\* settled and no camera is left to start another.
ClientOpenWhenUsed ==
    client = "closed" => calls = {} /\ \A camera \in Cameras : pc[camera] = "done"

\* The row of an alert that has one is given to the buffer once, in the write of
\* the frame of the alert: nothing is dropped before the buffer, whatever becomes
\* of the camera, and no write takes along what belongs to another.
RowsAccounted ==
    LET owed == {a \in alerts : RuleOf[a.rule].table}
    IN  /\ owed = written \cup UNION {rows[camera] : camera \in Cameras}
        /\ \A camera \in Cameras : \A a, b \in rows[camera] :
            a.camera = camera /\ a.frame = b.frame /\ a \notin written

-----------------------------------------------------------------------------
(* Liveness.                                                               *)

\* The shutdown ends, whatever the cameras do and however many webhooks have yet
\* to answer.
ShutdownEnds == phase = "stopping" ~> phase = "exited"
=============================================================================
