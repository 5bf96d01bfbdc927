---------------------------- MODULE AlertsProofs ----------------------------
(* Proofs about the cooldowns of Alerts, for any rules, cameras and frames.  *)
EXTENDS Alerts, WellFoundedInduction, TLAPS

\* Types of what the engine reads and writes.
EngineTypes ==
    /\ now \in Nat /\ hhmm \in 0..(Day - 1) /\ frames \in Nat
    /\ lastFired \in [Keys -> Nat]
    /\ alerts \subseteq AlertRecords
    /\ silenced \subseteq AlertRecords

\* An alert is of an earlier frame, and no later than what the engine remembers.
Remembered ==
    \A a \in alerts : a.frame < frames /\ a.at <= lastFired[KeyOf(a)]

\* What the engine remembers is an alert, and not one to come.
Justified ==
    \A key \in Keys :
        /\ lastFired[key] <= now
        /\ \/ lastFired[key] = 0
           \/ \E a \in alerts : KeyOf(a) = key /\ a.at = lastFired[key]

IInv == EngineTypes /\ Remembered /\ Justified /\ CooldownHolds /\ SilenceExplained

-----------------------------------------------------------------------------
(* Lemmas.                                                                 *)

LEMMA KeyOfType ==
    ASSUME NEW a \in AlertRecords
    PROVE  KeyOf(a) \in Keys /\ Cooldown(KeyOf(a)) \in Nat
BY AlertsAssumption DEF KeyOf, Keys, AlertRecords, Cooldown

\* The order of the natural numbers.
Below == {ss \in Nat \X Nat : ss[1] < ss[2]}

LEMMA BelowIsWellFounded == IsWellFoundedOn(Below, Nat)
BY NatLessThanWellFounded DEF OpToRel, Below

\* A set of natural numbers that is not empty has a least one.
LEMMA Least ==
    ASSUME NEW T \in SUBSET Nat, T # {}
    PROVE  \E x \in T : \A y \in T : x <= y
<1>1. PICK x \in T : \A y \in T : ~ (<<y, x>> \in Below)
    BY BelowIsWellFounded, WFMin
<1>2. ASSUME NEW y \in T PROVE x <= y
    <2>1. x \in Nat /\ y \in Nat /\ <<y, x>> \notin Below
        BY <1>1
    <2>2. <<y, x>> \in Nat \X Nat
        BY <2>1
    <2>3. ~ (y < x)
        BY <2>1, <2>2 DEF Below
    <2> QED
        BY <2>1, <2>3
<1> QED
    BY <1>2

\* The alerts a frame may raise: they are of this frame, camera and instant, and
\* no two are the same match of the same detection.
LEMMA CandidatesOfFrame ==
    ASSUME EngineTypes, NEW camera \in Cameras, NEW frame \in Frames
    PROVE  /\ Candidates(camera, frame) \subseteq AlertRecords
           /\ \A a \in Candidates(camera, frame) : a.frame = frames /\ a.at = now
           /\ \A a, b \in Candidates(camera, frame) :
                KeyOf(a) = KeyOf(b) /\ a.nth = b.nth => a = b
<1>1. frame \in Seq(Detections)
    BY AlertsAssumption
<1>2. ASSUME NEW i \in DOMAIN frame
      PROVE  i \in Nat /\ frame[i].zone \in Zones
    <2>1. i \in Nat /\ frame[i] \in Detections
        BY <1>1
    <2>2. \A det \in Detections : det.zone \in Zones
        BY DEF Detections
    <2> QED
        BY <2>1, <2>2
<1>3. \A m \in Notified(camera, frame) : m.nth \in DOMAIN frame /\ m.rule \in Rules
    BY DEF Notified
<1> QED
    BY <1>2, <1>3 DEF Candidates, AlertRecords, EngineTypes, KeyOf

\* In every key that matches without a cooldown running, the first match fires.
LEMMA FirstFires ==
    ASSUME EngineTypes, NEW camera \in Cameras, NEW frame \in Frames,
           NEW s \in Candidates(camera, frame), ~ Cooling(KeyOf(s))
    PROVE  \E a \in Fired(camera, frame) : KeyOf(a) = KeyOf(s)
<1> DEFINE Same == {b \in Candidates(camera, frame) : KeyOf(b) = KeyOf(s)}
           Places == {b.nth : b \in Same}
<1>1. Places \in SUBSET Nat /\ Places # {}
    BY CandidatesOfFrame DEF AlertRecords
<1>2. PICK n \in Places : \A k \in Places : n <= k
    BY <1>1, Least
<1>3. PICK a \in Same : a.nth = n
    BY <1>2
<1>4. a \in Fired(camera, frame)
    BY <1>2, <1>3 DEF Fired
<1> QED
    BY <1>3, <1>4

\* The cooldowns survive the alerts of a frame.
LEMMA ProcessStep ==
    ASSUME IInv, NEW camera \in Cameras, NEW frame \in Frames, Process(camera, frame)
    PROVE  IInv'
<1> DEFINE fired == Fired(camera, frame)
<1>1. EngineTypes /\ Remembered /\ Justified /\ CooldownHolds /\ SilenceExplained
    BY DEF IInv
<1>2. /\ frames' = frames + 1
      /\ lastFired' = Remember(fired)
      /\ alerts' = alerts \cup fired
      /\ silenced' = Candidates(camera, frame) \ fired
      /\ UNCHANGED <<now, hhmm>>
    BY DEF Process
<1>3. /\ fired \subseteq Candidates(camera, frame)
      /\ \A a \in fired : ~ Cooling(KeyOf(a))
      /\ \A a, b \in fired : KeyOf(a) = KeyOf(b) /\ Cooldown(KeyOf(a)) # 0
                                => a.nth <= b.nth /\ b.nth <= a.nth
    BY DEF Fired
<1>4. /\ fired \subseteq AlertRecords
      /\ \A a \in fired : a.frame = frames /\ a.at = now
    BY <1>1, <1>3, CandidatesOfFrame
<1>5. \A key \in Keys : lastFired'[key] = IF \E a \in fired : KeyOf(a) = key
                                          THEN now ELSE lastFired[key]
    BY <1>2 DEF Remember
<1> HIDE DEF fired
<1>6. EngineTypes'
    <2>1. lastFired' \in [Keys -> Nat]
        BY <1>1, <1>2 DEF Remember, EngineTypes
    <2> QED
        BY <1>1, <1>2, <1>4, <2>1, CandidatesOfFrame DEF EngineTypes, AlertRecords
<1>7. Remembered'
    <2>1. ASSUME NEW a \in alerts'
          PROVE  a.frame < frames' /\ a.at <= lastFired'[KeyOf(a)]
        <3>1. a \in AlertRecords /\ KeyOf(a) \in Keys
            BY <1>1, <1>2, <1>4, KeyOfType DEF EngineTypes
        <3>2. lastFired[KeyOf(a)] <= now /\ lastFired[KeyOf(a)] \in Nat /\ now \in Nat
            BY <1>1, <3>1 DEF Justified, EngineTypes
        <3>3. CASE a \in fired
            BY <1>1, <1>2, <1>4, <1>5, <3>1, <3>3 DEF EngineTypes
        <3>4. CASE a \in alerts
            <4>1. a.frame < frames /\ a.at <= lastFired[KeyOf(a)]
                BY <1>1, <3>4 DEF Remembered
            <4>2. a.at \in Nat /\ a.frame \in Nat /\ frames \in Nat
                BY <1>1, <3>1 DEF AlertRecords, EngineTypes
            <4> QED
                BY <1>2, <1>5, <3>1, <3>2, <4>1, <4>2
        <3> QED
            BY <1>2, <3>3, <3>4
    <2> QED
        BY <2>1 DEF Remembered, KeyOf
<1>8. Justified'
    <2>1. ASSUME NEW key \in Keys
          PROVE  /\ lastFired'[key] <= now'
                 /\ \/ lastFired'[key] = 0
                    \/ \E a \in alerts' : KeyOf(a) = key /\ a.at = lastFired'[key]
        <3>1. CASE \E a \in fired : KeyOf(a) = key
            BY <1>1, <1>2, <1>4, <1>5, <3>1 DEF EngineTypes
        <3>2. CASE ~ \E a \in fired : KeyOf(a) = key
            BY <1>1, <1>2, <1>5, <3>2 DEF Justified
        <3> QED
            BY <3>1, <3>2
    <2> QED
        BY <2>1 DEF Justified, KeyOf
<1>9. CooldownHolds'
    <2>1. ASSUME NEW a \in alerts, NEW b \in fired,
                 KeyOf(a) = KeyOf(b), Cooldown(KeyOf(a)) > 0
          PROVE  b.at >= a.at + Cooldown(KeyOf(a))
        <3>1. ~ (now - lastFired[KeyOf(b)] < Cooldown(KeyOf(b)))
            BY <1>3, <2>1 DEF Cooling
        <3>2. a.at <= lastFired[KeyOf(a)] /\ b.at = now
            BY <1>1, <1>4 DEF Remembered
        <3>3. a \in AlertRecords /\ a.at \in Nat
            BY <1>1 DEF EngineTypes, AlertRecords
        <3>4. now \in Nat /\ lastFired[KeyOf(a)] \in Nat /\ Cooldown(KeyOf(a)) \in Nat
            BY <1>1, <3>3, KeyOfType DEF EngineTypes
        <3> QED
            BY <2>1, <3>1, <3>2, <3>3, <3>4
    <2>2. ASSUME NEW a \in fired, NEW b \in fired,
                 KeyOf(a) = KeyOf(b), Cooldown(KeyOf(a)) > 0
          PROVE  a = b
        <3>1. Cooldown(KeyOf(a)) # 0 /\ a.nth \in Nat /\ b.nth \in Nat
            BY <1>4, <2>2, KeyOfType DEF AlertRecords
        <3>2. a.nth = b.nth
            BY <1>3, <2>2, <3>1
        <3> QED
            BY <1>1, <1>3, <2>2, <3>2, CandidatesOfFrame
    <2>3. ASSUME NEW a \in alerts \cup fired, NEW b \in alerts \cup fired,
                 a # b, KeyOf(a) = KeyOf(b), Cooldown(KeyOf(a)) > 0
          PROVE  \/ b.at >= a.at + Cooldown(KeyOf(a))
                 \/ a.at >= b.at + Cooldown(KeyOf(a))
        BY <1>1, <2>1, <2>2, <2>3 DEF CooldownHolds
    <2> QED
        BY <1>2, <2>3 DEF CooldownHolds, KeyOf, Cooldown
<1>10. SilenceExplained'
    <2>1. ASSUME NEW s \in Candidates(camera, frame) \ fired
          PROVE  \/ \E a \in alerts' :
                     /\ KeyOf(a) = KeyOf(s)
                     /\ a.frame <= s.frame /\ a.at <= s.at /\ s.at < a.at + Cooldown(KeyOf(s))
                 \/ s.at < Cooldown(KeyOf(s))
        <3>1. /\ s \in AlertRecords /\ s.frame = frames /\ s.at = now
              /\ KeyOf(s) \in Keys /\ Cooldown(KeyOf(s)) \in Nat
            BY <1>1, CandidatesOfFrame, KeyOfType
        <3>2. now \in Nat /\ frames \in Nat /\ lastFired[KeyOf(s)] \in Nat
            BY <1>1, <3>1 DEF EngineTypes
        <3>3. CASE Cooling(KeyOf(s))
            <4>1. now - lastFired[KeyOf(s)] < Cooldown(KeyOf(s)) /\ lastFired[KeyOf(s)] <= now
                BY <1>1, <3>1, <3>3 DEF Cooling, Justified
            <4>2. CASE lastFired[KeyOf(s)] = 0
                BY <3>1, <3>2, <4>1, <4>2
            <4>3. CASE lastFired[KeyOf(s)] # 0
                <5>1. PICK a \in alerts : KeyOf(a) = KeyOf(s) /\ a.at = lastFired[KeyOf(s)]
                    BY <1>1, <3>1, <4>3 DEF Justified
                <5>2. a.frame < frames /\ a.frame \in Nat
                    BY <1>1 DEF Remembered, EngineTypes, AlertRecords
                <5> QED
                    BY <1>2, <3>1, <3>2, <4>1, <5>1, <5>2
            <4> QED
                BY <4>2, <4>3
        <3>4. CASE ~ Cooling(KeyOf(s))
            <4>1. PICK a \in fired : KeyOf(a) = KeyOf(s)
                BY <1>1, <3>4, FirstFires DEF fired
            <4>2. a.frame = frames /\ a.at = now /\ a \in alerts'
                BY <1>2, <1>4
            <4>3. Cooldown(KeyOf(s)) # 0
                BY <2>1, <3>4 DEF Fired, fired
            <4> QED
                BY <3>1, <3>2, <4>1, <4>2, <4>3
        <3> QED
            BY <3>3, <3>4
    <2> QED
        BY <1>2, <2>1 DEF SilenceExplained, KeyOf, Cooldown
<1> QED
    BY <1>6, <1>7, <1>8, <1>9, <1>10 DEF IInv

LEMMA InitIInv == Init => IInv
<1> SUFFICES ASSUME Init PROVE IInv
    OBVIOUS
<1>1. now \in Nat /\ hhmm \in 0..(Day - 1)
    BY AlertsAssumption DEF Init
<1>2. /\ lastFired = [key \in Keys |-> 0] /\ frames = 0
      /\ alerts = {} /\ silenced = {}
    BY DEF Init
<1>3. EngineTypes /\ Remembered /\ Justified
    BY <1>1, <1>2 DEF EngineTypes, Remembered, Justified
<1>4. CooldownHolds /\ SilenceExplained
    BY <1>2 DEF CooldownHolds, SilenceExplained
<1> QED
    BY <1>3, <1>4 DEF IInv

\* Time goes on.
LEMMA TickStep == IInv /\ Tick => IInv'
<1> SUFFICES ASSUME IInv, Tick PROVE IInv'
    OBVIOUS
<1>1. /\ now' = now + 1 /\ hhmm' = (hhmm + 1) % Day
      /\ UNCHANGED <<lastFired, frames, alerts, silenced>>
    BY DEF Tick, engine, NextMinute
<1>2. EngineTypes /\ Remembered /\ Justified /\ CooldownHolds /\ SilenceExplained
    BY DEF IInv
<1>3. EngineTypes'
    <2>1. hhmm' \in 0..(Day - 1)
        BY <1>1, <1>2, AlertsAssumption DEF EngineTypes
    <2> QED
        BY <1>1, <1>2, <2>1 DEF EngineTypes
<1>4. Justified'
    <2>1. \A key \in Keys : lastFired[key] \in Nat
        BY <1>2 DEF EngineTypes
    <2> QED
        BY <1>1, <1>2, <2>1 DEF Justified, KeyOf, EngineTypes
<1>5. Remembered' /\ CooldownHolds' /\ SilenceExplained'
    BY <1>1, <1>2 DEF Remembered, CooldownHolds, SilenceExplained, KeyOf, Cooldown
<1> QED
    BY <1>3, <1>4, <1>5 DEF IInv

\* Nothing else touches the engine or the clock.
LEMMA ElsewhereStep ==
    IInv /\ UNCHANGED <<now, hhmm, engine>> => IInv'
BY DEF IInv, EngineTypes, Remembered, Justified, CooldownHolds, SilenceExplained,
       engine, KeyOf, Cooldown

LEMMA NextIInv == IInv /\ [Next]_vars => IInv'
<1> SUFFICES ASSUME IInv, [Next]_vars PROVE IInv'
    OBVIOUS
<1>1. CASE Tick
    BY <1>1, TickStep
<1>2. CASE \E camera \in Cameras : \E frame \in Frames : Process(camera, frame)
    BY <1>2, ProcessStep
<1>3. CASE \E camera \in Cameras : WriteEnds(camera) \/ Leave(camera)
    BY <1>3, ElsewhereStep DEF WriteEnds, Leave
<1>4. CASE \E call \in calls : Settle(call)
    BY <1>4, ElsewhereStep DEF Settle
<1>5. CASE Stop \/ Abandon \/ Gather \/ CloseClient \/ StopRaises
    BY <1>5, ElsewhereStep DEF Stop, Abandon, Gather, CloseClient, StopRaises
<1>6. CASE UNCHANGED vars
    BY <1>6, ElsewhereStep DEF vars
<1> QED
    BY <1>1, <1>2, <1>3, <1>4, <1>5, <1>6 DEF Next

LEMMA Invariant == Spec => []IInv
BY InitIInv, NextIInv, PTL DEF Spec

-----------------------------------------------------------------------------
(* What becomes of the alerts.                                             *)

\* A camera that is not in a write has no rows.
Resting == \A camera \in Cameras : pc[camera] # "writing" => rows[camera] = {}

\* Once the notifier is asked to stop, no camera is left and every call that has
\* not settled is waited for.
Quiet ==
    /\ phase \in {"closing", "exited"} => CamerasDown /\ calls \subseteq awaited
    /\ client = "closed" => phase = "exited" /\ calls = {}

Outcome == TypeOK /\ Resting /\ Quiet /\ RowsAccounted

LEMMA InitOutcome == Init => Outcome
<1> SUFFICES ASSUME Init PROVE Outcome
    OBVIOUS
<1>1. EngineTypes
    BY InitIInv DEF IInv
<1>2. /\ pc = [camera \in Cameras |-> "reading"] /\ rows = [camera \in Cameras |-> {}]
      /\ calls = {} /\ client = "open" /\ awaited = {} /\ phase = "running"
      /\ alerts = {} /\ silenced = {} /\ written = {}
    BY DEF Init
<1>3. TypeOK
    BY <1>1, <1>2 DEF EngineTypes, TypeOK
<1>4. RowsAccounted
    <2>1. UNION {rows[camera] : camera \in Cameras} = {}
        BY <1>2
    <2> QED
        BY <1>2, <2>1 DEF RowsAccounted
<1> QED
    BY <1>2, <1>3, <1>4 DEF Outcome, Resting, Quiet

\* A frame: its rows are new, since no earlier alert is of this frame.
LEMMA ProcessOutcome ==
    ASSUME IInv, Outcome, NEW camera \in Cameras, NEW frame \in Frames,
           Process(camera, frame)
    PROVE  Outcome'
<1> DEFINE fired == Fired(camera, frame)
           new == NotificationRows(fired)
<1>1. /\ alerts' = alerts \cup fired
      /\ calls' = calls \cup Sends(fired)
      /\ rows' = [rows EXCEPT ![camera] = new]
      /\ pc[camera] = "reading"
      /\ pc' \in {pc, [pc EXCEPT ![camera] = "writing"]}
      /\ new # {} => pc' = [pc EXCEPT ![camera] = "writing"]
      /\ UNCHANGED <<client, awaited, phase, written>>
    BY DEF Process
<1>2. EngineTypes'
    BY ProcessStep DEF IInv
<1>3. TypeOK /\ Resting /\ Quiet /\ RowsAccounted /\ Remembered /\ EngineTypes
    BY DEF Outcome, IInv
<1>4. /\ fired \subseteq Candidates(camera, frame)
      /\ Sends(fired) \subseteq [alert : fired, hook : Webhooks]
      /\ new = {a \in fired : RuleOf[a.rule].table}
    BY DEF Fired, Sends, NotificationRows
<1>5. \A a \in fired : a.frame = frames /\ a.camera = camera
    BY <1>3, <1>4, CandidatesOfFrame DEF Candidates
<1> HIDE DEF fired, new
<1>6. TypeOK'
    <2>1. rows' \in [Cameras -> SUBSET alerts']
        BY <1>1, <1>3, <1>4 DEF TypeOK
    <2>2. pc' \in [Cameras -> {"reading", "writing", "done"}]
        BY <1>1, <1>3 DEF TypeOK
    <2>3. calls' \subseteq [alert : alerts', hook : Webhooks]
        BY <1>1, <1>3, <1>4 DEF TypeOK
    <2>4. awaited' \subseteq [alert : alerts', hook : Webhooks] /\ written' \subseteq alerts'
        BY <1>1, <1>3 DEF TypeOK
    <2> QED
        BY <1>1, <1>2, <1>3, <2>1, <2>2, <2>3, <2>4 DEF EngineTypes, TypeOK
<1>7. Resting'
    BY <1>1, <1>3 DEF Resting, TypeOK
<1>8. Quiet'
    <2>1. ~CamerasDown
        BY <1>1 DEF CamerasDown
    <2> QED
        BY <1>1, <1>3, <2>1 DEF Quiet
<1>9. RowsAccounted'
    <2>1. rows[camera] = {}
        BY <1>1, <1>3 DEF Resting
    <2>2. /\ rows'[camera] = new
          /\ \A d \in Cameras \ {camera} : rows'[d] = rows[d]
        BY <1>1, <1>3 DEF TypeOK
    <2>3. UNION {rows'[d] : d \in Cameras} = new \cup UNION {rows[d] : d \in Cameras}
        BY <2>1, <2>2
    <2>4. {a \in alerts' : RuleOf[a.rule].table}
            = {a \in alerts : RuleOf[a.rule].table} \cup new
        BY <1>1, <1>4
    <2>5. \A a \in new : a \notin written
        BY <1>3, <1>4, <1>5 DEF TypeOK, Remembered
    <2>6. \A d \in Cameras : \A a, b \in rows'[d] :
            a.camera = d /\ a.frame = b.frame /\ a \notin written'
        BY <1>1, <1>3, <1>4, <1>5, <2>2, <2>5 DEF RowsAccounted
    <2> QED
        BY <1>1, <1>3, <2>3, <2>4, <2>6 DEF RowsAccounted
<1> QED
    BY <1>6, <1>7, <1>8, <1>9 DEF Outcome

\* The end of a write hands its rows over, and those of no other camera.
LEMMA WriteOutcome ==
    ASSUME Outcome, NEW camera \in Cameras, WriteEnds(camera)
    PROVE  Outcome'
<1>1. TypeOK /\ Resting /\ Quiet /\ RowsAccounted
    BY DEF Outcome
<1>2. /\ pc[camera] = "writing"
      /\ pc' = [pc EXCEPT ![camera] = "reading"]
      /\ rows' = [rows EXCEPT ![camera] = {}]
      /\ written' = written \cup rows[camera]
      /\ UNCHANGED <<now, hhmm, engine, notifier, phase>>
    BY DEF WriteEnds
<1>3. /\ rows'[camera] = {} /\ pc'[camera] = "reading"
      /\ \A d \in Cameras \ {camera} : rows'[d] = rows[d] /\ pc'[d] = pc[d]
    BY <1>1, <1>2 DEF TypeOK
<1>4. TypeOK'
    BY <1>1, <1>2 DEF TypeOK, engine, notifier
<1>5. Resting' /\ Quiet'
    BY <1>1, <1>2, <1>3 DEF Resting, Quiet, CamerasDown, notifier
<1>6. RowsAccounted'
    <2>1. UNION {rows[d] : d \in Cameras} = rows[camera] \cup UNION {rows'[d] : d \in Cameras}
        BY <1>3
    <2>2. alerts' = alerts
        BY <1>2 DEF engine
    <2>3. \A d \in Cameras : \A a, b \in rows'[d] :
            a.camera = d /\ a.frame = b.frame /\ a \notin written'
        BY <1>1, <1>2, <1>3 DEF RowsAccounted
    <2> QED
        BY <1>1, <1>2, <2>1, <2>2, <2>3 DEF RowsAccounted
<1> QED
    BY <1>4, <1>5, <1>6 DEF Outcome

\* The shutdown timeout hands over what the cameras were writing.
LEMMA AbandonOutcome == Outcome /\ Abandon => Outcome'
<1> SUFFICES ASSUME Outcome, Abandon PROVE Outcome'
    OBVIOUS
<1>1. TypeOK /\ Resting /\ Quiet /\ RowsAccounted
    BY DEF Outcome
<1>2. /\ pc' = [camera \in Cameras |-> "done"]
      /\ rows' = [camera \in Cameras |-> {}]
      /\ written' = written \cup UNION {rows[camera] : camera \in Cameras}
      /\ phase = "stopping"
      /\ UNCHANGED <<now, hhmm, engine, notifier, phase>>
    BY DEF Abandon
<1>3. TypeOK'
    BY <1>1, <1>2 DEF TypeOK, engine, notifier
<1>4. Resting' /\ Quiet'
    BY <1>1, <1>2 DEF Resting, Quiet, notifier
<1>5. RowsAccounted'
    <2>1. UNION {rows'[camera] : camera \in Cameras} = {}
        BY <1>2
    <2>2. alerts' = alerts
        BY <1>2 DEF engine
    <2> QED
        BY <1>1, <1>2, <2>1, <2>2 DEF RowsAccounted
<1> QED
    BY <1>3, <1>4, <1>5 DEF Outcome

\* The rest of the shutdown, and the webhooks.
LEMMA ShutdownOutcome ==
    ASSUME Outcome,
           \/ \E camera \in Cameras : Leave(camera)
           \/ \E call \in calls : Settle(call)
           \/ Stop \/ Gather \/ CloseClient \/ StopRaises
    PROVE  Outcome'
<1>1. TypeOK /\ Resting /\ Quiet /\ RowsAccounted
    BY DEF Outcome
<1>2. UNCHANGED <<now, hhmm, engine, rows, written>>
    BY DEF Leave, Settle, Stop, Gather, CloseClient, StopRaises
<1>3. TypeOK'
    BY <1>1, <1>2 DEF TypeOK, engine, notifier, Leave, Settle, Stop, Gather, CloseClient,
                      StopRaises
<1>4. Resting'
    BY <1>1, <1>2 DEF TypeOK, Resting, Leave, Settle, Stop, Gather, CloseClient, StopRaises
<1>5. Quiet'
    BY <1>1 DEF TypeOK, Quiet, CamerasDown, AllSettled, notifier, Leave, Settle, Stop, Gather,
                CloseClient, StopRaises
<1>6. RowsAccounted'
    BY <1>1, <1>2 DEF RowsAccounted, engine
<1> QED
    BY <1>3, <1>4, <1>5, <1>6 DEF Outcome

\* Time goes on.
LEMMA TickOutcome == IInv /\ Outcome /\ Tick => Outcome'
<1> SUFFICES ASSUME IInv, Outcome, Tick PROVE Outcome'
    OBVIOUS
<1>1. EngineTypes'
    BY TickStep DEF IInv
<1>2. UNCHANGED <<engine, pc, rows, notifier, phase, written>>
    BY DEF Tick
<1>3. TypeOK' /\ Resting' /\ Quiet' /\ RowsAccounted'
    BY <1>1, <1>2 DEF EngineTypes, Outcome, TypeOK, Resting, Quiet, RowsAccounted, CamerasDown,
                      engine, notifier
<1> QED
    BY <1>3 DEF Outcome

LEMMA NextOutcome == IInv /\ Outcome /\ [Next]_vars => Outcome'
<1> SUFFICES ASSUME IInv, Outcome, [Next]_vars PROVE Outcome'
    OBVIOUS
<1>1. CASE Tick
    BY <1>1, TickOutcome
<1>2. CASE \E camera \in Cameras : \E frame \in Frames : Process(camera, frame)
    BY <1>2, ProcessOutcome
<1>3. CASE \E camera \in Cameras : WriteEnds(camera)
    BY <1>3, WriteOutcome
<1>4. CASE Abandon
    BY <1>4, AbandonOutcome
<1>5. CASE \/ \E camera \in Cameras : Leave(camera)
           \/ \E call \in calls : Settle(call)
           \/ Stop \/ Gather \/ CloseClient \/ StopRaises
    BY <1>5, ShutdownOutcome
<1>6. CASE UNCHANGED vars
    BY <1>6 DEF Outcome, TypeOK, Resting, Quiet, RowsAccounted, CamerasDown, vars, engine, notifier
<1> QED
    BY <1>1, <1>2, <1>3, <1>4, <1>5, <1>6 DEF Next

LEMMA Ends == Spec => []Outcome
BY Invariant, InitOutcome, NextOutcome, PTL DEF Spec

-----------------------------------------------------------------------------
(* Theorems.                                                               *)

\* RulesEngine.filter_and_tag (core/rules/engine.py): whatever the rules and the
\* frames are, two alerts of one rule, camera and zone are a cooldown apart.
THEOREM CooldownApart == Spec => []CooldownHolds
<1>1. IInv => CooldownHolds
    BY DEF IInv
<1> QED
    BY <1>1, Invariant, PTL

\* The same engine suppresses nothing without a reason: an alert of the same rule,
\* camera and zone less than a cooldown ago, or a host that has just started.
THEOREM SilenceHasAReason == Spec => []SilenceExplained
<1>1. IInv => SilenceExplained
    BY DEF IInv
<1> QED
    BY <1>1, Invariant, PTL

\* RuleSchedule.contains (core/config/rule.py): the comparison of HH:MM is the
\* stretch of the day from after to before, for every window and every minute.
THEOREM ScheduleIsOneStretch == Spec => []WindowIsOneStretch
<1>1. ASSUME NEW w \in Windows, NEW t \in 0..(Day - 1)
      PROVE  Contains(w, t) <=> (t - w.after) % Day <= (w.before - w.after) % Day
    <2> DEFINE Turn(d) == IF d >= 0 THEN d ELSE d + Day
    <2>1. /\ w.after \in 0..(Day - 1) /\ w.before \in 0..(Day - 1)
          /\ Day \in Nat \ {0}
        BY AlertsAssumption DEF Windows
    <2>2. \A d \in (1 - Day)..(Day - 1) : d % Day = Turn(d)
        BY <2>1
    <2>3. /\ (t - w.after) % Day = Turn(t - w.after)
          /\ (w.before - w.after) % Day = Turn(w.before - w.after)
        BY <2>1, <2>2
    <2> QED
        BY <2>1, <2>3 DEF Contains
<1>2. IInv => WindowIsOneStretch
    BY <1>1, AlertsAssumption DEF IInv, EngineTypes, WindowIsOneStretch
<1> QED
    BY <1>2, Invariant, PTL

\* Every variable of the alerts keeps its type; what is written, sent and gathered
\* is of alerts that have fired.
THEOREM Typing == Spec => []TypeOK
<1>1. Outcome => TypeOK
    BY DEF Outcome
<1> QED
    BY <1>1, Ends, PTL

\* Notifier.stop (core/notifier/notifier.py) and main.run: the client is closed when
\* no call is under way and no camera can start another.
THEOREM ClosedBehindTheLast == Spec => []ClientOpenWhenUsed
<1>1. Outcome => ClientOpenWhenUsed
    BY DEF Outcome, Quiet, CamerasDown, ClientOpenWhenUsed
<1> QED
    BY <1>1, Ends, PTL

\* CameraPipeline._process: every alert with a table reaches buffer.write once, with
\* the rows of its own camera and frame.
THEOREM EveryRowHandedOver == Spec => []RowsAccounted
<1>1. Outcome => RowsAccounted
    BY DEF Outcome
<1> QED
    BY <1>1, Ends, PTL
=============================================================================
