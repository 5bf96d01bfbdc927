------------------------- MODULE UltralyticsProofs -------------------------
(***************************************************************************)
(* Proofs about the Ultralytics runtime: its captures, for any number of    *)
(* cameras, and its schedule, for every interval, gap and setting of the    *)
(* clock.                                                                   *)
(***************************************************************************)
EXTENDS Captures, ReadPacing, TLAPS

-----------------------------------------------------------------------------
(* Captures.                                                               *)

\* Between taking the lock and giving it back.
Inside == {"locked", "constructs", "hangs", "restores"}

\* One camera at a time is inside, and holds the lock.
Exclusive ==
    \A c \in Cameras : /\ Network(c) /\ at[c] \in Inside => lock = c
                       /\ lock = c => Network(c) /\ at[c] \in Inside

\* The camera inside has the operator's value, first in place and then kept.
Kept ==
    /\ lock = Nobody => env = Operator
    /\ \A c \in Cameras :
        Network(c) => /\ at[c] = "locked" => env = Operator
                      /\ at[c] \in Inside \ {"locked"} =>
                            previous[c] = Operator /\ env = OwnOptions(c)

\* The camera of a device index never comes near the lock.
Apart == \A c \in Usb : at[c] \notin {"waits", "locked", "restores"}

IInv == TypeOK /\ Exclusive /\ Apart /\ Kept /\ OpensWithOwn /\ OneConnection

-----------------------------------------------------------------------------

LEMMA InitIInv == Init => IInv
<1> SUFFICES ASSUME Init PROVE IInv
    OBVIOUS
<1>1. TypeOK
    BY DEF Init, TypeOK, Places, Options
<1>2. Exclusive /\ Apart /\ Kept
    BY CapturesAssumption DEF Init, Exclusive, Apart, Kept, Inside
<1>3. OpensWithOwn /\ OneConnection
    BY DEF Init, OpensWithOwn, OneConnection
<1> QED
    BY <1>1, <1>2, <1>3 DEF IInv

\* Before a camera takes the lock, and after it has given it back, it touches
\* neither the lock nor the variable; and so does the one of a device index.
LEMMA OutsideStep ==
    ASSUME IInv, NEW c \in Cameras,
           \/ Open(c) \/ Reconnect(c) \/ ReadFails(c) \/ Close(c) \/ Ready(c) \/ NotOpen(c)
    PROVE  IInv'
<1>1. TypeOK /\ Exclusive /\ Apart /\ Kept /\ OpensWithOwn /\ OneConnection
    BY DEF IInv
<1>2. UNCHANGED <<lock, env, previous, seen>>
    BY DEF Open, Reconnect, ReadFails, Close, Ready, NotOpen
<1>3. at[c] \in {"idle", "lost", "reads", "probes"}
    BY DEF Open, Reconnect, ReadFails, Close, Ready, NotOpen
<1>4. PICK p \in {"waits", "constructs", "reads", "lost", "closed"} :
        /\ at' = [at EXCEPT ![c] = p]
        /\ p = "constructs" => c \in Usb
        /\ p = "waits" => c \notin Usb
        /\ p = "reads" => at[c] = "probes"
    BY CapturesAssumption DEF Open, Reconnect, Begin, ReadFails, Close, Ready, NotOpen, Set
<1>5. TypeOK'
    <2>1. at' \in [Cameras -> Places]
        BY <1>1, <1>4 DEF TypeOK, Places
    <2>2. cap' \in [Cameras -> BOOLEAN]
        BY <1>1 DEF TypeOK, Open, Reconnect, ReadFails, Close, Ready, NotOpen, Set
    <2>3. made' \in [Cameras -> {"none", "open", "notOpen"}]
        BY <1>1 DEF TypeOK, Open, Reconnect, ReadFails, Close, Ready, NotOpen, Set
    <2> QED
        BY <1>1, <1>2, <2>1, <2>2, <2>3 DEF TypeOK
<1>6. \A d \in Cameras : at'[d] = IF d = c THEN p ELSE at[d]
    BY <1>1, <1>4 DEF TypeOK
<1>7. \A d \in Cameras : Network(d) => (at'[d] \in Inside <=> at[d] \in Inside)
                                       /\ (at'[d] \in Inside => at'[d] = at[d])
    BY <1>3, <1>4, <1>6 DEF Inside, Network
<1>8. Exclusive'
    BY <1>1, <1>2, <1>7 DEF Exclusive, Network
<1>9. Kept'
    <2>1. lock' = Nobody => env' = Operator
        BY <1>1, <1>2 DEF Kept
    <2>2. ASSUME NEW d \in Cameras, Network(d)
          PROVE  /\ at'[d] = "locked" => env' = Operator
                 /\ at'[d] \in Inside \ {"locked"} =>
                        previous'[d] = Operator /\ env' = OwnOptions(d)
        BY <1>1, <1>2, <1>7, <2>2 DEF Kept, Inside
    <2> QED
        BY <2>1, <2>2 DEF Kept, Network, OwnOptions
<1>10. OpensWithOwn'
    BY <1>1, <1>2, <1>3, <1>4, <1>6 DEF OpensWithOwn, Network, OwnOptions
<1>11. OneConnection'
    <2>1. ASSUME NEW d \in Cameras, cap'[d] PROVE at'[d] \in {"reads", "lost"}
        <3>1. CASE d = c /\ (Ready(c) \/ ReadFails(c) \/ NotOpen(c))
            BY <1>1, <3>1 DEF Ready, ReadFails, NotOpen, Set, TypeOK
        <3>2. CASE d = c /\ Open(c)
            BY <1>1, <2>1, <3>2 DEF Open, OneConnection, TypeOK
        <3>3. CASE d = c /\ (Reconnect(c) \/ Close(c))
            BY <1>1, <2>1, <3>3 DEF Reconnect, Close, Set, TypeOK
        <3>4. CASE d # c
            <4>1. cap'[d] = cap[d]
                BY <1>1, <3>4 DEF TypeOK, Open, Reconnect, ReadFails, Close, Ready, NotOpen, Set
            <4> QED
                BY <1>1, <1>6, <2>1, <3>4, <4>1 DEF OneConnection
        <3> QED
            BY <3>1, <3>2, <3>3, <3>4
    <2> QED
        BY <2>1 DEF OneConnection
<1>12. Apart'
    BY <1>1, <1>4, <1>6, CapturesAssumption DEF Apart
<1> QED
    BY <1>5, <1>8, <1>9, <1>10, <1>11, <1>12 DEF IInv

\* Inside, a camera changes what only the holder of the lock may change.
LEMMA InsideStep ==
    ASSUME IInv, NEW c \in Cameras,
           Acquire(c) \/ SetOptions(c) \/ Construct(c) \/ Hang(c) \/ Restore(c)
    PROVE  IInv'
<1>1. TypeOK /\ Exclusive /\ Apart /\ Kept /\ OpensWithOwn /\ OneConnection
    BY DEF IInv
<1>2. /\ cap' = cap
      /\ at[c] \in {"waits", "locked", "constructs", "restores"}
      /\ at[c] \in {"waits", "locked", "restores"} => Acquire(c) \/ SetOptions(c) \/ Restore(c)
    BY DEF Acquire, SetOptions, Construct, Hang, Restore
<1>3. TypeOK'
    <2>1. OwnOptions(c) \in Options
        BY DEF OwnOptions, Options
    <2> QED
        BY <1>1, <2>1 DEF TypeOK, Places, Acquire, SetOptions, Construct, Hang, Restore, Set
<1>4. OneConnection'
    BY <1>1, <1>2 DEF OneConnection, TypeOK, Acquire, SetOptions, Construct, Hang, Restore, Set
<1>5. \A d \in Cameras \ {c} : at'[d] = at[d] /\ previous'[d] = previous[d] /\ seen'[d] = seen[d]
    BY <1>1 DEF TypeOK, Acquire, SetOptions, Construct, Hang, Restore, Set
<1>6. CASE Acquire(c)
    <2>1. /\ at[c] = "waits" /\ at'[c] = "locked" /\ lock = Nobody /\ lock' = c
          /\ UNCHANGED <<env, previous, seen>> /\ Network(c)
        BY <1>1, <1>6 DEF Acquire, Set, TypeOK, Apart, Network
    <2>2. env = Operator /\ \A d \in Cameras : Network(d) => at[d] \notin Inside
        BY <1>1, <2>1, CapturesAssumption DEF Kept, Exclusive
    <2>3. Exclusive'
        BY <1>5, <2>1, <2>2 DEF Exclusive, Network, Inside
    <2>4. Kept'
        BY <1>5, <2>1, <2>2, CapturesAssumption DEF Kept, Network, Inside
    <2>5. OpensWithOwn' /\ Apart'
        BY <1>1, <1>5, <2>1, CapturesAssumption DEF OpensWithOwn, Apart, Network, OwnOptions
    <2> QED
        BY <1>3, <1>4, <2>3, <2>4, <2>5 DEF IInv
<1>7. CASE SetOptions(c)
    <2>1. /\ at[c] = "locked" /\ at'[c] = "constructs" /\ lock' = lock /\ seen' = seen
          /\ previous'[c] = env /\ env' = OwnOptions(c) /\ Network(c)
        BY <1>1, <1>7 DEF SetOptions, Set, TypeOK, Apart, Network
    <2>2. lock = c /\ env = Operator
        BY <1>1, <2>1 DEF Exclusive, Kept, Inside
    <2>3. \A d \in Cameras \ {c} : Network(d) => at[d] \notin Inside
        BY <1>1, <2>2 DEF Exclusive
    <2>4. Exclusive'
        BY <1>1, <1>5, <2>1 DEF Exclusive, Network, Inside
    <2>5. Kept'
        BY <1>5, <2>1, <2>2, <2>3, CapturesAssumption DEF Kept, Network, Inside, OwnOptions
    <2>6. OpensWithOwn' /\ Apart'
        BY <1>1, <1>5, <2>1, CapturesAssumption DEF OpensWithOwn, Apart, Network, OwnOptions
    <2> QED
        BY <1>3, <1>4, <2>4, <2>5, <2>6 DEF IInv
<1>8. CASE Construct(c) \/ Hang(c)
    <2>1. /\ at[c] = "constructs" /\ UNCHANGED <<lock, env, previous>>
          /\ Network(c) => at'[c] \in {"restores", "hangs"}
          /\ ~Network(c) => at'[c] \in {"probes", "hangs"}
          /\ at'[c] \in {"restores", "probes"} => seen'[c] = env
        BY <1>1, <1>8 DEF Construct, Hang, Set, TypeOK, Network
    <2>2. Exclusive'
        BY <1>1, <1>5, <2>1 DEF Exclusive, Network, Inside
    <2>3. Kept'
        BY <1>1, <1>5, <2>1 DEF Kept, Network, Inside, OwnOptions
    <2>4. OpensWithOwn'
        BY <1>1, <1>5, <2>1 DEF OpensWithOwn, Network, OwnOptions, Kept, Inside
    <2>5. Apart'
        BY <1>1, <1>5, <2>1, CapturesAssumption DEF Apart, Network
    <2> QED
        BY <1>3, <1>4, <2>2, <2>3, <2>4, <2>5 DEF IInv
<1>9. CASE Restore(c)
    <2>1. /\ at[c] = "restores" /\ at'[c] = "probes" /\ lock' = Nobody
          /\ env' = previous[c] /\ UNCHANGED <<previous, seen>> /\ Network(c)
        BY <1>1, <1>9 DEF Restore, Set, TypeOK, Apart, Network
    <2>2. lock = c /\ previous[c] = Operator
        BY <1>1, <2>1 DEF Exclusive, Kept, Inside
    <2>3. \A d \in Cameras : Network(d) => at'[d] \notin Inside
        BY <1>1, <1>5, <2>1, <2>2 DEF Exclusive, Inside
    <2>4. Exclusive'
        BY <2>1, <2>3, CapturesAssumption DEF Exclusive, Network
    <2>5. Kept'
        BY <2>1, <2>2, <2>3 DEF Kept, Network, Inside
    <2>6. OpensWithOwn' /\ Apart'
        BY <1>1, <1>5, <2>1, CapturesAssumption DEF OpensWithOwn, Apart, Network, OwnOptions
    <2> QED
        BY <1>3, <1>4, <2>4, <2>5, <2>6 DEF IInv
<1> QED
    BY <1>6, <1>7, <1>8, <1>9

LEMMA Invariance == Spec => []IInv
<1>1. IInv /\ [Next]_vars => IInv'
    <2> SUFFICES ASSUME IInv, [Next]_vars PROVE IInv'
        OBVIOUS
    <2>1. CASE UNCHANGED vars
        BY <2>1 DEF vars, IInv, TypeOK, Exclusive, Apart, Kept, OpensWithOwn, OneConnection,
                    Network, OwnOptions
    <2> QED
        BY <2>1, OutsideStep, InsideStep DEF Next, Connects
<1> QED
    BY <1>1, InitIInv, PTL DEF Spec

\* However many cameras open and reopen their sources at the same time, each capture
\* is constructed with the options of its own source, and the operator's value of
\* the variable is there whenever no source is being opened.
THEOREM CamerasAreIsolated == Spec => []Isolated
<1>1. IInv => Isolated
    BY DEF IInv, Kept, Isolated, OperatorKept
<1> QED
    BY <1>1, Invariance, PTL

\* No camera constructs a capture while it has one.
THEOREM ReleasesFirst == Spec => [](TypeOK /\ OneConnection)
<1>1. IInv => TypeOK /\ OneConnection
    BY DEF IInv
<1> QED
    BY <1>1, Invariance, PTL

-----------------------------------------------------------------------------
(* The contract of CameraRuntime.                                          *)

\* In a step the call and the source of one camera become a and s.
Moves(c, a, s) ==
    /\ Doing(c)' = a /\ Source(c)' = s
    /\ \A d \in Cameras \ {c} : Doing(d)' = Doing(d) /\ Source(d)' = Source(d)

LEMMA Moved ==
    ASSUME NEW c \in Cameras, NEW a, NEW s, Moves(c, a, s)
    PROVE  Contract!Goes(c, a) /\ Contract!Leaves(c, s)
BY DEF Moves, Contract!Goes, Contract!Leaves

\* A step that changes neither is a stutter.
LEMMA ContractStutters ==
    ASSUME \A d \in Cameras : Doing(d)' = Doing(d) /\ Source(d)' = Source(d)
    PROVE  UNCHANGED Contract!runtimeVars
BY DEF Contract!runtimeVars

\* What the contract lets one camera do.
LEMMA Kinds ==
    ASSUME NEW c \in Cameras, NEW a, NEW s, Moves(c, a, s),
           \/ Doing(c) = "none" /\ a = "connect" /\ s = "none"
           \/ Doing(c) = "connect" /\ a = "connect" /\ s \in {"none", "held"}
           \/ Doing(c) = "connect" /\ a = "none" /\ s \in {"none", "held", "live"}
           \/ Doing(c) = "none" /\ a = "none" /\ s = "none"
           \/ Doing(c) = "none" /\ a = "none" /\ Source(c) = "live" /\ s = "held"
    PROVE  [Contract!Next]_(Contract!runtimeVars)
<1>1. Contract!Goes(c, a) /\ Contract!Leaves(c, s)
    BY Moved
<1>2. [d \in Cameras |-> Doing(d)][c] = Doing(c) /\ [d \in Cameras |-> Source(d)][c] = Source(c)
    OBVIOUS
<1> QED
    BY <1>1, <1>2
    DEF Contract!Next, Contract!Calls, Contract!Connects, Contract!Connected,
        Contract!Releases, Contract!Dies, Contract!Lasts

\* A capture is only made while one is opened.
Fresh(c) ==
    /\ at[c] \in {"restores", "probes"} <=> made[c] # "none"
    /\ cap[c] => made[c] = "none"
    /\ at[c] = "reads" => cap[c]

LEMMA FreshStep ==
    ASSUME IInv, \A c \in Cameras : Fresh(c), [Next]_vars, NEW c \in Cameras
    PROVE  Fresh(c)'
<1> USE DEF IInv, TypeOK, OneConnection, Fresh, Set
<1>1. ASSUME NEW d \in Cameras, Connects(d)  PROVE Fresh(c)'
    BY <1>1 DEF Connects, Open, SetOptions, Construct, Restore, Ready, NotOpen, Reconnect, Begin
<1>2. ASSUME NEW d \in Cameras, Acquire(d) \/ Hang(d) \/ ReadFails(d) \/ Close(d)  PROVE Fresh(c)'
    BY <1>2 DEF Acquire, Hang, ReadFails, Close
<1>3. CASE UNCHANGED vars
    BY <1>3 DEF vars
<1> QED
    BY <1>1, <1>2, <1>3 DEF Next

\* Every step is a step of the contract or a stutter.
LEMMA ContractStep ==
    ASSUME IInv, \A c \in Cameras : Fresh(c), [Next]_vars
    PROVE  [Contract!Next]_(Contract!runtimeVars)
<1> USE DEF IInv, TypeOK, OneConnection, Fresh, Places, Set, Moves, Doing, Source
<1>1. ASSUME NEW c \in Cameras, Open(c)  PROVE [Contract!Next]_(Contract!runtimeVars)
    <2>1. Moves(c, "connect", "none") /\ Doing(c) = "none"
        BY <1>1 DEF Open, Begin
    <2> QED
        BY <2>1, Kinds
<1>2. ASSUME NEW c \in Cameras, Acquire(c) \/ SetOptions(c) \/ Hang(c) \/ Restore(c)
      PROVE  [Contract!Next]_(Contract!runtimeVars)
    BY <1>2, ContractStutters DEF Acquire, SetOptions, Hang, Restore
<1>3. ASSUME NEW c \in Cameras, Construct(c)  PROVE [Contract!Next]_(Contract!runtimeVars)
    <2>1. Doing(c) = "connect" /\ (Moves(c, "connect", "held") \/ Moves(c, "connect", "none"))
        BY <1>3 DEF Construct
    <2> QED
        BY <2>1, Kinds
<1>4. ASSUME NEW c \in Cameras, Ready(c) \/ NotOpen(c)
      PROVE  [Contract!Next]_(Contract!runtimeVars)
    <2>1. Doing(c) = "connect" /\ (Moves(c, "none", "live") \/ Moves(c, "none", "none"))
        BY <1>4 DEF Ready, NotOpen
    <2> QED
        BY <2>1, Kinds
<1>5. ASSUME NEW c \in Cameras, ReadFails(c)  PROVE [Contract!Next]_(Contract!runtimeVars)
    <2>1. Doing(c) = "none" /\ Source(c) = "live" /\ Moves(c, "none", "held")
        BY <1>5 DEF ReadFails
    <2> QED
        BY <2>1, Kinds
<1>6. ASSUME NEW c \in Cameras, Reconnect(c)  PROVE [Contract!Next]_(Contract!runtimeVars)
    <2>1. Doing(c) = "none" /\ Moves(c, "connect", "none")
        BY <1>6 DEF Reconnect, Begin
    <2> QED
        BY <2>1, Kinds
<1>7. ASSUME NEW c \in Cameras, Close(c)  PROVE [Contract!Next]_(Contract!runtimeVars)
    <2>1. Doing(c) = "none" /\ Moves(c, "none", "none")
        BY <1>7 DEF Close
    <2> QED
        BY <2>1, Kinds
<1>8. CASE UNCHANGED vars
    BY <1>8, ContractStutters DEF vars
<1> QED
    BY <1>1, <1>2, <1>3, <1>4, <1>5, <1>6, <1>7, <1>8 DEF Next, Connects

\* The Ultralytics cameras keep the contract of a camera runtime, however many of them
\* connect at the same time: a source that was lost is released and connected anew
\* before it is read again.
THEOREM KeepsTheContract == Spec => RuntimeSpec
<1> DEFINE I == \A c \in Cameras : Fresh(c)
<1>1. IInv /\ I /\ [Next]_vars => I'
    BY FreshStep
<1>2. Init => I
    BY DEF Init, Fresh
<1>3. IInv /\ I /\ [Next]_vars => [Contract!Next]_(Contract!runtimeVars)
    BY ContractStep
<1>4. Init => Contract!Init
    BY DEF Init, Contract!Init, Doing, Source
<1> HIDE DEF I
<1> QED
    BY <1>1, <1>2, <1>3, <1>4, Invariance, PTL DEF Spec, RuntimeSpec, Contract!Spec

-----------------------------------------------------------------------------
(* ReadPacing.                                                             *)

\* How far the schedule is ahead of the clock.
Ahead == due - wall

\* What of it counts: a schedule that is further behind is started again, and one
\* that is further ahead has been put there by the clock.
Lead == IF Ahead < -2 * FrameInterval THEN -2 * FrameInterval
        ELSE IF Ahead > FrameInterval THEN FrameInterval
        ELSE Ahead

\* The frames of the window have been paid for by its time and by the lead.
PaidFor == FrameInterval * framesRead <= (real - from) + 2 * FrameInterval + Lead + 3 * FrameInterval * steps

\* While the camera is steady the schedule is never so far behind that an
\* interval would be skipped, and every interval has had its frame.
OnSchedule ==
    steady /\ framesRead > 0 =>
        /\ Ahead >= -FrameInterval
        /\ FrameInterval * framesRead >= (real - from) + Ahead
        /\ FrameInterval * framesRead >= real - from

PaceIInv == PaceTypeOK /\ PaidFor /\ OnSchedule /\ WaitBounded

-----------------------------------------------------------------------------

\* The schedule after a frame.
LEMMA Advanced ==
    ASSUME NEW now \in Nat, due \in Nat, now >= due
    PROVE  /\ Advance(now) \in Nat
           /\ Advance(now) <= now + FrameInterval
           /\ due >= now - 2 * FrameInterval => Advance(now) = due + FrameInterval
           /\ due < now - 2 * FrameInterval => Advance(now) = now + FrameInterval
BY ReadPacingAssumption DEF Advance

\* One frame more costs one interval more.
LEMMA OneMore ==
    ASSUME NEW n \in Nat
    PROVE  /\ FrameInterval * n \in Nat
           /\ FrameInterval * (n + 1) = FrameInterval * n + FrameInterval
           /\ 3 * FrameInterval * (n + 1) = 3 * FrameInterval * n + 3 * FrameInterval
           /\ 3 * FrameInterval * n \in Nat
           /\ FrameInterval * 1 = FrameInterval
           /\ 3 * FrameInterval * 0 = 0
BY ReadPacingAssumption

\* The ledger of a window stays balanced when what is spent is earned.
LEMMA LedgerStep ==
    ASSUME NEW p \in Int, NEW p2 \in Int, NEW e \in Int, NEW e2 \in Int,
           NEW b \in Int, NEW l \in Int, NEW l2 \in Int, NEW s \in Int, NEW s2 \in Int,
           p <= e + b + l + s, p2 - p <= (e2 - e) + (l2 - l) + (s2 - s)
    PROVE  p2 <= e2 + b + l2 + s2
OBVIOUS

LEMMA LedgerFrame ==
    ASSUME NEW p \in Int, NEW e \in Int, NEW b \in Int, NEW l \in Int, NEW l2 \in Int,
           NEW s \in Int, NEW i \in Int, NEW g \in Int,
           p <= e + b + l + s, l2 + g >= l + i
    PROVE  p + i <= (e + g) + b + l2 + s
OBVIOUS

\* A frame is discarded, lost or passed on: only time passes.
LEMMA WaitStep ==
    ASSUME PaceIInv, NEW gap \in 1..MaxGap, Discard(gap) \/ NoFrame(gap)
    PROVE  PaceIInv'
<1> USE ReadPacingAssumption
<1>1. /\ wall \in Nat /\ due \in Nat /\ real \in Nat /\ framesRead \in Nat /\ from \in 0..real
      /\ steps \in Nat /\ steady \in BOOLEAN /\ setback \in Nat /\ gap \in Nat /\ gap > 0
    BY DEF PaceIInv, PaceTypeOK
<1>2. /\ wall' = wall + gap /\ real' = real + gap
      /\ UNCHANGED <<due, framesRead, from, steps, setback>> /\ steady' \in BOOLEAN
    BY <1>1 DEF Discard, NoFrame, TimePasses, Steady
<1>3. PaceTypeOK'
    BY <1>1, <1>2 DEF PaceTypeOK
<1>4. PaidFor'
    <2>1. Lead' >= Lead - gap
        BY <1>1, <1>2 DEF Lead, Ahead
    <2>2. FrameInterval * framesRead \in Nat /\ 3 * FrameInterval * steps \in Nat
        BY <1>1, OneMore
    <2>3. FrameInterval * framesRead' = FrameInterval * framesRead /\ 3 * FrameInterval * steps' = 3 * FrameInterval * steps
        BY <1>2
    <2>4. Lead \in Int /\ Lead' \in Int
        BY <1>1, <1>2 DEF Lead, Ahead
    <2>5. real' - from' = (real - from) + gap
        BY <1>1, <1>2
    <2> QED
        BY <1>1, <2>1, <2>2, <2>3, <2>4, <2>5, LedgerStep DEF PaceIInv, PaidFor
<1>5. OnSchedule'
    <2> SUFFICES ASSUME steady', framesRead' > 0 PROVE OnSchedule'
        BY DEF OnSchedule
    <2>1. steady /\ due > wall + gap
        BY <1>2 DEF Discard, NoFrame, Steady
    <2>2. FrameInterval * framesRead \in Nat
        BY <1>1, OneMore
    <2> QED
        BY <1>1, <1>2, <2>1, <2>2 DEF PaceIInv, OnSchedule, Ahead
<1>6. WaitBounded'
    BY <1>1, <1>2 DEF PaceIInv, WaitBounded
<1> QED
    BY <1>3, <1>4, <1>5, <1>6 DEF PaceIInv

LEMMA PassStep ==
    ASSUME PaceIInv, NEW gap \in 1..MaxGap, Pass(gap)
    PROVE  PaceIInv'
<1> USE ReadPacingAssumption
<1> DEFINE now == wall + gap
<1>1. /\ wall \in Nat /\ due \in Nat /\ real \in Nat /\ framesRead \in Nat /\ from \in 0..real
      /\ steps \in Nat /\ steady \in BOOLEAN /\ setback \in Nat /\ gap \in Nat /\ gap > 0
    BY DEF PaceIInv, PaceTypeOK
<1>2. wall' = now /\ real' = real + gap /\ due' = Advance(now) /\ now >= due /\ setback' = setback
    BY <1>1 DEF Pass, TimePasses
<1>3. /\ due' \in Nat /\ due' <= now + FrameInterval
      /\ due >= now - 2 * FrameInterval => due' = due + FrameInterval
      /\ due < now - 2 * FrameInterval => due' = now + FrameInterval
    BY <1>1, <1>2, Advanced
<1>4. CASE framesRead > 0 /\ framesRead' = framesRead + 1 /\ steady' = Steady(gap)
           /\ UNCHANGED <<from, steps>>
    <2>1. PaceTypeOK'
        BY <1>1, <1>2, <1>3, <1>4 DEF PaceTypeOK, Steady
    <2>2. FrameInterval * framesRead' = FrameInterval * framesRead + FrameInterval /\ FrameInterval * framesRead \in Nat
        BY <1>1, <1>4, OneMore
    <2>3. 3 * FrameInterval * steps \in Nat
        BY <1>1, OneMore
    <2>4. PaidFor'
        <3>1. Lead' + gap >= Lead + FrameInterval
            BY <1>1, <1>2, <1>3 DEF Lead, Ahead
        <3>2. Lead \in Int /\ Lead' \in Int
            BY <1>1, <1>2, <1>3 DEF Lead, Ahead
        <3>3. real' - from' = (real - from) + gap
            BY <1>1, <1>2, <1>4
        <3>4. 3 * FrameInterval * steps' = 3 * FrameInterval * steps
            BY <1>4
        <3>5. FrameInterval * framesRead <= (real - from) + 2 * FrameInterval + Lead + 3 * FrameInterval * steps
            BY DEF PaceIInv, PaidFor
        <3>6. real - from \in Int /\ FrameInterval \in Int /\ gap \in Int
            BY <1>1
        <3>7. FrameInterval * framesRead + FrameInterval
                <= ((real - from) + gap) + 2 * FrameInterval + Lead' + 3 * FrameInterval * steps
            <4>1. 2 * FrameInterval \in Int
                BY <3>6
            <4>2. FrameInterval * framesRead \in Int /\ 3 * FrameInterval * steps \in Int
                BY <2>2, <2>3
            <4> HIDE DEF now
            <4> QED
                BY <3>1, <3>2, <3>5, <3>6, <4>1, <4>2, LedgerFrame
        <3> QED
            BY <2>2, <3>3, <3>4, <3>7 DEF PaidFor
    <2>5. OnSchedule'
        <3> SUFFICES ASSUME steady' PROVE  /\ Ahead' >= -FrameInterval
                   /\ FrameInterval * framesRead' >= (real' - from') + Ahead'
                   /\ FrameInterval * framesRead' >= real' - from'
            BY DEF OnSchedule
        <3>1. steady /\ gap <= FrameInterval
            BY <1>4 DEF Steady
        <3>2. Ahead >= -FrameInterval /\ FrameInterval * framesRead >= (real - from) + Ahead
              /\ FrameInterval * framesRead >= real - from
            BY <1>4, <3>1 DEF PaceIInv, OnSchedule
        <3> QED
            BY <1>1, <1>2, <1>3, <1>4, <2>2, <3>1, <3>2 DEF Ahead
    <2>6. WaitBounded'
        BY <1>1, <1>2, <1>3 DEF WaitBounded
    <2> QED
        BY <2>1, <2>4, <2>5, <2>6 DEF PaceIInv
<1>5. CASE framesRead' = 1 /\ from' = real' /\ steps' = 0 /\ steady' = TRUE
    <2>1. PaceTypeOK'
        BY <1>1, <1>2, <1>3, <1>5 DEF PaceTypeOK
    <2>2. Ahead' >= -FrameInterval /\ Ahead' <= FrameInterval
        BY <1>1, <1>2, <1>3 DEF Ahead
    <2>3. FrameInterval * framesRead' = FrameInterval /\ 3 * FrameInterval * steps' = 0
        BY <1>5, OneMore
    <2>4. Ahead' \in Int
        BY <1>1, <1>2, <1>3 DEF Ahead
    <2>5. real' - from' = 0
        BY <1>1, <1>2, <1>5
    <2>6. PaidFor'
        <3>1. Lead' \in Int /\ Lead' >= -FrameInterval
            BY <2>2, <2>4 DEF Lead
        <3> QED
            BY <2>3, <2>5, <3>1 DEF PaidFor
    <2>7. OnSchedule'
        BY <2>2, <2>3, <2>4, <2>5 DEF OnSchedule
    <2>8. WaitBounded'
        BY <1>1, <1>2, <1>3 DEF WaitBounded
    <2> QED
        BY <2>1, <2>6, <2>7, <2>8 DEF PaceIInv
<1> QED
    BY <1>4, <1>5 DEF Pass

LEMMA ClockStep ==
    ASSUME PaceIInv, NEW d \in ClockSteps, SetClock(d)
    PROVE  PaceIInv'
<1> USE ReadPacingAssumption
<1>1. /\ wall \in Nat /\ due \in Nat /\ real \in Nat /\ framesRead \in Nat /\ from \in 0..real
      /\ steps \in Nat /\ setback \in Nat /\ d \in Int
    BY DEF PaceIInv, PaceTypeOK
<1>2. /\ wall' = wall + d /\ wall' >= 0 /\ steps' = steps + 1 /\ steady' = FALSE
      /\ UNCHANGED <<due, real, framesRead, from>>
      /\ setback' = IF d < 0 THEN setback - d ELSE setback
    BY DEF SetClock
<1>3. PaceTypeOK'
    <2>1. wall' \in Nat
        BY <1>1, <1>2
    <2>2. setback' \in Nat
        BY <1>1, <1>2
    <2>3. steady' \in BOOLEAN
        BY <1>2
    <2> QED
        BY <1>1, <1>2, <2>1, <2>2, <2>3 DEF PaceTypeOK
<1>4. PaidFor'
    <2>1. Lead' >= Lead - 3 * FrameInterval /\ Lead \in Int /\ Lead' \in Int
        BY <1>1, <1>2 DEF Lead, Ahead
    <2>2. 3 * FrameInterval * steps' = 3 * FrameInterval * steps + 3 * FrameInterval
          /\ 3 * FrameInterval * steps \in Nat /\ FrameInterval * framesRead \in Nat
        BY <1>1, <1>2, OneMore
    <2>3. FrameInterval * framesRead' = FrameInterval * framesRead /\ real' - from' = real - from
        BY <1>2
    <2>4. real - from \in Int /\ 3 * FrameInterval * steps' \in Int
        BY <1>1, <2>2
    <2> QED
        BY <2>1, <2>2, <2>3, <2>4, LedgerStep DEF PaceIInv, PaidFor
<1>5. OnSchedule'
    BY <1>2 DEF OnSchedule
<1>6. WaitBounded'
    BY <1>1, <1>2 DEF PaceIInv, WaitBounded
<1> QED
    BY <1>3, <1>4, <1>5, <1>6 DEF PaceIInv

LEMMA PaceInvariance == PaceSpec => []PaceIInv
<1>1. PaceInit => PaceIInv
    <2> SUFFICES ASSUME PaceInit PROVE PaceIInv
        OBVIOUS
    <2>1. wall \in Nat /\ due = 0 /\ real = 0 /\ framesRead = 0 /\ from = 0 /\ steps = 0
          /\ steady = FALSE /\ setback = 0 /\ FrameInterval \in Nat
        BY ReadPacingAssumption DEF PaceInit
    <2>2. FrameInterval * framesRead = 0 /\ 3 * FrameInterval * steps = 0
        BY <2>1
    <2> QED
        <3>1. PaceTypeOK
            <4>1. steady \in BOOLEAN
                BY <2>1
            <4> QED
                BY <2>1, <4>1 DEF PaceTypeOK
        <3>2. Lead \in Int /\ Lead >= -2 * FrameInterval
            BY <2>1 DEF Lead, Ahead
        <3>3. PaidFor
            BY <2>1, <2>2, <3>2 DEF PaidFor
        <3>4. OnSchedule /\ WaitBounded
            BY <2>1 DEF OnSchedule, WaitBounded
        <3> QED
            BY <3>1, <3>3, <3>4 DEF PaceIInv
<1>2. PaceIInv /\ [PaceNext]_paceVars => PaceIInv'
    <2> SUFFICES ASSUME PaceIInv, [PaceNext]_paceVars PROVE PaceIInv'
        OBVIOUS
    <2>1. CASE UNCHANGED paceVars
        BY <2>1 DEF paceVars, windowVars, PaceIInv, PaceTypeOK, PaidFor, OnSchedule, WaitBounded, Lead, Ahead
    <2> QED
        BY <2>1, WaitStep, PassStep, ClockStep DEF PaceNext
<1> QED
    BY <1>1, <1>2, PTL DEF PaceSpec

\* fps_target is a ceiling: for every interval and every way frames come and the
\* clock is set, a burst is at most three frames, and three for each setting.
THEOREM CeilingOfRead == PaceSpec => []BurstBounded
<1>1. PaceIInv => BurstBounded
    <2> SUFFICES ASSUME PaceIInv PROVE BurstBounded
        OBVIOUS
    <2>1. /\ wall \in Nat /\ due \in Nat /\ real \in Nat /\ framesRead \in Nat /\ from \in 0..real
          /\ steps \in Nat /\ FrameInterval \in Nat
        BY ReadPacingAssumption DEF PaceIInv, PaceTypeOK
    <2>2. FrameInterval * framesRead \in Nat /\ 3 * FrameInterval * steps \in Nat
        BY <2>1, OneMore
    <2>3. Lead \in Int /\ Lead <= FrameInterval
        BY <2>1, ReadPacingAssumption DEF Lead, Ahead
    <2> QED
        BY <2>1, <2>2, <2>3 DEF PaceIInv, PaidFor, BurstBounded
<1> QED
    BY <1>1, PaceInvariance, PTL

\* fps_target is reached by a camera that is steady.
THEOREM RateOfRead == PaceSpec => []RateKept
<1>1. PaceIInv => RateKept
    <2> SUFFICES ASSUME PaceIInv, steady, framesRead > 0 PROVE RateKept
        BY DEF RateKept
    <2>1. /\ wall \in Nat /\ due \in Nat /\ real \in Nat /\ framesRead \in Nat /\ from \in 0..real
          /\ FrameInterval \in Nat
        BY ReadPacingAssumption DEF PaceIInv, PaceTypeOK
    <2>2. FrameInterval * framesRead \in Nat
        BY <2>1, OneMore
    <2> QED
        BY <2>1, <2>2 DEF PaceIInv, OnSchedule, RateKept, Ahead
<1> QED
    BY <1>1, PaceInvariance, PTL

\* A wait is an interval and what the clock was set back, and no longer.
THEOREM WaitOfRead == PaceSpec => [](PaceTypeOK /\ WaitBounded)
<1>1. PaceIInv => PaceTypeOK /\ WaitBounded
    BY DEF PaceIInv
<1> QED
    BY <1>1, PaceInvariance, PTL
=============================================================================
