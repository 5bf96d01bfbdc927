-------------------------- MODULE DeepStreamProofs --------------------------
(***************************************************************************)
(* Proofs about the DeepStream runtime: its pipelines, for any number of    *)
(* cameras and of connections, and its rate gate, for all rates and any     *)
(* number of frames.                                                        *)
(***************************************************************************)
EXTENDS DeepStream, RateGate, TLAPS

-----------------------------------------------------------------------------
(* The pipelines.                                                          *)

Calls == {"open", "start", "link", "settle", "pull", "take", "wait", "idle"}

States == {"none", "null", "ready", "paused", "playing"}

Helpers == Unwinds \cup {"none", "waiting", "stuck", "done"}

TypeOK ==
    /\ run \in [Cameras -> {"opening", "first", "down", "up", "ended"}]
    /\ stop \in [Cameras -> BOOLEAN]
    /\ call \in [Cameras -> Calls]
    /\ after \in [Cameras -> {"open", "idle", "ended"}]
    /\ current \in [Cameras -> 0..MaxPipes]
    /\ built \in [Cameras -> 0..MaxPipes]
    /\ linked \in [Cameras -> BOOLEAN]
    /\ failed \in [Cameras -> {"none", "bus", "stopped"}]
    /\ failedBy \in [Cameras -> 0..MaxPipes]
    /\ state \in [Cameras -> [Pipes -> States]]
    /\ video \in [Cameras -> [Pipes -> BOOLEAN]]
    /\ bus \in [Cameras -> [Pipes -> BOOLEAN]]
    /\ helper \in [Cameras -> [Pipes -> Helpers]]
    /\ interrupt \in [Cameras -> [Pipes -> BOOLEAN]]

\* The runtime closes one connection to open the next.
Replaces(c) == call[c] \in {"take", "wait"} /\ after[c] = "open"

\* The runtime has the pipeline it built last.
Holds(c) == call[c] \in {"start", "link", "settle", "pull"} \/ (call[c] = "idle" /\ run[c] = "up")

\* Where the caller and the runtime are together, and which pipeline they have.
Phases(c) ==
    /\ run[c] = "up" => call[c] \in {"idle", "pull"} \/ (call[c] \in {"take", "wait"} /\ after[c] = "ended")
    /\ call[c] = "pull" => run[c] = "up"
    /\ call[c] \in {"take", "wait"} /\ after[c] = "ended" => stop[c]
    /\ call[c] \in {"open", "wait"} => current[c] = 0
    /\ Holds(c) => current[c] = built[c] /\ current[c] # 0
    /\ current[c] \in {0, built[c]}

\* A new connection begins without a failure, and has only its own.
OwnFailure(c) ==
    ~stop[c] => /\ call[c] = "open" \/ Replaces(c) => failed[c] = "none"
                /\ Holds(c) /\ failed[c] # "none" => failedBy[c] = current[c]

\* A new connection begins unlinked, and links only with its own video.
OwnLink(c) ==
    /\ call[c] = "open" \/ Replaces(c) => ~linked[c]
    /\ call[c] \in {"start", "link"} /\ linked[c] => video[c][current[c]]
    /\ (call[c] \in {"settle", "pull"} \/ run[c] = "up") /\ current[c] # 0 => video[c][current[c]]

\* A pipeline that was built is the one the runtime has, or a teardown has it; one
\* that was not built has neither; and a teardown that is done has released it.
Accounted(c) ==
    \A p \in Pipes :
        /\ p > built[c] => helper[c][p] = "none" /\ state[c][p] = "none" /\ ~interrupt[c][p]
        /\ p <= built[c] => (helper[c][p] = "none" <=> p = current[c])
        /\ helper[c][p] = "done" => state[c][p] = "null"

\* _TEARDOWN_LOCK: no two pipelines of the process are torn down at a time.
OneTeardown ==
    \A c, d \in Cameras : \A p, q \in Pipes :
        HasLock(c, p) /\ HasLock(d, q) => c = d /\ p = q

-----------------------------------------------------------------------------

\* A call that raises leaves the caller and the runtime with values they know.
LEMMA RaisesTypes ==
    ASSUME TypeOK, NEW c \in Cameras, Raises(c)
    PROVE  /\ run' \in [Cameras -> {"opening", "first", "down", "up", "ended"}]
           /\ call' \in [Cameras -> Calls]
           /\ after' \in [Cameras -> {"open", "idle", "ended"}]
BY DEF Raises, Set, TypeOK, Calls

\* So does a look at the bus.
LEMMA CheckBusTypes ==
    ASSUME TypeOK, NEW c \in Cameras, CheckBus(c)
    PROVE  /\ bus' \in [Cameras -> [Pipes -> BOOLEAN]]
           /\ failed' \in [Cameras -> {"none", "bus", "stopped"}]
           /\ failedBy' \in [Cameras -> 0..MaxPipes]
<1>1. CASE current[c] # 0 /\ bus[c][current[c]]
    <2>1. current[c] \in Pipes
        BY <1>1, DeepStreamAssumption DEF TypeOK, Pipes
    <2>2. /\ bus' = SetPipe(bus, c, current[c], FALSE)
          /\ failed' = Set(failed, c, "bus")
          /\ failedBy' = Set(failedBy, c, current[c])
        BY <1>1, Zenon DEF CheckBus
    <2> QED
        BY <2>1, <2>2 DEF SetPipe, Set, TypeOK
<1>2. CASE ~(current[c] # 0 /\ bus[c][current[c]])
    <2>1. UNCHANGED <<bus, failed, failedBy>>
        BY <1>2, Zenon DEF CheckBus
    <2> QED
        BY <2>1 DEF TypeOK
<1> QED
    BY <1>1, <1>2

\* Every step leaves the variables with values of their types.
LEMMA TypeStep ==
    ASSUME TypeOK, [Next]_vars
    PROVE  TypeOK'
<1>1. ASSUME NEW d \in Cameras, Leave(d)  PROVE TypeOK'
    BY <1>1 DEF Leave, Set, flagVars, pipeVars, TypeOK, Calls, States, Helpers, Unwinds
<1>2. ASSUME NEW d \in Cameras, Reconnect(d)  PROVE TypeOK'
    BY <1>2 DEF Reconnect, Set, callerVars, pipeVars, TypeOK, Calls, States, Helpers,
       Unwinds
<1>3. ASSUME NEW d \in Cameras, Build(d)  PROVE TypeOK'
    <2>1. /\ built' \in [Cameras -> 0..MaxPipes]
          /\ current' \in [Cameras -> 0..MaxPipes]
          /\ call' \in [Cameras -> Calls]
        BY <1>3, DeepStreamAssumption DEF Build, Set, TypeOK, Calls
    <2>2. built[d] + 1 \in Pipes
        BY <1>3, DeepStreamAssumption DEF Build, TypeOK, Pipes
    <2>3. state' \in [Cameras -> [Pipes -> States]]
        BY <1>3, <2>2 DEF Build, SetPipe, TypeOK, States
    <2> QED
        BY <1>3, <2>1, <2>3 DEF Build, callerVars, flagVars, TypeOK
<1>4. ASSUME NEW d \in Cameras, Start(d)  PROVE TypeOK'
    BY <1>4 DEF Start, Set, callerVars, flagVars, SetPipe, TypeOK, Calls, States, Helpers,
       Unwinds
<1>5. ASSUME NEW d \in Cameras, LinkSeen(d)  PROVE TypeOK'
    BY <1>5 DEF LinkSeen, Set, callerVars, flagVars, pipeVars, TypeOK, Calls, States,
       Helpers, Unwinds
<1>6. ASSUME NEW d \in Cameras, Settle(d)  PROVE TypeOK'
    BY <1>6 DEF Settle, Returns, Set, flagVars, pipeVars, TypeOK, Calls, States, Helpers,
       Unwinds
<1>7. ASSUME NEW d \in Cameras, Read(d)  PROVE TypeOK'
    <2>1. /\ run' \in [Cameras -> {"opening", "first", "down", "up", "ended"}]
          /\ call' \in [Cameras -> Calls]
          /\ after' \in [Cameras -> {"open", "idle", "ended"}]
        BY <1>7, RaisesTypes DEF Read, TypeOK, Set, Calls
    <2>2. /\ bus' \in [Cameras -> [Pipes -> BOOLEAN]]
          /\ failed' \in [Cameras -> {"none", "bus", "stopped"}]
          /\ failedBy' \in [Cameras -> 0..MaxPipes]
        BY <1>7, CheckBusTypes DEF Read, TypeOK
    <2> QED
        BY <1>7, <2>1, <2>2 DEF Read, TypeOK
<1>8. ASSUME NEW d \in Cameras, Sample(d)  PROVE TypeOK'
    BY <1>8 DEF Sample, Returns, Set, flagVars, pipeVars, TypeOK, Calls, States, Helpers,
       Unwinds
<1>9. ASSUME NEW d \in Cameras, PullEmpty(d)  PROVE TypeOK'
    BY <1>9, RaisesTypes, CheckBusTypes DEF PullEmpty, TypeOK
<1>10. ASSUME NEW d \in Cameras, Take(d)  PROVE TypeOK'
    <2>1. call' \in [Cameras -> Calls] /\ run' \in [Cameras -> {"opening", "first", "down", "up", "ended"}]
        BY <1>10 DEF Take, Follow, Set, TypeOK, Calls
    <2>2. helper' \in [Cameras -> [Pipes -> Helpers]] /\ current' \in [Cameras -> 0..MaxPipes]
        <3>1. current' \in [Cameras -> 0..MaxPipes]
            BY <1>10, DeepStreamAssumption DEF Take, Set, TypeOK
        <3>2. CASE current[d] = 0
            BY <1>10, <3>1, <3>2 DEF Take, TypeOK
        <3>3. CASE current[d] # 0
            <4>1. current[d] \in Pipes
                BY <3>3, DeepStreamAssumption DEF TypeOK, Pipes
            <4>2. helper' = SetPipe(helper, d, current[d], "waiting")
                BY <1>10, <3>3 DEF Take
            <4> QED
                BY <3>1, <4>1, <4>2 DEF SetPipe, TypeOK, Helpers
        <3> QED
            BY <3>2, <3>3
    <2> QED
        BY <1>10, <2>1, <2>2 DEF Take, flagVars, TypeOK
<1>11. ASSUME NEW d \in Cameras, CloseReturns(d)  PROVE TypeOK'
    BY <1>11 DEF CloseReturns, Follow, Set, flagVars, pipeVars, TypeOK, Calls, States,
       Helpers, Unwinds
<1>12. ASSUME NEW d \in Cameras, PrepareRaises(d)  PROVE TypeOK'
    <2>1. Raises(d) /\ UNCHANGED <<stop, current, built, flagVars, pipeVars>>
        BY <1>12 DEF PrepareRaises
    <2> QED
        BY <2>1, RaisesTypes DEF flagVars, pipeVars, TypeOK
<1>13. ASSUME NEW d \in Cameras, StartFails(d)  PROVE TypeOK'
    <2>1. PICK s \in States : state' = SetPipe(state, d, current[d], s)
        BY <1>13 DEF StartFails, States
    <2>2. state' \in [Cameras -> [Pipes -> States]]
        BY <2>1 DEF SetPipe, TypeOK
    <2>3. Raises(d) /\ CheckBus(d) /\ UNCHANGED <<stop, current, built, linked, video, helper, interrupt>>
        BY <1>13 DEF StartFails
    <2> QED
        BY <2>2, <2>3, RaisesTypes, CheckBusTypes DEF TypeOK
<1>14. ASSUME NEW d \in Cameras, LinkTimeout(d)  PROVE TypeOK'
    BY <1>14, RaisesTypes, CheckBusTypes DEF LinkTimeout, TypeOK
<1>15. ASSUME NEW d \in Cameras, SettleFails(d)  PROVE TypeOK'
    BY <1>15, RaisesTypes, CheckBusTypes DEF SettleFails, TypeOK
<1>16. ASSUME NEW d \in Cameras, BusMessage(d)  PROVE TypeOK'
    BY <1>16 DEF BusMessage, SetPipe, callerVars, flagVars, TypeOK, Calls, States,
       Helpers, Unwinds
<1>17. ASSUME NEW d \in Cameras, NEW p \in Pipes, Acquire(d, p)  PROVE TypeOK'
    BY <1>17 DEF Acquire, SetPipe, callerVars, flagVars, TypeOK, Calls, States, Helpers,
       Unwinds
<1>18. ASSUME NEW d \in Cameras, NEW p \in Pipes, Unwind(d, p)  PROVE TypeOK'
    <2>1. PICK to \in Helpers, s \in States :
            /\ state' = SetPipe(state, d, p, s)
            /\ helper' = SetPipe(helper, d, p, to)
        BY <1>18 DEF Unwind, Goes, States, Helpers, Unwinds
    <2>2. state' \in [Cameras -> [Pipes -> States]] /\ helper' \in [Cameras -> [Pipes -> Helpers]]
        BY <2>1 DEF SetPipe, TypeOK
    <2> QED
        BY <1>18, <2>2 DEF Unwind, callerVars, flagVars, TypeOK
<1>19. ASSUME NEW d \in Cameras, NEW p \in Pipes, UnwindHangs(d, p)  PROVE TypeOK'
    BY <1>19 DEF UnwindHangs, SetPipe, Unwinds, callerVars, flagVars, TypeOK, Calls,
       States, Helpers, Unwinds
<1>20. ASSUME NEW d \in Cameras, NEW p \in Pipes, Interrupt(d, p)  PROVE TypeOK'
    BY <1>20 DEF Interrupt, SetPipe, callerVars, flagVars, TypeOK, Calls, States, Helpers,
       Unwinds
<1>21. ASSUME NEW d \in Cameras, NEW p \in Pipes, PadAdded(d, p)  PROVE TypeOK'
    BY <1>21 DEF PadAdded, SetPipe, Set, callerVars, TypeOK, Calls, States, Helpers,
       Unwinds
<1>22. CASE StopAll
    BY <1>22 DEF StopAll, TypeOK, Calls, States, Helpers, Unwinds
<1>23. CASE UNCHANGED vars
    BY <1>23 DEF vars, callerVars, flagVars, pipeVars, TypeOK, Calls, States, Helpers,
       Unwinds
<1> QED
    BY <1>1, <1>2, <1>3, <1>4, <1>5, <1>6, <1>7, <1>8, <1>9, <1>10, <1>11, <1>12, <1>13,
       <1>14, <1>15, <1>16, <1>17, <1>18, <1>19, <1>20, <1>21, <1>22, <1>23 DEF Next,
       ThreadStep, Failure, HelperStep

\* The threads of a teardown and of request_stop change nothing of the runtime.
LEMMA HelpersAreApart ==
    ASSUME NEW c \in Cameras, NEW p \in Pipes,
           HelperStep(c, p) \/ UnwindHangs(c, p) \/ Interrupt(c, p)
    PROVE  UNCHANGED <<run, stop, call, after, current, built, linked, failed, failedBy, video>>
BY DEF HelperStep, Acquire, Unwind, UnwindHangs, Interrupt, callerVars, flagVars

\* The caller and the runtime stay together.
LEMMA PhaseStep ==
    ASSUME TypeOK, NEW c \in Cameras, Phases(c), [Next]_vars
    PROVE  Phases(c)'
<1>1. ASSUME NEW d \in Cameras, Leave(d)  PROVE Phases(c)'
    BY <1>1 DEF Leave, Set, flagVars, pipeVars, Phases, Holds, TypeOK
<1>2. ASSUME NEW d \in Cameras, Reconnect(d)  PROVE Phases(c)'
    BY <1>2 DEF Reconnect, Set, callerVars, pipeVars, Phases, Holds, TypeOK
<1>3. ASSUME NEW d \in Cameras, Build(d)  PROVE Phases(c)'
    BY <1>3 DEF Build, Set, callerVars, flagVars, Phases, Holds, TypeOK
<1>4. ASSUME NEW d \in Cameras, Start(d)  PROVE Phases(c)'
    BY <1>4 DEF Start, Set, callerVars, flagVars, Phases, Holds, TypeOK
<1>5. ASSUME NEW d \in Cameras, LinkSeen(d)  PROVE Phases(c)'
    BY <1>5 DEF LinkSeen, Set, callerVars, flagVars, pipeVars, Phases, Holds, TypeOK
<1>6. ASSUME NEW d \in Cameras, Settle(d)  PROVE Phases(c)'
    BY <1>6 DEF Settle, Returns, Set, flagVars, pipeVars, Phases, Holds, TypeOK
<1>7. ASSUME NEW d \in Cameras, Read(d)  PROVE Phases(c)'
    BY <1>7 DEF Read, Raises, CheckBus, Set, SetPipe, Phases, Holds, TypeOK
<1>8. ASSUME NEW d \in Cameras, Sample(d)  PROVE Phases(c)'
    BY <1>8 DEF Sample, Returns, Set, flagVars, pipeVars, Phases, Holds, TypeOK
<1>9. ASSUME NEW d \in Cameras, PullEmpty(d)  PROVE Phases(c)'
    BY <1>9 DEF PullEmpty, Raises, CheckBus, Set, SetPipe, Phases, Holds, TypeOK
<1>10. ASSUME NEW d \in Cameras, Take(d)  PROVE Phases(c)'
    BY <1>10 DEF Take, Follow, Set, flagVars, Phases, Holds, TypeOK
<1>11. ASSUME NEW d \in Cameras, CloseReturns(d)  PROVE Phases(c)'
    BY <1>11 DEF CloseReturns, Follow, Set, flagVars, pipeVars, Phases, Holds, TypeOK
<1>12. ASSUME NEW d \in Cameras, PrepareRaises(d)  PROVE Phases(c)'
    BY <1>12 DEF PrepareRaises, Raises, Set, flagVars, pipeVars, Phases, Holds, TypeOK
<1>13. ASSUME NEW d \in Cameras, StartFails(d)  PROVE Phases(c)'
    BY <1>13 DEF StartFails, Raises, CheckBus, Set, SetPipe, Phases, Holds, TypeOK
<1>14. ASSUME NEW d \in Cameras, LinkTimeout(d)  PROVE Phases(c)'
    BY <1>14 DEF LinkTimeout, Raises, CheckBus, Set, SetPipe, Phases, Holds, TypeOK
<1>15. ASSUME NEW d \in Cameras, SettleFails(d)  PROVE Phases(c)'
    BY <1>15 DEF SettleFails, Raises, CheckBus, Set, SetPipe, Phases, Holds, TypeOK
<1>16. ASSUME NEW d \in Cameras, BusMessage(d)  PROVE Phases(c)'
    BY <1>16 DEF BusMessage, SetPipe, callerVars, flagVars, Phases, Holds, TypeOK
<1>17. ASSUME NEW d \in Cameras, NEW p \in Pipes, PadAdded(d, p)  PROVE Phases(c)'
    BY <1>17 DEF PadAdded, SetPipe, Set, callerVars, Phases, Holds, TypeOK
<1>18. ASSUME NEW d \in Cameras, NEW p \in Pipes,
           HelperStep(d, p) \/ UnwindHangs(d, p) \/ Interrupt(d, p)
     PROVE  Phases(c)'
    BY <1>18, HelpersAreApart DEF Phases, Holds, TypeOK
<1>19. CASE StopAll
    BY <1>19 DEF StopAll, Phases, Holds, TypeOK
<1>20. CASE UNCHANGED vars
    BY <1>20 DEF vars, callerVars, flagVars, pipeVars, Phases, Holds, TypeOK
<1> QED
    BY <1>1, <1>2, <1>3, <1>4, <1>5, <1>6, <1>7, <1>8, <1>9, <1>10, <1>11, <1>12, <1>13,
       <1>14, <1>15, <1>16, <1>17, <1>18, <1>19, <1>20 DEF Next, ThreadStep, Failure

\* A connection has no failure but its own.
LEMMA FailureStep ==
    ASSUME TypeOK, NEW c \in Cameras, Phases(c), OwnFailure(c), [Next]_vars
    PROVE  OwnFailure(c)'
<1>1. ASSUME NEW d \in Cameras, Leave(d)  PROVE OwnFailure(c)'
    BY <1>1 DEF Leave, Set, flagVars, pipeVars, Phases, Holds, Replaces, OwnFailure,
       TypeOK
<1>2. ASSUME NEW d \in Cameras, Reconnect(d)  PROVE OwnFailure(c)'
    BY <1>2 DEF Reconnect, Set, callerVars, pipeVars, Phases, Holds, Replaces, OwnFailure,
       TypeOK
<1>3. ASSUME NEW d \in Cameras, Build(d)  PROVE OwnFailure(c)'
    BY <1>3 DEF Build, Set, callerVars, flagVars, Phases, Holds, Replaces, OwnFailure,
       TypeOK
<1>4. ASSUME NEW d \in Cameras, Start(d)  PROVE OwnFailure(c)'
    BY <1>4 DEF Start, Set, callerVars, flagVars, Phases, Holds, Replaces, OwnFailure,
       TypeOK
<1>5. ASSUME NEW d \in Cameras, LinkSeen(d)  PROVE OwnFailure(c)'
    BY <1>5 DEF LinkSeen, Set, callerVars, flagVars, pipeVars, Phases, Holds, Replaces,
       OwnFailure, TypeOK
<1>6. ASSUME NEW d \in Cameras, Settle(d)  PROVE OwnFailure(c)'
    BY <1>6 DEF Settle, Returns, Set, flagVars, pipeVars, Phases, Holds, Replaces,
       OwnFailure, TypeOK
<1>7. ASSUME NEW d \in Cameras, Read(d)  PROVE OwnFailure(c)'
    BY <1>7 DEF Read, Raises, CheckBus, Set, SetPipe, Phases, Holds, Replaces, OwnFailure,
       TypeOK
<1>8. ASSUME NEW d \in Cameras, Sample(d)  PROVE OwnFailure(c)'
    BY <1>8 DEF Sample, Returns, Set, flagVars, pipeVars, Phases, Holds, Replaces,
       OwnFailure, TypeOK
<1>9. ASSUME NEW d \in Cameras, PullEmpty(d)  PROVE OwnFailure(c)'
    BY <1>9 DEF PullEmpty, Raises, CheckBus, Set, SetPipe, Phases, Holds, Replaces,
       OwnFailure, TypeOK
<1>10. ASSUME NEW d \in Cameras, Take(d)  PROVE OwnFailure(c)'
    BY <1>10 DEF Take, Follow, Set, flagVars, Phases, Holds, Replaces, OwnFailure, TypeOK
<1>11. ASSUME NEW d \in Cameras, CloseReturns(d)  PROVE OwnFailure(c)'
    BY <1>11 DEF CloseReturns, Follow, Set, flagVars, pipeVars, Phases, Holds, Replaces,
       OwnFailure, TypeOK
<1>12. ASSUME NEW d \in Cameras, PrepareRaises(d)  PROVE OwnFailure(c)'
    BY <1>12 DEF PrepareRaises, Raises, Set, flagVars, pipeVars, Phases, Holds, Replaces,
       OwnFailure, TypeOK
<1>13. ASSUME NEW d \in Cameras, StartFails(d)  PROVE OwnFailure(c)'
    BY <1>13 DEF StartFails, Raises, CheckBus, Set, SetPipe, Phases, Holds, Replaces,
       OwnFailure, TypeOK
<1>14. ASSUME NEW d \in Cameras, LinkTimeout(d)  PROVE OwnFailure(c)'
    BY <1>14 DEF LinkTimeout, Raises, CheckBus, Set, SetPipe, Phases, Holds, Replaces,
       OwnFailure, TypeOK
<1>15. ASSUME NEW d \in Cameras, SettleFails(d)  PROVE OwnFailure(c)'
    BY <1>15 DEF SettleFails, Raises, CheckBus, Set, SetPipe, Phases, Holds, Replaces,
       OwnFailure, TypeOK
<1>16. ASSUME NEW d \in Cameras, BusMessage(d)  PROVE OwnFailure(c)'
    BY <1>16 DEF BusMessage, SetPipe, callerVars, flagVars, Phases, Holds, Replaces,
       OwnFailure, TypeOK
<1>17. ASSUME NEW d \in Cameras, NEW p \in Pipes, PadAdded(d, p)  PROVE OwnFailure(c)'
    BY <1>17 DEF PadAdded, SetPipe, Set, callerVars, Phases, Holds, Replaces, OwnFailure,
       TypeOK
<1>18. ASSUME NEW d \in Cameras, NEW p \in Pipes,
           HelperStep(d, p) \/ UnwindHangs(d, p) \/ Interrupt(d, p)
     PROVE  OwnFailure(c)'
    BY <1>18, HelpersAreApart DEF Phases, Holds, Replaces, OwnFailure, TypeOK
<1>19. CASE StopAll
    BY <1>19 DEF StopAll, Phases, Holds, Replaces, OwnFailure, TypeOK
<1>20. CASE UNCHANGED vars
    BY <1>20 DEF vars, callerVars, flagVars, pipeVars, Phases, Holds, Replaces,
       OwnFailure, TypeOK
<1> QED
    BY <1>1, <1>2, <1>3, <1>4, <1>5, <1>6, <1>7, <1>8, <1>9, <1>10, <1>11, <1>12, <1>13,
       <1>14, <1>15, <1>16, <1>17, <1>18, <1>19, <1>20 DEF Next, ThreadStep, Failure

\* A connection is linked by a pad of its own.
LEMMA LinkStep ==
    ASSUME TypeOK, "late" \notin Faults, NEW c \in Cameras, Phases(c), OwnLink(c), [Next]_vars
    PROVE  OwnLink(c)'
<1>1. ASSUME NEW d \in Cameras, Leave(d)  PROVE OwnLink(c)'
    BY <1>1 DEF Leave, Set, flagVars, pipeVars, Phases, Holds, Replaces, OwnLink, TypeOK
<1>2. ASSUME NEW d \in Cameras, Reconnect(d)  PROVE OwnLink(c)'
    BY <1>2 DEF Reconnect, Set, callerVars, pipeVars, Phases, Holds, Replaces, OwnLink,
       TypeOK
<1>3. ASSUME NEW d \in Cameras, Build(d)  PROVE OwnLink(c)'
    BY <1>3 DEF Build, Set, callerVars, flagVars, Phases, Holds, Replaces, OwnLink, TypeOK
<1>4. ASSUME NEW d \in Cameras, Start(d)  PROVE OwnLink(c)'
    BY <1>4 DEF Start, Set, callerVars, flagVars, Phases, Holds, Replaces, OwnLink, TypeOK
<1>5. ASSUME NEW d \in Cameras, LinkSeen(d)  PROVE OwnLink(c)'
    BY <1>5 DEF LinkSeen, Set, callerVars, flagVars, pipeVars, Phases, Holds, Replaces,
       OwnLink, TypeOK
<1>6. ASSUME NEW d \in Cameras, Settle(d)  PROVE OwnLink(c)'
    BY <1>6 DEF Settle, Returns, Set, flagVars, pipeVars, Phases, Holds, Replaces,
       OwnLink, TypeOK
<1>7. ASSUME NEW d \in Cameras, Read(d)  PROVE OwnLink(c)'
    BY <1>7 DEF Read, Raises, CheckBus, Set, SetPipe, Phases, Holds, Replaces, OwnLink,
       TypeOK
<1>8. ASSUME NEW d \in Cameras, Sample(d)  PROVE OwnLink(c)'
    BY <1>8 DEF Sample, Returns, Set, flagVars, pipeVars, Phases, Holds, Replaces,
       OwnLink, TypeOK
<1>9. ASSUME NEW d \in Cameras, PullEmpty(d)  PROVE OwnLink(c)'
    BY <1>9 DEF PullEmpty, Raises, CheckBus, Set, SetPipe, Phases, Holds, Replaces,
       OwnLink, TypeOK
<1>10. ASSUME NEW d \in Cameras, Take(d)  PROVE OwnLink(c)'
    BY <1>10 DEF Take, Follow, Set, flagVars, Phases, Holds, Replaces, OwnLink, TypeOK
<1>11. ASSUME NEW d \in Cameras, CloseReturns(d)  PROVE OwnLink(c)'
    BY <1>11 DEF CloseReturns, Follow, Set, flagVars, pipeVars, Phases, Holds, Replaces,
       OwnLink, TypeOK
<1>12. ASSUME NEW d \in Cameras, PrepareRaises(d)  PROVE OwnLink(c)'
    BY <1>12 DEF PrepareRaises, Raises, Set, flagVars, pipeVars, Phases, Holds, Replaces,
       OwnLink, TypeOK
<1>13. ASSUME NEW d \in Cameras, StartFails(d)  PROVE OwnLink(c)'
    BY <1>13 DEF StartFails, Raises, CheckBus, Set, SetPipe, Phases, Holds, Replaces,
       OwnLink, TypeOK
<1>14. ASSUME NEW d \in Cameras, LinkTimeout(d)  PROVE OwnLink(c)'
    BY <1>14 DEF LinkTimeout, Raises, CheckBus, Set, SetPipe, Phases, Holds, Replaces,
       OwnLink, TypeOK
<1>15. ASSUME NEW d \in Cameras, SettleFails(d)  PROVE OwnLink(c)'
    BY <1>15 DEF SettleFails, Raises, CheckBus, Set, SetPipe, Phases, Holds, Replaces,
       OwnLink, TypeOK
<1>16. ASSUME NEW d \in Cameras, BusMessage(d)  PROVE OwnLink(c)'
    BY <1>16 DEF BusMessage, SetPipe, callerVars, flagVars, Phases, Holds, Replaces,
       OwnLink, TypeOK
<1>17. ASSUME NEW d \in Cameras, NEW p \in Pipes, PadAdded(d, p)  PROVE OwnLink(c)'
    <2>1. p = current[d] /\ call[d] # "take" /\ p # 0
        BY <1>17 DEF PadAdded, Pipes
    <2>2. /\ video' = SetPipe(video, d, p, TRUE)
          /\ linked' = Set(linked, d, TRUE)
          /\ UNCHANGED <<run, call, after, current>>
        BY <1>17 DEF PadAdded, callerVars
    <2> QED
        BY <2>1, <2>2 DEF Set, SetPipe, Phases, Replaces, OwnLink, TypeOK
<1>18. ASSUME NEW d \in Cameras, NEW p \in Pipes,
           HelperStep(d, p) \/ UnwindHangs(d, p) \/ Interrupt(d, p)
     PROVE  OwnLink(c)'
    BY <1>18, HelpersAreApart DEF Phases, Holds, Replaces, OwnLink, TypeOK
<1>19. CASE StopAll
    BY <1>19 DEF StopAll, Phases, Holds, Replaces, OwnLink, TypeOK
<1>20. CASE UNCHANGED vars
    BY <1>20 DEF vars, callerVars, flagVars, pipeVars, Phases, Holds, Replaces, OwnLink,
       TypeOK
<1> QED
    BY <1>1, <1>2, <1>3, <1>4, <1>5, <1>6, <1>7, <1>8, <1>9, <1>10, <1>11, <1>12, <1>13,
       <1>14, <1>15, <1>16, <1>17, <1>18, <1>19, <1>20 DEF Next, ThreadStep, Failure

\* No pipeline is lost.
LEMMA AccountStep ==
    ASSUME TypeOK, NEW c \in Cameras, Phases(c), Accounted(c), [Next]_vars
    PROVE  Accounted(c)'
<1>1. ASSUME NEW d \in Cameras, Leave(d)  PROVE Accounted(c)'
    BY <1>1 DEF Leave, Set, flagVars, pipeVars, Phases, Holds, Accounted, TypeOK, Pipes
<1>2. ASSUME NEW d \in Cameras, Reconnect(d)  PROVE Accounted(c)'
    BY <1>2 DEF Reconnect, Set, callerVars, pipeVars, Phases, Holds, Accounted, TypeOK,
       Pipes
<1>3. ASSUME NEW d \in Cameras, Build(d)  PROVE Accounted(c)'
    BY <1>3 DEF Build, Set, callerVars, flagVars, SetPipe, Phases, Holds, Accounted,
       TypeOK, Pipes
<1>4. ASSUME NEW d \in Cameras, Start(d)  PROVE Accounted(c)'
    BY <1>4 DEF Start, Set, callerVars, flagVars, SetPipe, Phases, Holds, Accounted,
       TypeOK, Pipes
<1>5. ASSUME NEW d \in Cameras, LinkSeen(d)  PROVE Accounted(c)'
    BY <1>5 DEF LinkSeen, Set, callerVars, flagVars, pipeVars, Phases, Holds, Accounted,
       TypeOK, Pipes
<1>6. ASSUME NEW d \in Cameras, Settle(d)  PROVE Accounted(c)'
    BY <1>6 DEF Settle, Returns, Set, flagVars, pipeVars, Phases, Holds, Accounted,
       TypeOK, Pipes
<1>7. ASSUME NEW d \in Cameras, Read(d)  PROVE Accounted(c)'
    BY <1>7 DEF Read, Raises, CheckBus, Set, SetPipe, Phases, Holds, Accounted, TypeOK,
       Pipes
<1>8. ASSUME NEW d \in Cameras, Sample(d)  PROVE Accounted(c)'
    BY <1>8 DEF Sample, Returns, Set, flagVars, pipeVars, Phases, Holds, Accounted,
       TypeOK, Pipes
<1>9. ASSUME NEW d \in Cameras, PullEmpty(d)  PROVE Accounted(c)'
    BY <1>9 DEF PullEmpty, Raises, CheckBus, Set, SetPipe, Phases, Holds, Accounted,
       TypeOK, Pipes
<1>10. ASSUME NEW d \in Cameras, Take(d)  PROVE Accounted(c)'
    <2>1. CASE c = d /\ current[d] # 0
        <3>1. current[c] \in Pipes /\ current[c] = built[c]
            BY <2>1 DEF Phases, TypeOK, Pipes
        <3>2. /\ helper' = SetPipe(helper, c, current[c], "waiting")
              /\ current' = Set(current, c, 0)
              /\ UNCHANGED <<built, state, interrupt>>
            BY <1>10, <2>1 DEF Take
        <3>3. /\ helper' \in [Cameras -> [Pipes -> Helpers]]
              /\ \A q \in Pipes : helper'[c][q] = IF q = current[c] THEN "waiting" ELSE helper[c][q]
              /\ current'[c] = 0
            BY <3>1, <3>2 DEF Set, SetPipe, TypeOK, Helpers
        <3> QED
            <4>1. 0 \notin Pipes /\ current[c] \in 1..built[c]
                BY <3>1 DEF Pipes
            <4> QED
                BY <3>1, <3>2, <3>3, <4>1 DEF Accounted
    <2>2. CASE c # d \/ current[d] = 0
        <3>1. helper'[c] = helper[c] /\ current'[c] = current[c]
            BY <1>10, <2>2 DEF Take, Set, SetPipe, TypeOK
        <3> QED
            BY <1>10, <3>1 DEF Take, Accounted
    <2> QED
        BY <2>1, <2>2
<1>11. ASSUME NEW d \in Cameras, CloseReturns(d)  PROVE Accounted(c)'
    BY <1>11 DEF CloseReturns, Follow, Set, flagVars, pipeVars, Phases, Holds, Accounted,
       TypeOK, Pipes
<1>12. ASSUME NEW d \in Cameras, PrepareRaises(d)  PROVE Accounted(c)'
    BY <1>12 DEF PrepareRaises, Raises, Set, flagVars, pipeVars, Phases, Holds, Accounted,
       TypeOK, Pipes
<1>13. ASSUME NEW d \in Cameras, StartFails(d)  PROVE Accounted(c)'
    BY <1>13 DEF StartFails, Raises, CheckBus, Set, SetPipe, Phases, Holds, Accounted,
       TypeOK, Pipes
<1>14. ASSUME NEW d \in Cameras, LinkTimeout(d)  PROVE Accounted(c)'
    BY <1>14 DEF LinkTimeout, Raises, CheckBus, Set, SetPipe, Phases, Holds, Accounted,
       TypeOK, Pipes
<1>15. ASSUME NEW d \in Cameras, SettleFails(d)  PROVE Accounted(c)'
    BY <1>15 DEF SettleFails, Raises, CheckBus, Set, SetPipe, Phases, Holds, Accounted,
       TypeOK, Pipes
<1>16. ASSUME NEW d \in Cameras, BusMessage(d)  PROVE Accounted(c)'
    BY <1>16 DEF BusMessage, SetPipe, callerVars, flagVars, Phases, Holds, Accounted,
       TypeOK, Pipes
<1>17. ASSUME NEW d \in Cameras, NEW p \in Pipes, Acquire(d, p)  PROVE Accounted(c)'
    BY <1>17 DEF Acquire, SetPipe, callerVars, flagVars, Phases, Holds, Accounted, TypeOK,
       Pipes
<1>18. ASSUME NEW d \in Cameras, NEW p \in Pipes, Unwind(d, p)  PROVE Accounted(c)'
    <2>1. PICK to \in Helpers, s \in States :
            /\ state' = SetPipe(state, d, p, s)
            /\ helper' = SetPipe(helper, d, p, to)
            /\ to # "none" /\ helper[d][p] # "none"
            /\ to = "done" => s = "null"
        BY <1>18 DEF Unwind, Goes, States, Helpers, Unwinds
    <2>2. UNCHANGED <<current, built, interrupt>>
        BY <1>18 DEF Unwind
    <2>3. \A q \in Pipes : \/ c = d /\ q = p /\ helper'[c][q] = to /\ state'[c][q] = s
                           \/ helper'[c][q] = helper[c][q] /\ state'[c][q] = state[c][q]
        BY <2>1 DEF SetPipe, TypeOK
    <2> QED
        BY <2>1, <2>2, <2>3 DEF Accounted, Pipes, TypeOK
<1>19. ASSUME NEW d \in Cameras, NEW p \in Pipes, UnwindHangs(d, p)  PROVE Accounted(c)'
    BY <1>19 DEF UnwindHangs, SetPipe, Unwinds, callerVars, flagVars, Phases, Holds,
       Accounted, TypeOK, Pipes
<1>20. ASSUME NEW d \in Cameras, NEW p \in Pipes, Interrupt(d, p)  PROVE Accounted(c)'
    BY <1>20 DEF Interrupt, SetPipe, callerVars, flagVars, Phases, Holds, Accounted,
       TypeOK, Pipes
<1>21. ASSUME NEW d \in Cameras, NEW p \in Pipes, PadAdded(d, p)  PROVE Accounted(c)'
    BY <1>21 DEF PadAdded, SetPipe, Set, callerVars, Phases, Holds, Accounted, TypeOK,
       Pipes
<1>22. CASE StopAll
    BY <1>22 DEF StopAll, Phases, Holds, Accounted, TypeOK, Pipes
<1>23. CASE UNCHANGED vars
    BY <1>23 DEF vars, callerVars, flagVars, pipeVars, Phases, Holds, Accounted, TypeOK,
       Pipes
<1> QED
    BY <1>1, <1>2, <1>3, <1>4, <1>5, <1>6, <1>7, <1>8, <1>9, <1>10, <1>11, <1>12, <1>13,
       <1>14, <1>15, <1>16, <1>17, <1>18, <1>19, <1>20, <1>21, <1>22, <1>23 DEF Next,
       ThreadStep, Failure, HelperStep

\* One teardown at a time.
LEMMA TeardownStep ==
    ASSUME TypeOK, OneTeardown, [Next]_vars
    PROVE  OneTeardown'
<1>1. ASSUME NEW d \in Cameras, Leave(d)  PROVE OneTeardown'
    BY <1>1 DEF Leave, Set, flagVars, pipeVars, OneTeardown, HasLock, Unwinds, TypeOK
<1>2. ASSUME NEW d \in Cameras, Reconnect(d)  PROVE OneTeardown'
    BY <1>2 DEF Reconnect, Set, callerVars, pipeVars, OneTeardown, HasLock, Unwinds,
       TypeOK
<1>3. ASSUME NEW d \in Cameras, Build(d)  PROVE OneTeardown'
    BY <1>3 DEF Build, Set, callerVars, flagVars, OneTeardown, HasLock, Unwinds, TypeOK
<1>4. ASSUME NEW d \in Cameras, Start(d)  PROVE OneTeardown'
    BY <1>4 DEF Start, Set, callerVars, flagVars, OneTeardown, HasLock, Unwinds, TypeOK
<1>5. ASSUME NEW d \in Cameras, LinkSeen(d)  PROVE OneTeardown'
    BY <1>5 DEF LinkSeen, Set, callerVars, flagVars, pipeVars, OneTeardown, HasLock,
       Unwinds, TypeOK
<1>6. ASSUME NEW d \in Cameras, Settle(d)  PROVE OneTeardown'
    BY <1>6 DEF Settle, Returns, Set, flagVars, pipeVars, OneTeardown, HasLock, Unwinds,
       TypeOK
<1>7. ASSUME NEW d \in Cameras, Read(d)  PROVE OneTeardown'
    BY <1>7 DEF Read, Raises, CheckBus, Set, SetPipe, OneTeardown, HasLock, Unwinds,
       TypeOK
<1>8. ASSUME NEW d \in Cameras, Sample(d)  PROVE OneTeardown'
    BY <1>8 DEF Sample, Returns, Set, flagVars, pipeVars, OneTeardown, HasLock, Unwinds,
       TypeOK
<1>9. ASSUME NEW d \in Cameras, PullEmpty(d)  PROVE OneTeardown'
    BY <1>9 DEF PullEmpty, Raises, CheckBus, Set, SetPipe, OneTeardown, HasLock, Unwinds,
       TypeOK
<1>10. ASSUME NEW d \in Cameras, Take(d)  PROVE OneTeardown'
    <2>1. helper' = helper \/ helper' = SetPipe(helper, d, current[d], "waiting")
        BY <1>10 DEF Take
    <2> QED
        BY <2>1 DEF SetPipe, OneTeardown, HasLock, Unwinds, TypeOK
<1>11. ASSUME NEW d \in Cameras, CloseReturns(d)  PROVE OneTeardown'
    BY <1>11 DEF CloseReturns, Follow, Set, flagVars, pipeVars, OneTeardown, HasLock,
       Unwinds, TypeOK
<1>12. ASSUME NEW d \in Cameras, PrepareRaises(d)  PROVE OneTeardown'
    BY <1>12 DEF PrepareRaises, Raises, Set, flagVars, pipeVars, OneTeardown, HasLock,
       Unwinds, TypeOK
<1>13. ASSUME NEW d \in Cameras, StartFails(d)  PROVE OneTeardown'
    BY <1>13 DEF StartFails, Raises, CheckBus, Set, SetPipe, OneTeardown, HasLock,
       Unwinds, TypeOK
<1>14. ASSUME NEW d \in Cameras, LinkTimeout(d)  PROVE OneTeardown'
    BY <1>14 DEF LinkTimeout, Raises, CheckBus, Set, SetPipe, OneTeardown, HasLock,
       Unwinds, TypeOK
<1>15. ASSUME NEW d \in Cameras, SettleFails(d)  PROVE OneTeardown'
    BY <1>15 DEF SettleFails, Raises, CheckBus, Set, SetPipe, OneTeardown, HasLock,
       Unwinds, TypeOK
<1>16. ASSUME NEW d \in Cameras, BusMessage(d)  PROVE OneTeardown'
    BY <1>16 DEF BusMessage, SetPipe, callerVars, flagVars, OneTeardown, HasLock, Unwinds,
       TypeOK
<1>17. ASSUME NEW d \in Cameras, NEW p \in Pipes, Acquire(d, p)  PROVE OneTeardown'
    BY <1>17 DEF Acquire, SetPipe, callerVars, flagVars, OneTeardown, HasLock, Unwinds,
       TypeOK
<1>18. ASSUME NEW d \in Cameras, NEW p \in Pipes, Unwind(d, p)  PROVE OneTeardown'
    <2>1. PICK to \in Helpers : helper' = SetPipe(helper, d, p, to) /\ HasLock(d, p)
        BY <1>18 DEF Unwind, Goes, HasLock, Unwinds, Helpers
    <2> QED
        BY <2>1 DEF SetPipe, OneTeardown, HasLock, TypeOK
<1>19. ASSUME NEW d \in Cameras, NEW p \in Pipes, UnwindHangs(d, p)  PROVE OneTeardown'
    BY <1>19 DEF UnwindHangs, SetPipe, Unwinds, callerVars, flagVars, OneTeardown,
       HasLock, Unwinds, TypeOK
<1>20. ASSUME NEW d \in Cameras, NEW p \in Pipes, Interrupt(d, p)  PROVE OneTeardown'
    BY <1>20 DEF Interrupt, SetPipe, callerVars, flagVars, OneTeardown, HasLock, Unwinds,
       TypeOK
<1>21. ASSUME NEW d \in Cameras, NEW p \in Pipes, PadAdded(d, p)  PROVE OneTeardown'
    BY <1>21 DEF PadAdded, SetPipe, Set, callerVars, OneTeardown, HasLock, Unwinds, TypeOK
<1>22. CASE StopAll
    BY <1>22 DEF StopAll, OneTeardown, HasLock, Unwinds, TypeOK
<1>23. CASE UNCHANGED vars
    BY <1>23 DEF vars, callerVars, flagVars, pipeVars, OneTeardown, HasLock, Unwinds,
       TypeOK
<1> QED
    BY <1>1, <1>2, <1>3, <1>4, <1>5, <1>6, <1>7, <1>8, <1>9, <1>10, <1>11, <1>12, <1>13,
       <1>14, <1>15, <1>16, <1>17, <1>18, <1>19, <1>20, <1>21, <1>22, <1>23 DEF Next,
       ThreadStep, Failure, HelperStep

\* The pipelines of the first connection.
LEMMA InitPipes ==
    ASSUME Init
    PROVE  /\ TypeOK
           /\ OneTeardown
           /\ \A c \in Cameras : Phases(c) /\ OwnFailure(c) /\ OwnLink(c) /\ Accounted(c)
<1>1. TypeOK
    BY DeepStreamAssumption DEF Init, TypeOK, Calls, States, Helpers, Pipes
<1>2. OneTeardown
    BY DEF Init, OneTeardown, HasLock, Unwinds
<1>3. ASSUME NEW c \in Cameras
      PROVE  Phases(c) /\ OwnFailure(c) /\ OwnLink(c) /\ Accounted(c)
    BY DEF Init, Phases, Holds, OwnFailure, OwnLink, Replaces, Accounted, Pipes
<1> QED
    BY <1>1, <1>2, <1>3

\* Types and phases hold throughout.
LEMMA PipesInv == Spec => [](TypeOK /\ \A c \in Cameras : Phases(c))
<1>1. TypeOK /\ (\A c \in Cameras : Phases(c)) /\ [Next]_vars
          => (TypeOK /\ \A c \in Cameras : Phases(c))'
    BY TypeStep, PhaseStep
<1>2. Init => TypeOK /\ \A c \in Cameras : Phases(c)
    BY InitPipes
<1> QED
    BY <1>1, <1>2, PTL DEF Spec

\* A camera that is up again does not stop for the reason its last connection did:
\* reconnect clears _failed before the pipeline is exchanged, and what is on the bus
\* of the pipeline it had is left there.
THEOREM FailuresAreOwn == Spec => []FailureIsOwn
<1> DEFINE I == \A c \in Cameras : OwnFailure(c)
<1>1. TypeOK /\ (\A c \in Cameras : Phases(c)) /\ I /\ [Next]_vars => I'
    BY FailureStep
<1>2. Init => I
    BY InitPipes
<1>3. TypeOK /\ (\A c \in Cameras : Phases(c)) /\ I => FailureIsOwn
    <2> SUFFICES ASSUME TypeOK, \A c \in Cameras : Phases(c), I, NEW c \in Cameras,
                        run[c] = "up", ~stop[c], failed[c] # "none"
                 PROVE  failedBy[c] = current[c]
        BY DEF FailureIsOwn
    <2> QED
        BY DEF Phases, Holds, OwnFailure
<1> HIDE DEF I
<1> QED
    BY <1>1, <1>2, <1>3, PipesInv, PTL DEF Spec

\* A camera that is reported ready has the video of its own pipeline, as long as no
\* pad of a pipeline that is being replaced arrives: the run late_pad shows what
\* happens if one does.
THEOREM ReadyIsLinkedUnlessLate == ASSUME "late" \notin Faults PROVE Spec => []ReadyIsLinked
<1> DEFINE I == \A c \in Cameras : OwnLink(c)
<1>1. TypeOK /\ (\A c \in Cameras : Phases(c)) /\ I /\ [Next]_vars => I'
    BY LinkStep
<1>2. Init => I
    BY InitPipes
<1>3. I => ReadyIsLinked
    BY DEF ReadyIsLinked, OwnLink
<1> HIDE DEF I
<1> QED
    BY <1>1, <1>2, <1>3, PipesInv, PTL DEF Spec

\* Whatever fails, hangs or comes late: every pipeline that was built is the one the
\* runtime has or is in the hands of a teardown, and a teardown that is done has
\* left it in NULL.
THEOREM NoPipelineIsLost == Spec => []\A c \in Cameras : Accounted(c)
<1> DEFINE I == \A c \in Cameras : Accounted(c)
<1>1. TypeOK /\ (\A c \in Cameras : Phases(c)) /\ I /\ [Next]_vars => I'
    BY AccountStep
<1>2. Init => I
    BY InitPipes
<1> HIDE DEF I
<1>3. Spec => []I
    BY <1>1, <1>2, PipesInv, PTL DEF Spec
<1> QED
    BY <1>3 DEF I

\* _TEARDOWN_LOCK: two teardowns never run at the same time, of whichever cameras, and
\* one that hangs keeps it.
THEOREM TeardownsExclude == Spec => []OneTeardown
<1>1. TypeOK /\ OneTeardown /\ [Next]_vars => OneTeardown'
    BY TeardownStep
<1>2. Init => OneTeardown
    BY InitPipes
<1> QED
    BY <1>1, <1>2, PipesInv, PTL DEF Spec

-----------------------------------------------------------------------------
(* The contract of CameraRuntime.                                          *)

\* In a step the call and the source of one camera become a and s.
Moves(c, a, s) ==
    /\ Doing(c)' = a /\ Source(c)' = s
    /\ \A d \in Cameras \ {c} : Doing(d)' = Doing(d) /\ Source(d)' = Source(d)

LEMMA Moved ==
    ASSUME NEW c \in Cameras, NEW a, NEW s, Moves(c, a, s)
    PROVE  Contract!Goes(c, a) /\ Contract!Leaves(c, s)
BY DEF Moves, Contract!Goes, Contract!Leaves

\* A step that changes neither is a stutter.
LEMMA ContractStutters ==
    ASSUME \A d \in Cameras : Doing(d)' = Doing(d) /\ Source(d)' = Source(d)
    PROVE  UNCHANGED Contract!runtimeVars
BY DEF Contract!runtimeVars

\* What the contract lets one camera do.
LEMMA Kinds ==
    ASSUME NEW c \in Cameras, NEW a, NEW s, Moves(c, a, s),
           \/ Doing(c) = "none" /\ a = "read" /\ Source(c) = "live" /\ s = "live"
           \/ Doing(c) = "none" /\ a \in {"connect", "close"} /\ s = Source(c)
           \/ Doing(c) = "connect" /\ a = "connect" /\ s \in {"none", "held"}
           \/ Doing(c) = "connect" /\ a = "none" /\ s \in {"none", "held", "live"}
           \/ Doing(c) = "connect" /\ a = "close" /\ s \in {"none", "held"}
           \/ Doing(c) = "close" /\ a \in {"close", "none"} /\ s = "none"
           \/ Doing(c) = "read" /\ a = "none" /\ s = Source(c)
           \/ Doing(c) \in {"none", "read"} /\ a = "none" /\ Source(c) = "live" /\ s = "held"
           \/ Doing(c) = a /\ Source(c) = s
    PROVE  [Contract!Next]_(Contract!runtimeVars)
<1>1. Contract!Goes(c, a) /\ Contract!Leaves(c, s)
    BY Moved
<1>2. [d \in Cameras |-> Doing(d)][c] = Doing(c) /\ [d \in Cameras |-> Source(d)][c] = Source(c)
    OBVIOUS
<1> QED
    BY <1>1, <1>2
    DEF Contract!Next, Contract!Calls, Contract!Connects, Contract!Connected,
        Contract!ReadReturns, Contract!CloseReturns, Contract!Releases, Contract!Dies,
        Contract!Lasts

\* Every step is a step of the contract or a stutter.
LEMMA ContractStep ==
    ASSUME TypeOK, "late" \notin Faults, \A c \in Cameras : Phases(c) /\ OwnLink(c), [Next]_vars
    PROVE  [Contract!Next]_(Contract!runtimeVars)
<1> USE DEF Moves, Doing, Source, Phases, Holds, OwnLink, Replaces, TypeOK, Calls, Set
<1>1. ASSUME NEW c \in Cameras, Leave(c)  PROVE [Contract!Next]_(Contract!runtimeVars)
    <2>1. CASE run[c] = "first"
        BY <1>1, <2>1, ContractStutters DEF Leave, flagVars, pipeVars
    <2>2. CASE run[c] # "first"
        <3>1. Moves(c, "close", Source(c)) /\ Doing(c) = "none"
            BY <1>1, <2>2 DEF Leave, flagVars, pipeVars
        <3> QED
            BY <3>1, Kinds
    <2> QED
        BY <2>1, <2>2
<1>2. ASSUME NEW c \in Cameras, Reconnect(c)  PROVE [Contract!Next]_(Contract!runtimeVars)
    <2>1. Moves(c, "connect", Source(c)) /\ Doing(c) = "none"
        BY <1>2 DEF Reconnect, callerVars, pipeVars
    <2> QED
        BY <2>1, Kinds
<1>3. ASSUME NEW c \in Cameras, Build(c)  PROVE [Contract!Next]_(Contract!runtimeVars)
    <2>1. call[c] = "open" /\ run[c] # "up" /\ current'[c] = built[c] + 1
        BY <1>3 DEF Build
    <2>2. current'[c] # 0
        BY <2>1, DeepStreamAssumption
    <2>3. Moves(c, "connect", "held") /\ Doing(c) = "connect"
        BY <1>3, <2>1, <2>2 DEF Build, callerVars, flagVars
    <2> QED
        BY <2>3, Kinds
<1>4. ASSUME NEW c \in Cameras, Start(c) \/ LinkSeen(c)
      PROVE  [Contract!Next]_(Contract!runtimeVars)
    BY <1>4, ContractStutters DEF Start, LinkSeen, callerVars, flagVars, pipeVars
<1>5. ASSUME NEW c \in Cameras, Settle(c)  PROVE [Contract!Next]_(Contract!runtimeVars)
    <2>1. Moves(c, "none", "live") /\ Doing(c) = "connect"
        BY <1>5 DEF Settle, Returns, flagVars, pipeVars
    <2> QED
        BY <2>1, Kinds
<1>6. ASSUME NEW c \in Cameras, Read(c)  PROVE [Contract!Next]_(Contract!runtimeVars)
    <2>1. Doing(c) = "none" /\ Source(c) = "live"
        BY <1>6 DEF Read
    <2>2. Moves(c, "none", "held") \/ Moves(c, "read", "live")
        BY <1>6 DEF Read, Raises, CheckBus, SetPipe
    <2> QED
        BY <2>1, <2>2, Kinds
<1>7. ASSUME NEW c \in Cameras, Sample(c)  PROVE [Contract!Next]_(Contract!runtimeVars)
    <2>1. Moves(c, "none", "live") /\ Doing(c) = "read" /\ Source(c) = "live"
        BY <1>7 DEF Sample, Returns, flagVars, pipeVars
    <2> QED
        BY <2>1, Kinds
<1>8. ASSUME NEW c \in Cameras, PullEmpty(c)  PROVE [Contract!Next]_(Contract!runtimeVars)
    <2>1. Doing(c) = "read" /\ Source(c) = "live"
        BY <1>8 DEF PullEmpty
    <2>2. Moves(c, "none", "held")
        BY <1>8 DEF PullEmpty, Raises, CheckBus, SetPipe
    <2> QED
        BY <2>1, <2>2, Kinds
<1>9. ASSUME NEW c \in Cameras, Take(c)  PROVE [Contract!Next]_(Contract!runtimeVars)
    <2>1. CASE after[c] = "open"
        <3>1. Moves(c, "connect", "none") /\ Doing(c) = "connect"
            BY <1>9, <2>1 DEF Take, Follow, flagVars
        <3> QED
            BY <3>1, Kinds
    <2>2. CASE after[c] # "open"
        <3>1. Doing(c) = "close" /\ (Moves(c, "close", "none") \/ Moves(c, "none", "none"))
            BY <1>9, <2>2 DEF Take, Follow, flagVars
        <3> QED
            BY <3>1, Kinds
    <2> QED
        BY <2>1, <2>2
<1>10. ASSUME NEW c \in Cameras, CloseReturns(c)  PROVE [Contract!Next]_(Contract!runtimeVars)
    <2>1. CASE after[c] = "open"
        <3>1. Moves(c, "connect", "none") /\ Doing(c) = "connect"
            BY <1>10, <2>1 DEF CloseReturns, Follow, flagVars, pipeVars
        <3> QED
            BY <3>1, Kinds
    <2>2. CASE after[c] # "open"
        <3>1. Moves(c, "none", "none") /\ Doing(c) = "close"
            BY <1>10, <2>2 DEF CloseReturns, Follow, flagVars, pipeVars
        <3> QED
            BY <3>1, Kinds
    <2> QED
        BY <2>1, <2>2
<1>11. ASSUME NEW c \in Cameras, Failure(c)  PROVE [Contract!Next]_(Contract!runtimeVars)
    <2>1. Doing(c) = "connect" /\ Source(c) \in {"none", "held"}
        BY <1>11 DEF Failure, PrepareRaises, StartFails, LinkTimeout, SettleFails
    <2>2. /\ Raises(c) /\ UNCHANGED <<current, video>>
          /\ run[c] # "up"
        BY <1>11 DEF Failure, PrepareRaises, StartFails, LinkTimeout, SettleFails, flagVars,
           pipeVars
    <2>3. Moves(c, "close", Source(c)) \/ Moves(c, "none", Source(c))
        BY <2>1, <2>2 DEF Raises
    <2> QED
        BY <2>1, <2>3, Kinds
<1>12. ASSUME NEW c \in Cameras, BusMessage(c)  PROVE [Contract!Next]_(Contract!runtimeVars)
    BY <1>12, ContractStutters DEF BusMessage, callerVars, flagVars
<1>13. ASSUME NEW c \in Cameras, NEW p \in Pipes, PadAdded(c, p)
       PROVE  [Contract!Next]_(Contract!runtimeVars)
    <2>1. run[c] # "up" /\ p = current[c]
        BY <1>13, DeepStreamAssumption DEF PadAdded, Pipes
    <2> QED
        BY <1>13, <2>1, ContractStutters DEF PadAdded, SetPipe, callerVars
<1>14. ASSUME NEW c \in Cameras, NEW p \in Pipes,
              HelperStep(c, p) \/ UnwindHangs(c, p) \/ Interrupt(c, p)
       PROVE  [Contract!Next]_(Contract!runtimeVars)
    BY <1>14, HelpersAreApart, ContractStutters
<1>15. CASE StopAll
    BY <1>15, ContractStutters DEF StopAll
<1>16. CASE UNCHANGED vars
    BY <1>16, ContractStutters DEF vars, callerVars, flagVars, pipeVars
<1> QED
    BY <1>1, <1>2, <1>3, <1>4, <1>5, <1>6, <1>7, <1>8, <1>9, <1>10, <1>11, <1>12, <1>13,
       <1>14, <1>15, <1>16 DEF Next, ThreadStep

\* The DeepStream cameras keep the contract of a camera runtime, as long as no pad of
\* a pipeline that is being replaced comes late: they are read only with video of
\* their own pipeline, and what has failed is read again only after a new connection.
THEOREM KeepsTheContract == ASSUME "late" \notin Faults PROVE Spec => RuntimeSpec
<1> DEFINE I == \A c \in Cameras : OwnLink(c)
<1>1. TypeOK /\ (\A c \in Cameras : Phases(c)) /\ I /\ [Next]_vars => I'
    BY LinkStep
<1>2. Init => I
    BY InitPipes
<1>3. TypeOK /\ (\A c \in Cameras : Phases(c)) /\ I /\ [Next]_vars
          => [Contract!Next]_(Contract!runtimeVars)
    BY ContractStep
<1>4. Init => Contract!Init
    BY DEF Init, Contract!Init, Doing, Source
<1> HIDE DEF I
<1> QED
    BY <1>1, <1>2, <1>3, <1>4, PipesInv, PTL DEF Spec, RuntimeSpec, Contract!Spec

-----------------------------------------------------------------------------
(* RateGate.                                                               *)

-----------------------------------------------------------------------------
(* Arithmetic.                                                             *)

\* A number that is at least k times b has at least the quotient k.
LEMMA QuotientAtLeast ==
    ASSUME NEW a \in Nat, NEW b \in Nat, b > 0, NEW k \in Nat, a >= b * k
    PROVE  a \div b >= k
<1>1. a = b * (a \div b) + (a % b) /\ (a % b) \in 0..(b - 1) /\ a \div b \in Nat
    OBVIOUS
<1>2. b * k < b * (a \div b + 1)
    BY <1>1
<1>3. ASSUME a \div b < k  PROVE FALSE
    <2>1. a \div b + 1 <= k
        BY <1>1, <1>3
    <2>2. b * (a \div b + 1) <= b * k
        BY <2>1, <1>1
    <2> QED
        BY <2>2, <1>2, <1>1
<1> QED
    BY <1>1, <1>3

\* Rounding a quotient yields a number that is not below the quotient.
LEMMA Rounding ==
    ASSUME NEW a \in Nat, NEW b \in Nat, b > 0
    PROVE  Round(a, b) \in Nat /\ Round(a, b) >= a \div b
<1>1. a \div b \in Nat
    OBVIOUS
<1> QED
    BY <1>1 DEF Round

\* The share the probe passes is never more than the whole.
LEMMA GateNumbers ==
    ASSUME source \in Nat, target \in Nat
    PROVE  /\ Interval \in Nat /\ Interval > 0
           /\ GateTarget \in Nat /\ GateSource \in Nat
           /\ Gated => 0 < GateTarget /\ GateTarget <= GateSource
<1>1. Interval \in Nat /\ Interval > 0
    <2>1. CASE Plans
        <3>1. 100 * target \in Nat /\ 100 * target > 0 /\ source >= 100 * target * 1
            BY <2>1 DEF Plans
        <3>2. source \div (100 * target) >= 1
            BY <3>1, QuotientAtLeast
        <3> QED
            BY <2>1, <3>1, <3>2 DEF Interval
    <2>2. CASE ~Plans
        BY <2>2 DEF Interval
    <2> QED
        BY <2>1, <2>2
<1>2. CASE Gated
    <2>1. Plans /\ source > Interval * (100 * target + 1)
        BY <1>2 DEF Gated
    <2>2. 100 * target \in Nat /\ 100 * target > 0
        BY <2>1 DEF Plans
    <2> DEFINE k == 100 * target + 1
    <2>3. k \in Nat /\ source >= Interval * k
        BY <2>1, <2>2, <1>1
    <2> HIDE DEF k
    <2>4. source \div Interval >= k
        BY <2>3, <1>1, QuotientAtLeast
    <2>5. Round(source, Interval) \in Nat /\ Round(source, Interval) >= source \div Interval
        BY <1>1, Rounding
    <2>6. source \div Interval \in Nat
        BY <1>1
    <2>7. Round(source, Interval) >= k
        BY <2>3, <2>4, <2>5, <2>6
    <2> QED
        BY <1>1, <1>2, <2>2, <2>5, <2>7 DEF GateTarget, GateSource, k
<1>3. CASE ~Gated
    BY <1>1, <1>3 DEF GateTarget, GateSource
<1> QED
    BY <1>2, <1>3

\* The plan is a matter of the configuration alone.
LEMMA PlanIsKept ==
    ASSUME UNCHANGED <<source, target>>
    PROVE  GateTarget' = GateTarget /\ GateSource' = GateSource /\ Gated' = Gated
BY DEF GateTarget, GateSource, Gated, Interval, Plans, Round

-----------------------------------------------------------------------------
(* The invariant.                                                          *)

Bounded == /\ GateTypeOK
           /\ LessThanAFrame

\* One frame at the probe: the credit stays below a whole frame.
LEMMA CreditStep ==
    ASSUME source \in Nat, target \in Nat, credit \in Nat, LessThanAFrame, GateSource # 0
    PROVE  /\ Passes => Spend \in Nat /\ Spend < GateSource
           /\ ~Passes => credit + GateTarget \in Nat /\ credit + GateTarget < GateSource
<1>1. Gated
    BY DEF GateSource
<1>2. GateTarget \in Nat /\ GateSource \in Nat /\ GateTarget <= GateSource
    BY <1>1, GateNumbers
<1> QED
    BY <1>2 DEF Passes, Spend, LessThanAFrame

LEMMA BoundedStep ==
    ASSUME Bounded, [GateNext]_gateVars
    PROVE  Bounded'
<1>1. /\ source \in Nat /\ target \in Nat /\ credit \in Nat /\ seen \in 0..MaxSeen
      /\ decoded \in Nat /\ passed \in Nat /\ base \in Nat /\ dropped \in Nat
      /\ source \in Sources /\ target \in Targets /\ MaxSeen \in Nat
      /\ strays \in 0..MaxStrays /\ MaxStrays \in Nat /\ stolen \in 0..strays
    BY RateGateAssumption DEF Bounded, GateTypeOK
<1>2. UNCHANGED <<source, target>>
    BY DEF GateNext, Frame, AbandonedFrame, NextConnection, gateVars
<1>3. GateSource' = GateSource
    BY <1>2, PlanIsKept
<1>4. LessThanAFrame
    BY DEF Bounded
<1>5. CASE Frame
    <2>1. credit' \in Nat /\ (credit' = credit \/ credit' < GateSource)
        <3>1. CASE Keeps /\ GateSource # 0
            BY <1>1, <1>4, <1>5, <3>1, CreditStep DEF Frame, Gate
        <3>2. CASE ~(Keeps /\ GateSource # 0)
            BY <1>1, <1>5, <3>2 DEF Frame, Gate
        <3> QED
            BY <3>1, <3>2
    <2>2. decoded' \in Nat /\ passed' \in Nat /\ dropped' \in Nat /\ base' \in Nat
        BY <1>1, <1>5 DEF Frame, Gate
    <2>3. seen' \in 0..MaxSeen /\ strays' \in 0..MaxStrays /\ stolen' \in 0..strays'
        BY <1>1, <1>5 DEF Frame
    <2> QED
        BY <1>1, <1>2, <1>3, <1>4, <2>1, <2>2, <2>3 DEF Bounded, GateTypeOK, LessThanAFrame
<1>6. CASE AbandonedFrame
    <2>1. /\ credit' \in Nat /\ credit' < GateSource
          /\ strays' \in 0..MaxStrays /\ stolen' \in 0..strays'
        BY <1>1, <1>4, <1>6, CreditStep DEF AbandonedFrame
    <2> QED
        BY <1>1, <1>2, <1>3, <1>6, <2>1 DEF AbandonedFrame, Bounded, GateTypeOK, LessThanAFrame
<1>7. CASE NextConnection \/ UNCHANGED gateVars
    BY <1>1, <1>2, <1>3, <1>4, <1>7 DEF NextConnection, gateVars, Bounded, GateTypeOK, LessThanAFrame
<1> QED
    BY <1>5, <1>6, <1>7 DEF GateNext

\* The credit of the probe never reaches a whole frame, for all rates, with and
\* without an abandoned pipeline beside it.
THEOREM CreditIsBounded == GateSpec => [](GateTypeOK /\ LessThanAFrame)
<1>1. GateInit => Bounded
    BY RateGateAssumption DEF GateInit, Bounded, GateTypeOK, LessThanAFrame
<1>2. Bounded /\ [GateNext]_gateVars => Bounded'
    BY BoundedStep
<1>3. Bounded => GateTypeOK /\ LessThanAFrame
    BY DEF Bounded
<1> QED
    BY <1>1, <1>2, <1>3, PTL DEF GateSpec

\* No frame is gained or lost: what the probe passed is what came in times the
\* share, the frames of an abandoned pipeline included.
THEOREM GateIsExact == GateSpec => []Exact
<1>1. GateInit => Exact
    <2> SUFFICES ASSUME GateInit PROVE Exact
        OBVIOUS
    <2>1. GateTarget \in Nat /\ GateSource \in Nat
        BY RateGateAssumption, GateNumbers DEF GateInit
    <2> QED
        BY <2>1 DEF GateInit, Exact
<1>2. GateTypeOK /\ Exact /\ [GateNext]_gateVars => Exact'
    <2> SUFFICES ASSUME GateTypeOK, Exact, [GateNext]_gateVars PROVE Exact'
        OBVIOUS
    <2> DEFINE came == decoded + strays
               went == passed + stolen
    <2>1. /\ source \in Nat /\ target \in Nat /\ credit \in Nat
          /\ decoded \in Nat /\ passed \in Nat /\ base \in Nat /\ strays \in Nat /\ stolen \in Nat
        BY RateGateAssumption DEF GateTypeOK
    <2>2. UNCHANGED <<source, target>>
        BY DEF GateNext, Frame, AbandonedFrame, NextConnection, gateVars
    <2>3. GateTarget' = GateTarget /\ GateSource' = GateSource /\ Gated' = Gated
        BY <2>2, PlanIsKept
    <2>4. GateTarget \in Nat /\ GateSource \in Nat
        BY <2>1, GateNumbers
    <2>5. CASE Gated /\ UNCHANGED <<decoded, passed, base, strays, stolen, credit>>
        BY <2>3, <2>5 DEF Exact
    <2>6. CASE Gated /\ ((Frame /\ Keeps) \/ AbandonedFrame)
        <3>1. GateSource # 0
            BY <2>1, <2>4, <2>6, GateNumbers
        <3>2. came' = came + 1 /\ base' = base
            BY <2>1, <2>6 DEF Frame, AbandonedFrame
        <3>3. /\ Passes => went' = went + 1 /\ credit' = credit + GateTarget - GateSource
              /\ ~Passes => went' = went /\ credit' = credit + GateTarget
            BY <2>1, <2>6, <3>1 DEF Frame, AbandonedFrame, Gate, Spend
        <3>4. came \in Nat /\ went \in Nat
            BY <2>1
        <3>5. GateTarget * came + base = GateSource * went + credit
            BY <2>6 DEF Exact
        <3> HIDE DEF came, went
        <3>6. /\ GateTarget * (came + 1) = GateTarget * came + GateTarget
              /\ GateSource * (went + 1) = GateSource * went + GateSource
              /\ GateTarget * came \in Nat /\ GateSource * went \in Nat
            BY <2>4, <3>4
        <3>7. GateTarget' * came' + base' = GateSource' * went' + credit'
            <4>1. CASE Passes
                BY <2>1, <2>3, <2>4, <3>2, <3>3, <3>5, <3>6, <4>1
            <4>2. CASE ~Passes
                BY <2>1, <2>3, <2>4, <3>2, <3>3, <3>5, <3>6, <4>2
            <4> QED
                BY <4>1, <4>2
        <3> QED
            BY <3>7 DEF Exact, came, went
    <2>7. CASE Gated /\ NextConnection
        BY <2>1, <2>3, <2>4, <2>7 DEF Exact, NextConnection
    <2>8. CASE ~Gated
        BY <2>3, <2>8 DEF Exact
    <2> QED
        BY <2>5, <2>6, <2>7, <2>8 DEF GateNext, Frame, gateVars
<1>3. GateSpec => []GateTypeOK
    BY CreditIsBounded, PTL
<1> QED
    BY <1>1, <1>2, <1>3, PTL DEF GateSpec

\* _rate_gate passes its share of the frames, to within one frame, for all rates; with
\* an abandoned pipeline, of the frames of both.
THEOREM ShareIsKept == GateSpec => []ShareKept
<1>1. GateTypeOK /\ LessThanAFrame /\ Exact => ShareKept
    BY DEF ShareKept
<1> QED
    BY <1>1, CreditIsBounded, GateIsExact, PTL

-----------------------------------------------------------------------------
(* Arithmetic of the ceiling.                                              *)

\* Products grow with their factors.
LEMMA Products ==
    ASSUME NEW a \in Nat, NEW b \in Nat, NEW c \in Nat, a <= b
    PROVE  a * c \in Nat /\ b * c \in Nat /\ a * c <= b * c
<1>1. PICK d \in Nat : b = a + d
    BY b - a \in Nat, b = a + (b - a)
<1>2. (a + d) * c = a * c + d * c /\ a * c \in Nat /\ d * c \in Nat
    OBVIOUS
<1> QED
    BY <1>1, <1>2

\* Rounding is off by no more than a half.
LEMMA RoundingIsClose ==
    ASSUME NEW a \in Nat, NEW b \in Nat, b > 0
    PROVE  /\ 2 * (b * Round(a, b)) >= 2 * a - b
           /\ 2 * (b * Round(a, b)) <= 2 * a + b
           /\ Round(a, b) <= a \div b + 1
<1> DEFINE q == a \div b
           r == a % b
<1>1. q \in Nat /\ r \in 0..(b - 1) /\ a = b * q + r
    OBVIOUS
<1>2. b * (q + 1) = b * q + b /\ b * q \in Nat
    BY <1>1
<1>3. \/ Round(a, b) = q /\ 2 * r <= b
      \/ Round(a, b) = q + 1 /\ 2 * r >= b
    BY <1>1 DEF Round
<1> HIDE DEF q, r
<1>4. CASE Round(a, b) = q /\ 2 * r <= b
    BY <1>1, <1>2, <1>4 DEF q
<1>5. CASE Round(a, b) = q + 1 /\ 2 * r >= b
    BY <1>1, <1>2, <1>5 DEF q
<1> QED
    BY <1>3, <1>4, <1>5

\* The decoder alone: it keeps one frame in I of a source of rate S, which is within
\* I hundredths of the target T.
LEMMA CeilingOfDecoder ==
    ASSUME NEW S \in Nat, NEW T \in Nat, NEW I \in Nat, NEW D \in Nat, NEW P \in Nat,
           NEW n \in Nat, T > 0, I > 0, T * I <= S, S <= I * (T + 1), P <= D,
           I * D <= n + I - 1
    PROVE  S * P <= (T + 1) * n + 2 * S
<1>1. S * P <= S * D /\ S * P \in Nat /\ S * D \in Nat
    BY Products
<1>2. S * D <= (I * (T + 1)) * D
    BY Products
<1>3. (I * (T + 1)) * D = (I * D) * (T + 1)
    OBVIOUS
<1>4. (I * D) * (T + 1) <= (n + I - 1) * (T + 1)
    BY n + I - 1 \in Nat, I * D \in Nat, Products
<1>5. (n + I - 1) * (T + 1) = (T + 1) * n + T * I + I - T - 1
    OBVIOUS
<1>6. I <= T * I
    BY Products, 1 * I = I
<1>7. T * I \in Nat /\ (T + 1) * n \in Nat /\ (I * (T + 1)) * D \in Nat
    OBVIOUS
<1> QED
    BY <1>1, <1>2, <1>3, <1>4, <1>5, <1>6, <1>7

\* Decoder and probe: the probe passes T of every G decoded frames, G being S / I
\* rounded, beginning with less than a frame's credit.
LEMMA CeilingOfProbe ==
    ASSUME NEW S \in Nat, NEW T \in Nat, NEW I \in Nat, NEW D \in Nat, NEW P \in Nat,
           NEW n \in Nat, NEW G \in Nat, NEW c \in Nat,
           T > 0, I > 0, T * I <= S, S > I * (T + 1), S < T * (I + 1), P <= D,
           I * D <= n + I - 1, 2 * (I * G) >= 2 * S - I, 2 * (I * G) <= 2 * S + I,
           G * P <= T * D + c, c <= G
    PROVE  S * P <= (T + 1) * n + 2 * S
<1>1. I < T
    <2>1. I * (T + 1) = I * T + I /\ T * (I + 1) = I * T + T /\ I * T \in Nat
        OBVIOUS
    <2> QED
        BY <2>1
<1>2. I * P <= n + I - 1 /\ I * P \in Nat
    <2>1. I * P <= I * D /\ I * P \in Nat /\ I * D \in Nat
        BY Products
    <2> QED
        BY <2>1
<1>3. 2 * (S * P) <= 2 * (I * (G * P)) + I * P
    <2>1. 2 * S <= 2 * (I * G) + I
        OBVIOUS
    <2>2. (2 * S) * P <= (2 * (I * G) + I) * P
        BY <2>1, Products, I * G \in Nat
    <2>3. (2 * (I * G) + I) * P = 2 * (I * (G * P)) + I * P
        OBVIOUS
    <2>4. (2 * S) * P = 2 * (S * P)
        OBVIOUS
    <2> QED
        BY <2>2, <2>3, <2>4
<1>4. I * (G * P) <= T * (n + I - 1) + I * G
    <2>1. G * P <= T * D + G /\ G * P \in Nat /\ T * D + G \in Nat
        OBVIOUS
    <2>2. (G * P) * I <= (T * D + G) * I
        BY <2>1, Products
    <2>3. (T * D + G) * I = (I * D) * T + I * G
        OBVIOUS
    <2>4. (I * D) * T <= (n + I - 1) * T
        BY Products, I * D \in Nat, n + I - 1 \in Nat
    <2>5. (G * P) * I = I * (G * P) /\ (n + I - 1) * T = T * (n + I - 1)
        OBVIOUS
    <2>6. I * (G * P) \in Nat /\ (I * D) * T \in Nat /\ I * G \in Nat /\ T * (n + I - 1) \in Int
        OBVIOUS
    <2> QED
        BY <2>2, <2>3, <2>4, <2>5, <2>6
<1>5. T * (n + I - 1) = T * n + T * I - T /\ T * n \in Nat /\ T * I \in Nat
    OBVIOUS
<1>6. (T + 1) * n = T * n + n
    OBVIOUS
<1>7. S * P \in Nat /\ I * (G * P) \in Nat /\ I * G \in Nat
    OBVIOUS
<1> QED
    BY <1>1, <1>2, <1>3, <1>4, <1>5, <1>6, <1>7

\* A multiple of b leaves nothing over, and a number between two neighbouring multiples
\* leaves something.
LEMMA Multiples ==
    ASSUME NEW a \in Nat, NEW b \in Nat, b > 0, NEW k \in Nat,
           b * k >= a, b * k <= a + b - 1
    PROVE  a % b = 0 <=> a = b * k
<1> DEFINE q == a \div b
<1>1. q \in Nat /\ a % b \in 0..(b - 1) /\ a = b * q + (a % b)
    OBVIOUS
<1>2. b * (k + 1) = b * k + b /\ b * (q + 1) = b * q + b /\ b * k \in Nat /\ b * q \in Nat
    BY <1>1
<1> HIDE DEF q
<1>3. ASSUME a % b = 0  PROVE a = b * k
    <2>1. a = b * q
        BY <1>1, <1>3
    <2>2. CASE k < q
        <3>1. (k + 1) * b <= q * b
            BY <1>1, <2>2, Products
        <3> QED
            BY <1>1, <1>2, <2>1, <3>1
    <2>3. CASE q < k
        <3>1. (q + 1) * b <= k * b
            BY <1>1, <2>3, Products
        <3> QED
            BY <1>1, <1>2, <2>1, <3>1
    <2> QED
        BY <1>1, <2>1, <2>2, <2>3
<1>4. ASSUME a = b * k  PROVE a % b = 0
    <2>1. CASE k < q
        <3>1. (k + 1) * b <= q * b
            BY <1>1, <2>1, Products
        <3> QED
            BY <1>1, <1>2, <1>4, <3>1
    <2>2. CASE q < k
        <3>1. (q + 1) * b <= k * b
            BY <1>1, <2>2, Products
        <3> QED
            BY <1>1, <1>2, <1>4, <3>1
    <2> QED
        BY <1>1, <1>2, <1>4, <2>1, <2>2
<1> QED
    BY <1>3, <1>4

-----------------------------------------------------------------------------
(* The frames are spread and below the target.                             *)

\* The interval is a share of what the source has over the target.
LEMMA IntervalFits ==
    ASSUME source \in Nat, target \in Nat, Plans
    PROVE  /\ 100 * target \in Nat /\ 100 * target > 0
           /\ Interval \in Nat /\ Interval > 0
           /\ 100 * target * Interval <= source
           /\ source < 100 * target * (Interval + 1)
<1> DEFINE T == 100 * target
<1>1. T \in Nat /\ T > 0
    BY DEF Plans
<1>2. Interval \in Nat /\ Interval > 0
    BY GateNumbers
<1>3. Interval = source \div T
    BY DEF Interval
<1> HIDE DEF T
<1>4. source = T * (source \div T) + (source % T) /\ source % T \in 0..(T - 1)
    BY <1>1
<1>5. T * (Interval + 1) = T * Interval + T /\ T * Interval \in Nat
    BY <1>1, <1>2
<1>6. T * Interval <= source /\ source < T * (Interval + 1)
    BY <1>1, <1>3, <1>4, <1>5
<1> QED
    BY <1>1, <1>2, <1>6 DEF T

\* Two shares of the target are a whole decoded frame.
LEMMA TwoShares ==
    ASSUME source \in Nat, target \in Nat
    PROVE  GateSource <= 2 * GateTarget
<1>1. CASE ~Gated
    BY <1>1 DEF GateSource, GateTarget
<1>2. CASE Gated
    <2> DEFINE T == 100 * target
               q == source \div Interval
    <2>1. /\ T \in Nat /\ T > 0 /\ Interval \in Nat /\ Interval > 0
          /\ T * Interval <= source /\ source < T * (Interval + 1)
        BY <1>2, IntervalFits DEF Gated
    <2>2. GateTarget = T /\ GateSource = Round(source, Interval)
        BY <1>2 DEF GateTarget, GateSource
    <2>3. Round(source, Interval) \in Nat /\ Round(source, Interval) <= q + 1
        BY <2>1, Rounding, RoundingIsClose
    <2>4. q \in Nat /\ q * Interval <= source
        <3>1. source = Interval * q + (source % Interval) /\ source % Interval \in Nat /\ q \in Nat
            BY <2>1
        <3> QED
            BY <2>1, <3>1
    <2> HIDE DEF T, q
    <2>5. q < 2 * T
        <3>1. SUFFICES ASSUME q >= 2 * T  PROVE FALSE
            BY <2>1, <2>4
        <3>2. (2 * T) * Interval <= q * Interval
            BY <2>1, <2>4, <3>1, Products
        <3>3. T <= T * Interval
            <4>1. 1 * T <= Interval * T
                BY <2>1, Products
            <4> QED
                BY <2>1, <4>1
        <3>4. (2 * T) * Interval = T * Interval + T * Interval
              /\ T * (Interval + 1) = T * Interval + T /\ T * Interval \in Nat
            BY <2>1
        <3> QED
            BY <2>1, <2>4, <3>2, <3>3, <3>4
    <2> QED
        BY <2>1, <2>2, <2>3, <2>4, <2>5
<1> QED
    BY <1>1, <1>2

\* One frame in Interval is decoded, beginning with the first.
Decimated ==
    HasInterval => /\ Interval * decoded >= seen
                   /\ Interval * decoded <= seen + Interval - 1

\* Behind a dropped frame the credit holds a share.
Spread == strays = 0 => dropped = 0 \/ (dropped = 1 /\ credit >= GateTarget)

\* No connection begins with the credit of a whole frame.
Begins == base = 0 \/ base < GateSource

EvenInv == Decimated /\ Spread /\ Begins /\ passed <= decoded

\* The plan and the decoder's interval are a matter of the configuration alone.
LEMMA IntervalIsKept ==
    ASSUME UNCHANGED <<source, target>>
    PROVE  Interval' = Interval /\ Plans' = Plans
BY DEF Interval, Plans

LEMMA EvenStep ==
    ASSUME GateTypeOK, LessThanAFrame, EvenInv, [GateNext]_gateVars
    PROVE  EvenInv'
<1>1. /\ source \in Nat /\ target \in Nat /\ credit \in Nat /\ seen \in Nat
      /\ decoded \in Nat /\ passed \in Nat /\ base \in Nat /\ dropped \in Nat /\ strays \in Nat
    BY RateGateAssumption DEF GateTypeOK
<1>2. UNCHANGED <<source, target>>
    BY DEF GateNext, Frame, AbandonedFrame, NextConnection, gateVars
<1>3. /\ Interval' = Interval /\ GateSource' = GateSource /\ GateTarget' = GateTarget
      /\ Interval \in Nat /\ Interval > 0 /\ GateTarget \in Nat /\ GateSource \in Nat
      /\ GateSource <= 2 * GateTarget
    BY <1>1, <1>2, IntervalIsKept, PlanIsKept, GateNumbers, TwoShares
<1>4. Decimated'
    <2>1. CASE Frame /\ HasInterval
        <3>1. /\ Interval * decoded >= seen /\ Interval * decoded <= seen + Interval - 1
            BY <2>1 DEF EvenInv, Decimated
        <3>2. seen % Interval = 0 <=> seen = Interval * decoded
            BY <1>1, <1>3, <3>1, Multiples
        <3>3. Interval * (decoded + 1) = Interval * decoded + Interval /\ Interval * decoded \in Nat
            BY <1>1, <1>3
        <3>4. seen' = seen + 1 /\ decoded' = IF Keeps THEN decoded + 1 ELSE decoded
            BY <2>1 DEF Frame
        <3>5. Keeps <=> seen = Interval * decoded
            BY <2>1, <3>2 DEF Keeps
        <3>6. /\ Interval * decoded' >= seen' /\ Interval * decoded' <= seen' + Interval - 1
            <4>1. CASE Keeps
                BY <1>1, <1>3, <3>3, <3>4, <3>5, <4>1
            <4>2. CASE ~Keeps
                BY <1>1, <1>3, <3>1, <3>3, <3>4, <3>5, <4>2
            <4> QED
                BY <4>1, <4>2
        <3> QED
            BY <1>3, <3>6 DEF Decimated
    <2>2. CASE ~HasInterval
        BY <2>2 DEF Decimated
    <2>3. CASE NextConnection
        BY <1>3, <2>3 DEF NextConnection, Decimated
    <2>4. CASE AbandonedFrame \/ UNCHANGED gateVars
        BY <1>3, <2>4 DEF AbandonedFrame, gateVars, EvenInv, Decimated
    <2> QED
        BY <2>1, <2>2, <2>3, <2>4 DEF GateNext
<1>5. Spread'
    <2>1. CASE Frame
        <3>1. UNCHANGED strays
            BY <2>1 DEF Frame
        <3>2. CASE ~Keeps
            BY <1>3, <2>1, <3>2 DEF Frame, EvenInv, Spread
        <3>3. CASE Keeps /\ (GateSource = 0 \/ Passes)
            BY <2>1, <3>3 DEF Frame, Gate, Spread
        <3>4. CASE Keeps /\ GateSource # 0 /\ ~Passes
            <4>1. credit' = credit + GateTarget /\ dropped' = dropped + 1
                BY <2>1, <3>4 DEF Frame, Gate
            <4>2. strays = 0 => dropped = 0
                BY <1>1, <1>3, <3>4 DEF EvenInv, Spread, Passes
            <4> QED
                BY <1>1, <1>3, <3>1, <4>1, <4>2 DEF Spread
        <3> QED
            BY <3>2, <3>3, <3>4
    <2>2. CASE AbandonedFrame
        BY <1>1, <2>2 DEF AbandonedFrame, Spread
    <2>3. CASE NextConnection
        BY <2>3 DEF NextConnection, Spread
    <2>4. CASE UNCHANGED gateVars
        BY <1>3, <2>4 DEF gateVars, EvenInv, Spread
    <2> QED
        BY <2>1, <2>2, <2>3, <2>4 DEF GateNext
<1>6. Begins'
    BY <1>3 DEF GateNext, Frame, AbandonedFrame, NextConnection, gateVars, EvenInv, Begins, LessThanAFrame
<1>7. (passed <= decoded)'
    BY <1>1 DEF GateNext, Frame, Gate, AbandonedFrame, NextConnection, gateVars, EvenInv
<1> QED
    BY <1>4, <1>5, <1>6, <1>7 DEF EvenInv

\* Where the invariants hold, the target is a ceiling.
LEMMA CeilingHolds ==
    ASSUME GateTypeOK, Exact, EvenInv, HasInterval, strays = 0, Plans
    PROVE  source * passed <= (100 * target + 1) * seen + 2 * source
<1>1. /\ source \in Nat /\ target \in Nat /\ credit \in Nat /\ seen \in Nat
      /\ decoded \in Nat /\ passed \in Nat /\ base \in Nat
    BY RateGateAssumption DEF GateTypeOK
<1>6. decoded + strays = decoded /\ passed + stolen = passed
    BY <1>1 DEF GateTypeOK
<1> DEFINE T == 100 * target
<1>2. /\ T \in Nat /\ T > 0 /\ Interval \in Nat /\ Interval > 0
      /\ T * Interval <= source /\ source < T * (Interval + 1)
    BY <1>1, IntervalFits
<1>3. passed <= decoded /\ Interval * decoded <= seen + Interval - 1
    BY DEF EvenInv, Decimated
<1>4. CASE ~Gated
    <2>1. source <= Interval * (T + 1)
        BY <1>1, <1>2, <1>4 DEF Gated
    <2> HIDE DEF T
    <2>2. source * passed <= (T + 1) * seen + 2 * source
        BY <1>1, <1>2, <1>3, <2>1, CeilingOfDecoder
    <2> QED
        BY <2>2 DEF T
<1>5. CASE Gated
    <2>1. source > Interval * (T + 1)
        BY <1>5 DEF Gated
    <2>2. GateTarget = T /\ GateSource = Round(source, Interval) /\ GateSource \in Nat
        BY <1>1, <1>5, GateNumbers DEF GateTarget, GateSource
    <2>3. /\ 2 * (Interval * GateSource) >= 2 * source - Interval
          /\ 2 * (Interval * GateSource) <= 2 * source + Interval
        BY <1>1, <1>2, <2>2, RoundingIsClose
    <2>4. GateSource * passed <= T * decoded + base
        <3>1. T * decoded + base = GateSource * passed + credit
            BY <1>1, <1>5, <1>6, <2>2 DEF Exact
        <3>2. GateSource * passed \in Nat
            BY <1>1, <2>2
        <3> QED
            BY <1>1, <3>1, <3>2
    <2>5. base <= GateSource
        BY <1>1, <2>2 DEF EvenInv, Begins
    <2> HIDE DEF T
    <2>6. source * passed <= (T + 1) * seen + 2 * source
        BY <1>1, <1>2, <1>3, <2>1, <2>2, <2>3, <2>4, <2>5, CeilingOfProbe
    <2> QED
        BY <2>6 DEF T
<1> QED
    BY <1>4, <1>5

\* The frames are spread, and decoder and probe keep below fps_target, for all rates and
\* however long a connection lasts.
THEOREM BelowTheTarget == GateSpec => []EvenBelowTarget
<1>1. GateInit => EvenInv
    <2> SUFFICES ASSUME GateInit  PROVE EvenInv
        OBVIOUS
    <2>1. Interval \in Nat /\ Interval > 0
        BY RateGateAssumption, GateNumbers DEF GateInit
    <2> QED
        BY <2>1 DEF GateInit, EvenInv, Decimated, Spread, Begins
<1>2. GateTypeOK /\ LessThanAFrame /\ EvenInv /\ [GateNext]_gateVars => EvenInv'
    BY EvenStep
<1>3. GateTypeOK /\ Exact /\ EvenInv => EvenBelowTarget
    <2> SUFFICES ASSUME GateTypeOK, Exact, EvenInv, HasInterval, strays = 0
                 PROVE  /\ dropped <= 1
                        /\ Plans => source * passed <= (100 * target + 1) * seen + 2 * source
        BY DEF EvenBelowTarget
    <2> QED
        BY CeilingHolds DEF EvenInv, Spread
<1> QED
    BY <1>1, <1>2, <1>3, CreditIsBounded, GateIsExact, PTL DEF GateSpec
=============================================================================
