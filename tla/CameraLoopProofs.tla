-------------------------- MODULE CameraLoopProofs --------------------------
(* Proofs about CameraLoop, for every value of its constants. *)
EXTENDS CameraLoop, TLAPS

-----------------------------------------------------------------------------
(* Types: one step per action.                                             *)

LEMMA TypingStep ==
    ASSUME TypeOK, [Next]_vars
    PROVE  TypeOK'
<1> USE CameraLoopAssumption
    DEF TypeOK, Set, LoopPC, Ends, Calls, Connects, Results, Holdings, ErrorKind, MainPC,
        loopVars, poolVars, mainVars
<1>1. ASSUME NEW c \in Cameras, OpenOk(c)  PROVE TypeOK'
    BY <1>1 DEF OpenOk, Works, LoopTop, Await, Submit
<1>2. ASSUME NEW c \in Cameras, OpenFailed(c)  PROVE TypeOK'
    BY <1>2 DEF OpenFailed, Fails, Capped, Await, Submit
<1>3. ASSUME NEW c \in Cameras, OpenClosed(c)  PROVE TypeOK'
    BY <1>3 DEF OpenClosed
<1>4. ASSUME NEW c \in Cameras, SleepOver(c)  PROVE TypeOK'
    BY <1>4 DEF SleepOver, Await, Submit
<1>5. ASSUME NEW c \in Cameras, Reconnected(c)  PROVE TypeOK'
    BY <1>5 DEF Reconnected, Works, LoopTop, Await, Submit
<1>6. ASSUME NEW c \in Cameras, ReconnectFailed(c)  PROVE TypeOK'
    BY <1>6 DEF ReconnectFailed, Fails, Capped
<1>7. ASSUME NEW c \in Cameras, FrameRead(c)  PROVE TypeOK'
    BY <1>7 DEF FrameRead, Works
<1>8. ASSUME NEW c \in Cameras, ReadFailed(c)  PROVE TypeOK'
    BY <1>8 DEF ReadFailed, Fails, Capped, Await, Submit
<1>9. ASSUME NEW c \in Cameras, ProcessRaises(c)  PROVE TypeOK'
    BY <1>9 DEF ProcessRaises, LoopTop, Await, Submit
<1>10. ASSUME NEW c \in Cameras, Process(c)  PROVE TypeOK'
    BY <1>10 DEF Process, LoopTop, Await, Submit
<1>11. ASSUME NEW c \in Cameras, CloseRaised(c)  PROVE TypeOK'
    BY <1>11 DEF CloseRaised, Await, Submit
<1>12. ASSUME NEW c \in Cameras, RunEnds(c)  PROVE TypeOK'
    BY <1>12 DEF RunEnds
<1>13. ASSUME NEW c \in Cameras, Escalate(c)  PROVE TypeOK'
    BY <1>13 DEF Escalate
<1>14. ASSUME NEW c \in Cameras, CallReturns(c)  PROVE TypeOK'
    BY <1>14 DEF CallReturns, Connected, ReadReturned, Closed
<1>15. ASSUME NEW c \in Cameras, CallHangs(c)  PROVE TypeOK'
    BY <1>15 DEF CallHangs
<1>16. CASE Supervise
    BY <1>16 DEF Supervise, SuperviseStopped, SuperviseEnded, Shutdown, Done
<1>17. CASE ShutdownStep
    <2>1. CASE StopPipelines
        BY <2>1 DEF StopPipelines
    <2>2. CASE Abandon
        BY <2>2 DEF Abandon, Done
    <2>3. CASE AllStopped \/ Release
        BY <2>3 DEF AllStopped, Release
    <2> QED
        BY <1>17, <2>1, <2>2, <2>3 DEF ShutdownStep
<1>18. CASE Signal
    BY <1>18 DEF Signal
<1>19. CASE UNCHANGED vars
    BY <1>19 DEF vars
<1> QED
    BY <1>1, <1>2, <1>3, <1>4, <1>5, <1>6, <1>7, <1>8, <1>9, <1>10, <1>11, <1>12, <1>13, <1>14, <1>15, <1>16, <1>17, <1>18, <1>19 DEF Next, CameraStep, LoopStep

-----------------------------------------------------------------------------
(* The inductive invariant, camera by camera.                              *)

\* What IInv says of one camera.
Sound(c) == /\ at[c] \in {"openClose", "sleep", "reconnect", "failClose"} => lastError[c] # "none"
            /\ at[c] \in {"read", "process"} => lastError[c] # "source"
            /\ TakesTurns(c)
            /\ HoldsWhatItReads(c)
            /\ ClosedOnce(c)

\* A camera is sound as long as nothing of it changes.
LEMMA Untouched ==
    ASSUME NEW d \in Cameras, Sound(d),
           at'[d] = at[d], lastError'[d] = lastError[d], linked'[d] = linked[d],
           thread'[d] = thread[d], result'[d] = result[d], held'[d] = held[d]
    PROVE  Sound(d)'
BY DEF Sound, TakesTurns, HoldsWhatItReads, ClosedOnce, CallOf

\* A step of a camera leaves it sound: one step per action.
LEMMA StepOfOne ==
    ASSUME TypeOK, NEW c \in Cameras, Sound(c), CameraStep(c)
    PROVE  Sound(c)'
<1> USE DEF TypeOK, Set, LoopPC, Ends, Calls, Connects, Results, Holdings, ErrorKind,
            loopVars, poolVars, mainVars, Sound, TakesTurns, HoldsWhatItReads,
            ClosedOnce, CallOf
<1>1. CASE OpenOk(c)
    BY <1>1 DEF OpenOk, Works, LoopTop, Await, Submit
<1>2. CASE OpenFailed(c)
    BY <1>2 DEF OpenFailed, Fails, Await, Submit
<1>3. CASE OpenClosed(c)
    BY <1>3 DEF OpenClosed
<1>4. CASE SleepOver(c)
    BY <1>4 DEF SleepOver, Await, Submit
<1>5. CASE Reconnected(c)
    BY <1>5 DEF Reconnected, Works, LoopTop, Await, Submit
<1>6. CASE ReconnectFailed(c)
    BY <1>6 DEF ReconnectFailed, Fails
<1>7. CASE FrameRead(c)
    BY <1>7 DEF FrameRead, Works
<1>8. CASE ReadFailed(c)
    BY <1>8 DEF ReadFailed, Fails, Await, Submit
<1>9. CASE ProcessRaises(c)
    BY <1>9 DEF ProcessRaises, LoopTop, Await, Submit
<1>10. CASE Process(c)
    BY <1>10 DEF Process, LoopTop, Await, Submit
<1>11. CASE CloseRaised(c)
    BY <1>11 DEF CloseRaised, Await, Submit
<1>12. CASE RunEnds(c)
    BY <1>12 DEF RunEnds
<1>13. CASE Escalate(c)
    BY <1>13 DEF Escalate
<1>14. CASE CallReturns(c)
    BY <1>14 DEF CallReturns, Connected, ReadReturned, Closed
<1>15. CASE CallHangs(c)
    BY <1>15 DEF CallHangs
<1> QED
    BY <1>1, <1>2, <1>3, <1>4, <1>5, <1>6, <1>7, <1>8, <1>9, <1>10, <1>11, <1>12, <1>13, <1>14, <1>15 DEF CameraStep, LoopStep

\* and touches no other camera.
LEMMA StepOfOther ==
    ASSUME TypeOK, NEW c \in Cameras, CameraStep(c), NEW d \in Cameras \ {c}, Sound(d)
    PROVE  Sound(d)'
<1>1. /\ at'[d] = at[d] /\ lastError'[d] = lastError[d] /\ linked'[d] = linked[d]
      /\ thread'[d] = thread[d] /\ result'[d] = result[d] /\ held'[d] = held[d]
    <2> USE DEF TypeOK, Set, loopVars, poolVars, mainVars
    <2>1. CASE OpenOk(c)
        BY <2>1 DEF OpenOk, Works, LoopTop, Await, Submit
    <2>2. CASE OpenFailed(c)
        BY <2>2 DEF OpenFailed, Fails, Await, Submit
    <2>3. CASE OpenClosed(c)
        BY <2>3 DEF OpenClosed
    <2>4. CASE SleepOver(c)
        BY <2>4 DEF SleepOver, Await, Submit
    <2>5. CASE Reconnected(c)
        BY <2>5 DEF Reconnected, Works, LoopTop, Await, Submit
    <2>6. CASE ReconnectFailed(c)
        BY <2>6 DEF ReconnectFailed, Fails
    <2>7. CASE FrameRead(c)
        BY <2>7 DEF FrameRead, Works
    <2>8. CASE ReadFailed(c)
        BY <2>8 DEF ReadFailed, Fails, Await, Submit
    <2>9. CASE ProcessRaises(c)
        BY <2>9 DEF ProcessRaises, LoopTop, Await, Submit
    <2>10. CASE Process(c)
        BY <2>10 DEF Process, LoopTop, Await, Submit
    <2>11. CASE CloseRaised(c)
        BY <2>11 DEF CloseRaised, Await, Submit
    <2>12. CASE RunEnds(c)
        BY <2>12 DEF RunEnds
    <2>13. CASE Escalate(c)
        BY <2>13 DEF Escalate
    <2>14. CASE CallReturns(c)
        BY <2>14 DEF CallReturns, Connected, ReadReturned, Closed
    <2>15. CASE CallHangs(c)
        BY <2>15 DEF CallHangs
    <2> QED
        BY <2>1, <2>2, <2>3, <2>4, <2>5, <2>6, <2>7, <2>8, <2>9, <2>10, <2>11, <2>12, <2>13, <2>14, <2>15 DEF CameraStep, LoopStep
<1> QED
    BY <1>1, Untouched

\* The steps of main: those that leave the loops alone, and the two that stop
\* or cancel them.
LEMMA MainStep ==
    ASSUME TypeOK, NEW d \in Cameras, Sound(d), Supervise \/ ShutdownStep \/ Signal
    PROVE  Sound(d)'
<1> USE DEF loopVars, poolVars, mainVars
<1>1. CASE Supervise \/ Signal
    BY <1>1, Untouched
    DEF Supervise, SuperviseStopped, SuperviseEnded, Shutdown, Signal
<1>2. CASE StopPipelines \/ AllStopped \/ Release
    BY <1>2, Untouched DEF StopPipelines, AllStopped, Release
<1>3. CASE Abandon
    <2>1. CASE Done(d)
        <3>1. at'[d] = at[d]
            BY <1>3, <2>1 DEF Abandon, Done
        <3> QED
            BY <1>3, <3>1, Untouched DEF Abandon
    <2>2. CASE ~Done(d)
        <3>1. at'[d] = "cancelled"
            BY <1>3, <2>2 DEF Abandon, Done
        <3> QED
            BY <1>3, <3>1
            DEF Abandon, Sound, TakesTurns, HoldsWhatItReads, ClosedOnce, Connects
    <2> QED
        BY <2>1, <2>2
<1> QED
    BY <1>1, <1>2, <1>3 DEF ShutdownStep

\* Exit status 0 is chosen by the signal alone.
LEMMA CodeStep ==
    ASSUME TypeOK, CodeTellsWhy, [Next]_vars
    PROVE  CodeTellsWhy'
<1> USE DEF CodeTellsWhy, loopVars, poolVars, mainVars
<1>1. ASSUME NEW c \in Cameras, CameraStep(c)  PROVE UNCHANGED mainVars
    BY <1>1
    DEF CameraStep, LoopStep, OpenOk, OpenFailed, OpenClosed, SleepOver, Reconnected,
        ReconnectFailed, FrameRead, ReadFailed, ProcessRaises, Process, CloseRaised, RunEnds,
        Escalate, CallReturns, CallHangs, LoopTop, Await, Submit
<1>2. CASE Supervise
    BY <1>2 DEF Supervise, SuperviseStopped, SuperviseEnded, Shutdown
<1>3. CASE ShutdownStep
    BY <1>3 DEF ShutdownStep, StopPipelines, AllStopped, Abandon, Release
<1>4. CASE Signal
    BY <1>4 DEF Signal
<1>5. CASE UNCHANGED vars
    BY <1>5 DEF vars
<1> QED
    BY <1>1, <1>2, <1>3, <1>4, <1>5 DEF Next

\* The invariant is the conjunction of what it says of the cameras and of main.
LEMMA Parts == IInv <=> TypeOK /\ CodeTellsWhy /\ \A c \in Cameras : Sound(c)
BY DEF IInv, Sound, ReportIsTrue

LEMMA Initially == Init => IInv
<1> SUFFICES ASSUME Init PROVE TypeOK /\ CodeTellsWhy /\ \A c \in Cameras : Sound(c)
    BY Parts
<1>1. TypeOK
    <2> USE CameraLoopAssumption
        DEF Init, LoopPC, Ends, Calls, Results, Holdings, ErrorKind, MainPC
    <2>1. at \in [Cameras -> LoopPC] /\ lastError \in [Cameras -> ErrorKind]
        OBVIOUS
    <2>2. stop \in [Cameras -> BOOLEAN] /\ linked \in [Cameras -> BOOLEAN]
        OBVIOUS
    <2>3. errors \in [Cameras -> 0..ErrorCap]
        OBVIOUS
    <2>4. stuck \in [Cameras -> BOOLEAN] /\ thread \in [Cameras -> Calls \cup {"free"}]
        OBVIOUS
    <2>5. result \in [Cameras -> Results] /\ held \in [Cameras -> Holdings]
        OBVIOUS
    <2>6. main \in MainPC /\ signalled \in BOOLEAN /\ noticed \subseteq Cameras /\ code \in {0, 1}
        OBVIOUS
    <2> QED
        BY <2>1, <2>2, <2>3, <2>4, <2>5, <2>6 DEF TypeOK
<1>2. CodeTellsWhy
    BY DEF Init, CodeTellsWhy
<1>3. ASSUME NEW c \in Cameras  PROVE Sound(c)
    BY DEF Init, Sound, TakesTurns, HoldsWhatItReads, ClosedOnce, CallOf, Connects
<1> QED
    BY <1>1, <1>2, <1>3

LEMMA Preserved == IInv /\ [Next]_vars => IInv'
<1> SUFFICES ASSUME IInv, [Next]_vars PROVE IInv'
    OBVIOUS
<1>1. TypeOK /\ CodeTellsWhy /\ \A c \in Cameras : Sound(c)
    BY Parts
<1>2. ASSUME NEW d \in Cameras  PROVE Sound(d)'
    <2>1. ASSUME NEW c \in Cameras, CameraStep(c)  PROVE Sound(d)'
        BY <1>1, <2>1, StepOfOne, StepOfOther
    <2>2. CASE Supervise \/ ShutdownStep \/ Signal
        BY <1>1, <2>2, MainStep
    <2>3. CASE UNCHANGED vars
        BY <1>1, <2>3, Untouched DEF vars, loopVars, poolVars
    <2> QED
        BY <2>1, <2>2, <2>3 DEF Next
<1>3. TypeOK' /\ CodeTellsWhy'
    BY <1>1, TypingStep, CodeStep
<1>4. (TypeOK /\ CodeTellsWhy /\ \A c \in Cameras : Sound(c))'
    BY <1>2, <1>3
<1> QED
    BY <1>4 DEF IInv, Sound, ReportIsTrue

\* The inductive invariant holds in every state of the camera loops.
THEOREM Invariance == Spec => []IInv
BY Initially, Preserved, PTL DEF Spec

-----------------------------------------------------------------------------
(* What follows.                                                           *)

\* Every variable keeps its type, for every number of cameras and every fault.
THEOREM Typing == Spec => []TypeOK
<1>1. IInv => TypeOK
    BY DEF IInv
<1> QED
    BY <1>1, Invariance, PTL

\* The loop of pipeline.py never reads from a source that is not open.
THEOREM ReadsAreOfASource == Spec => []ReadHasSource
<1>1. IInv => ReadHasSource
    BY DEF IInv, HoldsWhatItReads, ReadHasSource
<1> QED
    BY <1>1, Invariance, PTL

\* The heartbeat counts a camera in its reconnect loop as failed, and never one
\* that has come back for the connection it lost.
THEOREM ReportedAsItIs == Spec => []ReportIsTrue
<1>1. IInv => ReportIsTrue
    BY DEF IInv
<1> QED
    BY <1>1, Invariance, PTL

\* A camera loop that ends by itself has closed the source it was linked to,
\* unless close() raises.
THEOREM ClosesBehindItself == Spec => []LinkedEndsClosed
<1>1. IInv => LinkedEndsClosed
    BY DEF IInv, ClosedOnce, LinkedEndsClosed
<1> QED
    BY <1>1, Invariance, PTL

\* main exits with status 0 only if a signal asked it to stop.
THEOREM StatusZeroIsAsked == Spec => []ExitTellsWhy
<1>1. IInv => ExitTellsWhy
    BY DEF IInv, CodeTellsWhy, ExitTellsWhy
<1> QED
    BY <1>1, Invariance, PTL

\* No call is queued behind one the camera's thread is inside.
THEOREM CallsDoNotQueue == Spec => OneCallAtATime
<1>1. IInv /\ [Next]_vars => [Unqueued]_vars
    <2> SUFFICES ASSUME IInv, Next PROVE Unqueued
        BY DEF vars
    <2>1. TypeOK /\ \A c \in Cameras : Sound(c)
        BY Parts
    <2>2. ASSUME NEW c \in Cameras, CameraStep(c), NEW d \in Cameras, thread[d] # "free"
          PROVE  thread'[d] \in {thread[d], "free"}
        <3> USE <2>1, <2>2 DEF TypeOK, Set, poolVars
        <3>1. CASE CallReturns(c) \/ CallHangs(c) \/ Escalate(c)
            BY <3>1 DEF CallReturns, CallHangs, Escalate
        <3>2. CASE LoopStep(c)
            <4>1. c = d => UNCHANGED thread
                BY <3>2
                DEF LoopStep, OpenOk, OpenFailed, OpenClosed, SleepOver, Reconnected,
                    ReconnectFailed, FrameRead, ReadFailed, ProcessRaises, Process,
                    CloseRaised, RunEnds, Sound, TakesTurns, CallOf
            <4>2. c # d => thread'[d] = thread[d]
                BY <3>2
                DEF LoopStep, OpenOk, OpenFailed, OpenClosed, SleepOver, Reconnected,
                    ReconnectFailed, FrameRead, ReadFailed, ProcessRaises, Process,
                    CloseRaised, RunEnds, LoopTop, Await, Submit
            <4> QED
                BY <4>1, <4>2
        <3> QED
            BY <3>1, <3>2 DEF CameraStep
    <2>3. CASE Supervise \/ ShutdownStep \/ Signal
        BY <2>3
        DEF Supervise, SuperviseStopped, SuperviseEnded, Signal, ShutdownStep,
            StopPipelines, AllStopped, Abandon, Release, poolVars, Unqueued
    <2> QED
        BY <2>2, <2>3 DEF Next, Unqueued
<1> QED
    BY <1>1, Invariance, PTL DEF Spec, OneCallAtATime
-----------------------------------------------------------------------------
(* The contract of CameraRuntime.                                          *)

\* In a step the call and the source of one camera become a and s.
Moves(c, a, s) ==
    /\ Doing(c)' = a /\ Source(c)' = s
    /\ \A d \in Cameras \ {c} : Doing(d)' = Doing(d) /\ Source(d)' = Source(d)

LEMMA Moved ==
    ASSUME NEW c \in Cameras, NEW a, NEW s, Moves(c, a, s)
    PROVE  Contract!Goes(c, a) /\ Contract!Leaves(c, s)
BY DEF Moves, Contract!Goes, Contract!Leaves

\* A step that changes neither is a stutter.
LEMMA ContractStutters ==
    ASSUME \A d \in Cameras : Doing(d)' = Doing(d) /\ Source(d)' = Source(d)
    PROVE  UNCHANGED Contract!runtimeVars
BY DEF Contract!runtimeVars

\* What the contract lets one camera do.
LEMMA Kinds ==
    ASSUME NEW c \in Cameras, NEW a, NEW s, Moves(c, a, s),
           \/ Doing(c) = "none" /\ a = "read" /\ Source(c) = "live" /\ s = "live"
           \/ Doing(c) = "none" /\ a \in {"connect", "close"} /\ s = Source(c)
           \/ Doing(c) = "none" /\ a \in {"connect", "close"} /\ Source(c) = "live" /\ s = "held"
           \/ Doing(c) = "connect" /\ a = "none" /\ s \in {"none", "held", "live"}
           \/ Doing(c) = "close" /\ a = "none" /\ s \in {"none", Source(c)}
           \/ Doing(c) = "read" /\ a = "none" /\ s = Source(c)
           \/ Doing(c) = "read" /\ a = "none" /\ Source(c) = "live" /\ s = "held"
    PROVE  [Contract!Next]_(Contract!runtimeVars)
<1>1. Contract!Goes(c, a) /\ Contract!Leaves(c, s)
    BY Moved
<1>2. [d \in Cameras |-> Doing(d)][c] = Doing(c) /\ [d \in Cameras |-> Source(d)][c] = Source(c)
    OBVIOUS
<1> QED
    BY <1>1, <1>2
    DEF Contract!Next, Contract!Calls, Contract!Connected, Contract!ReadReturns,
        Contract!CloseReturns, Contract!Lasts

\* The loop's next call.
LEMMA Submits ==
    ASSUME TypeOK, NEW c \in Cameras, NEW a \in Calls, thread[c] = "free",
           thread' = Set(thread, c, a), result' = Set(result, c, "none"), held' = held,
           a = "read" => held[c] = "source" /\ result[c] = "ok"
    PROVE  [Contract!Next]_(Contract!runtimeVars)
<1> USE DEF TypeOK, Set, Calls, Connects, Holdings, Moves, Doing, Source
<1>1. Doing(c) = "none" /\ (a = "read" => Source(c) = "live")
    OBVIOUS
<1>2. \A d \in Cameras \ {c} : Doing(d)' = Doing(d) /\ Source(d)' = Source(d)
    OBVIOUS
<1>3. Doing(c)' = IF a \in Connects THEN "connect" ELSE a
    OBVIOUS
<1>4. Source(c)' = IF a # "read" /\ Source(c) = "live" THEN "held" ELSE Source(c)
    OBVIOUS
<1>5. CASE a = "read"
    <2>1. Moves(c, "read", "live") /\ Doing(c) = "none" /\ Source(c) = "live"
        BY <1>1, <1>2, <1>3, <1>4, <1>5
    <2> QED
        BY <2>1, Kinds
<1>6. CASE a # "read"
    <2>1. PICK b \in {"connect", "close"} : Doing(c)' = b
        BY <1>3, <1>6
    <2>2. Moves(c, b, Source(c)) \/ (Moves(c, b, "held") /\ Source(c) = "live")
        BY <1>2, <1>4, <2>1
    <2> QED
        BY <1>1, <2>2, Kinds
<1> QED
    BY <1>5, <1>6

\* A call that returns.
LEMMA CallEnds ==
    ASSUME IInv, NEW c \in Cameras, CallReturns(c)
    PROVE  [Contract!Next]_(Contract!runtimeVars)
<1>1. TypeOK /\ Sound(c)
    BY Parts
<1> USE <1>1 DEF TypeOK, Set, Calls, Connects, Holdings, Results, Moves, Doing, Source
<1>2. \A d \in Cameras \ {c} : Doing(d)' = Doing(d) /\ Source(d)' = Source(d)
    BY DEF CallReturns, Connected, ReadReturned, Closed
<1>3. Doing(c)' = "none"
    BY DEF CallReturns
<1>4. CASE Connected(c)
    <2>1. PICK s \in {"none", "held", "live"} : Source(c)' = s
        OBVIOUS
    <2>2. Moves(c, "none", s) /\ Doing(c) = "connect"
        BY <1>2, <1>3, <1>4, <2>1 DEF Connected
    <2> QED
        BY <2>2, Kinds
<1>5. CASE ReadReturned(c)
    <2>1. Doing(c) = "read" /\ Source(c) = "live"
        BY <1>5 DEF ReadReturned, Sound, HoldsWhatItReads
    <2>2. Moves(c, "none", "live") \/ Moves(c, "none", "held")
        BY <1>2, <1>3, <1>5 DEF ReadReturned, Sound, HoldsWhatItReads, CallReturns
    <2> QED
        BY <2>1, <2>2, Kinds
<1>6. CASE Closed(c)
    <2>1. Doing(c) = "close" /\ Source(c) \in {"none", "held"}
        BY <1>6 DEF Closed
    <2>2. Moves(c, "none", "none") \/ Moves(c, "none", Source(c))
        BY <1>2, <1>3, <1>6 DEF Closed, CallReturns
    <2> QED
        BY <2>1, <2>2, Kinds
<1> QED
    BY <1>4, <1>5, <1>6 DEF CallReturns

\* A step of the loop submits a call or leaves the thread and the source alone.
LEMMA LoopSubmits ==
    ASSUME IInv, NEW c \in Cameras, LoopStep(c)
    PROVE  [Contract!Next]_(Contract!runtimeVars)
<1>1. TypeOK /\ Sound(c)
    BY Parts
<1>2. ASSUME NEW a \in Calls, Submit(c, a), thread[c] = "free",
             a = "read" => held[c] = "source" /\ result[c] = "ok"
      PROVE  [Contract!Next]_(Contract!runtimeVars)
    BY <1>1, <1>2, Submits DEF Submit
<1>3. CASE UNCHANGED poolVars
    BY <1>3, ContractStutters DEF poolVars, Doing, Source
<1>4. ASSUME LoopTop(c), thread[c] = "free", held[c] = "source", result[c] = "ok"
      PROVE  [Contract!Next]_(Contract!runtimeVars)
    BY <1>2, <1>4 DEF LoopTop, Await, Calls
<1>5. ASSUME NEW a \in {"close", "reconnect"}, NEW pc, Await(c, pc, a), thread[c] = "free"
      PROVE  [Contract!Next]_(Contract!runtimeVars)
    BY <1>2, <1>5 DEF Await, Calls
<1>6. result[c] # "none" \/ CallOf(at[c]) = "free" => 
          thread[c] = "free" \/ at[c] \in {"wedged", "cancelled"}
    BY <1>1 DEF Sound, TakesTurns
<1> USE <1>1, <1>6 DEF Sound, HoldsWhatItReads, CallOf, Connects
<1>7. CASE OpenOk(c) \/ Reconnected(c) \/ Process(c) \/ ProcessRaises(c)
    <2>1. LoopTop(c) /\ thread[c] = "free" /\ held[c] = "source" /\ result[c] = "ok"
        BY <1>7 DEF OpenOk, Reconnected, Process, ProcessRaises
    <2> QED
        BY <1>4, <2>1
<1>8. CASE OpenFailed(c) \/ CloseRaised(c)
    <2>1. thread[c] = "free" /\ \E pc \in LoopPC : Await(c, pc, "close")
        BY <1>8 DEF OpenFailed, CloseRaised, LoopPC
    <2> QED
        BY <1>5, <2>1
<1>9. CASE SleepOver(c)
    <2>1. thread[c] = "free"
        BY <1>9 DEF SleepOver
    <2>2. \/ Await(c, "reconnect", "reconnect") \/ Await(c, "close", "close")
          \/ UNCHANGED poolVars
        BY <1>9 DEF SleepOver
    <2> QED
        BY <1>3, <1>5, <2>1, <2>2
<1>10. CASE ReadFailed(c)
    <2>1. thread[c] = "free"
        BY <1>10 DEF ReadFailed
    <2>2. Await(c, "close", "close") \/ UNCHANGED poolVars
        BY <1>10 DEF ReadFailed
    <2> QED
        BY <1>3, <1>5, <2>1, <2>2
<1>11. CASE OpenClosed(c) \/ ReconnectFailed(c) \/ FrameRead(c) \/ RunEnds(c)
    BY <1>3, <1>11 DEF OpenClosed, ReconnectFailed, FrameRead, RunEnds
<1> QED
    BY <1>7, <1>8, <1>9, <1>10, <1>11 DEF LoopStep

\* Every step is a step of the contract or a stutter.
LEMMA ContractStep ==
    ASSUME IInv, [Next]_vars
    PROVE  [Contract!Next]_(Contract!runtimeVars)
<1>1. CASE UNCHANGED <<thread, result, held>>
    BY <1>1, ContractStutters DEF Doing, Source
<1>2. ASSUME NEW c \in Cameras, CameraStep(c)
      PROVE  [Contract!Next]_(Contract!runtimeVars)
    BY <1>1, <1>2, CallEnds, LoopSubmits DEF CameraStep, Escalate, CallHangs, poolVars
<1>3. CASE Supervise \/ ShutdownStep \/ Signal \/ UNCHANGED vars
    BY <1>1, <1>3
    DEF Supervise, SuperviseStopped, SuperviseEnded, ShutdownStep, StopPipelines, AllStopped,
        Abandon, Release, Signal, vars, poolVars
<1> QED
    BY <1>2, <1>3 DEF Next

\* The loop of pipeline.py calls every runtime as its contract says: one call at a
\* time, a read only of a source that is live, and after a failure a new connection.
THEOREM CallsByTheContract == Spec => RuntimeSpec
<1>1. Init => Contract!Init
    BY DEF Init, Contract!Init, Doing, Source, Connects
<1> QED
    BY <1>1, Invariance, ContractStep, PTL DEF Spec, RuntimeSpec, Contract!Spec
=============================================================================
