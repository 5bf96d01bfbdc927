----------------------------- MODULE CameraLoop -----------------------------
(***************************************************************************)
(* The camera loops of the agent and their supervision: the coroutine       *)
(* CameraPipeline.run (core/pipeline/pipeline.py) with the one thread of    *)
(* its executor, in which the camera runtime opens, reads, reconnects and   *)
(* closes its source, and _supervise and the shutdown of main.py.           *)
(*                                                                         *)
(* The coroutines share the event loop; the threads run beside it and hand  *)
(* their results over through futures.  A step is one synchronous stretch   *)
(* of a coroutine, or the end of one blocking call in a thread.             *)
(***************************************************************************)
EXTENDS Integers, FiniteSets

CONSTANTS
    Cameras,
    ErrorCap,   \* bound: failure counts saturate here
    Faults      \* what may go wrong: a subset of FaultKinds

\* "hangs" the thread's call never returns, by the kind of call; "closeRaises"
\* close() raises; "raise" storage or the collector raises; "stop" is SIGTERM.
FaultKinds == {"hangConnect", "hangRead", "hangClose", "closeRaises", "raise", "stop"}

ASSUME CameraLoopAssumption ==
    /\ IsFiniteSet(Cameras)
    /\ ErrorCap \in Nat \ {0}
    /\ Faults \subseteq FaultKinds

VARIABLES
    \* CameraPipeline, per camera
    at,         \* where run() is
    stop,       \* _stop is set
    errors,     \* consecutive_errors, or attempt in _reconnect
    lastError,  \* last_error, as HealthReporter reads it
    linked,     \* the first open succeeded, in run() or in its _reconnect
    \* its executor thread and the runtime it drives
    thread,     \* the call it is inside
    stuck,      \* which never returns
    result,     \* of the call the loop awaits
    held,       \* what the runtime holds of the source
    \* main
    main,       \* where run() of main.py is
    signalled,  \* stop_event
    noticed,    \* tasks _supervise no longer waits for
    code        \* exit_code

loopVars == <<at, stop, errors, lastError, linked>>
poolVars == <<thread, stuck, result, held>>
mainVars == <<main, signalled, noticed, code>>
vars     == <<loopVars, poolVars, mainVars>>

Ends      == {"ended", "wedged", "cancelled"}
LoopPC    == {"open", "openClose", "sleep", "reconnect", "read", "process", "close",
              "failClose"} \cup Ends
Calls     == {"open", "close", "reconnect", "read"}
Connects  == {"open", "reconnect"}
Results   == {"none", "ok", "unavailable", "error"}
Holdings  == {"nothing", "part", "source"}
ErrorKind == {"none", "source", "processing", "pipeline"}
MainPC    == {"supervising", "stopping", "waiting", "releasing", "exited"}

Capped(n) == IF n > ErrorCap THEN ErrorCap ELSE n

Set(f, c, v) == [f EXCEPT ![c] = v]

-----------------------------------------------------------------------------
(* The thread of a camera.                                                 *)

\* A call that connects leaves a source, or raises and leaves nothing or part
\* of one: a GStreamer pipeline that plays without video.
Connected(c) ==
    /\ thread[c] \in Connects
    /\ \E h \in Holdings : /\ held' = Set(held, c, h)
                           /\ result' = Set(result, c, IF h = "source" THEN "ok" ELSE "error")

\* A call to read() returns a frame or raises.
ReadReturned(c) ==
    /\ thread[c] = "read"
    /\ \E r \in {"ok", "unavailable", "error"} : result' = Set(result, c, r)
    /\ UNCHANGED held

Closed(c) ==
    /\ thread[c] = "close"
    /\ \/ /\ held' = Set(held, c, "nothing")
          /\ result' = Set(result, c, "ok")
       \/ /\ "closeRaises" \in Faults
          /\ result' = Set(result, c, "error")
          /\ UNCHANGED held

CallReturns(c) ==
    /\ ~stuck[c]
    /\ Connected(c) \/ ReadReturned(c) \/ Closed(c)
    /\ thread' = Set(thread, c, "free")
    /\ UNCHANGED <<loopVars, mainVars, stuck>>

Hangs(c) == \/ "hangConnect" \in Faults /\ thread[c] \in Connects
            \/ "hangRead" \in Faults /\ thread[c] = "read"
            \/ "hangClose" \in Faults /\ thread[c] = "close"

CallHangs(c) ==
    /\ Hangs(c) /\ ~stuck[c]
    /\ stuck' = Set(stuck, c, TRUE)
    /\ UNCHANGED <<loopVars, mainVars, thread, result, held>>

-----------------------------------------------------------------------------
(* The coroutine of a camera.                                              *)

Submit(c, call) ==
    /\ thread' = Set(thread, c, call)
    /\ result' = Set(result, c, "none")
    /\ UNCHANGED <<stuck, held, mainVars>>

Await(c, pc, call) == at' = Set(at, c, pc) /\ Submit(c, call)

Fails(c, n) == /\ errors' = Set(errors, c, Capped(n))
               /\ lastError' = Set(lastError, c, "source")

Works(c) == errors' = Set(errors, c, 0)

\* while not self._stop.is_set(): the next read, or the last close.
LoopTop(c) == IF stop[c] THEN Await(c, "close", "close") ELSE Await(c, "read", "read")

OpenOk(c) ==
    /\ at[c] = "open" /\ result[c] = "ok"
    /\ linked' = Set(linked, c, TRUE)
    /\ Works(c)
    /\ LoopTop(c)
    /\ UNCHANGED <<stop, lastError>>

\* close() even though open() failed.
OpenFailed(c) ==
    /\ at[c] = "open" /\ result[c] = "error"
    /\ Fails(c, 1)
    /\ Await(c, "openClose", "close")
    /\ UNCHANGED <<stop, linked>>

OpenClosed(c) ==
    /\ at[c] = "openClose" /\ result[c] = "ok"
    /\ at' = Set(at, c, "sleep")
    /\ UNCHANGED <<stop, errors, lastError, linked, poolVars, mainVars>>

\* Mutant of SleepOver: every reconnect that is stopped leaves run() at once.
SleepOverLeaves(c) ==
    /\ at[c] = "sleep"
    /\ IF ~stop[c] THEN Await(c, "reconnect", "reconnect")
       ELSE at' = Set(at, c, "ended") /\ UNCHANGED <<poolVars, mainVars>>
    /\ UNCHANGED <<stop, errors, lastError, linked>>

\* _reconnect, after the backoff.  Asked to stop, the initial call leaves run()
\* at once, and a later one leaves through the last close.
SleepOver(c) ==
    /\ at[c] = "sleep"
    /\ IF ~stop[c] THEN Await(c, "reconnect", "reconnect")
       ELSE IF linked[c] THEN Await(c, "close", "close")
       ELSE /\ at' = Set(at, c, "ended")
            /\ UNCHANGED <<poolVars, mainVars>>
    /\ UNCHANGED <<stop, errors, lastError, linked>>

\* Mutant of Reconnected: the error is left for the first detection to clear.
ReconnectedQuietly(c) ==
    /\ at[c] = "reconnect" /\ result[c] = "ok"
    /\ linked' = Set(linked, c, TRUE)
    /\ Works(c)
    /\ LoopTop(c)
    /\ UNCHANGED <<stop, lastError>>

Reconnected(c) ==
    /\ at[c] = "reconnect" /\ result[c] = "ok"
    /\ linked' = Set(linked, c, TRUE)
    /\ lastError' = Set(lastError, c, "none")
    /\ Works(c)
    /\ LoopTop(c)
    /\ UNCHANGED <<stop>>

\* Mutant of ReconnectFailed: a camera that does not answer is given up.
ReconnectGivesUp(c) ==
    /\ at[c] = "reconnect" /\ result[c] = "error"
    /\ Fails(c, errors[c] + 1)
    /\ Await(c, "close", "close")
    /\ UNCHANGED <<stop, linked>>

ReconnectFailed(c) ==
    /\ at[c] = "reconnect" /\ result[c] = "error"
    /\ Fails(c, errors[c] + 1)
    /\ at' = Set(at, c, "sleep")
    /\ UNCHANGED <<stop, linked, poolVars, mainVars>>

\* Mutant of Escalate: the source is closed behind the call that hangs.
EscalateAndClose(c) ==
    /\ at[c] \in Connects /\ result[c] = "none"
    /\ Await(c, "wedged", "close")
    /\ UNCHANGED <<stop, errors, lastError, linked>>

\* _native_call: a connection that takes 90 s ends the task with
\* UnrecoverableCameraRuntime, whether it would have come back or not.
Escalate(c) ==
    /\ at[c] \in Connects /\ result[c] = "none"
    /\ at' = Set(at, c, "wedged")
    /\ UNCHANGED <<stop, errors, lastError, linked, poolVars, mainVars>>

FrameRead(c) ==
    /\ at[c] = "read" /\ result[c] = "ok"
    /\ at' = Set(at, c, "process")
    /\ Works(c)
    /\ UNCHANGED <<stop, lastError, linked, poolVars, mainVars>>

\* Mutant of ReadFailed: a read that fails is followed by another one.
ReadFailedRetries(c) ==
    /\ at[c] = "read" /\ result[c] \in {"unavailable", "error"}
    /\ LoopTop(c)
    /\ UNCHANGED <<stop, errors, lastError, linked>>

ReadFailed(c) ==
    /\ at[c] = "read" /\ result[c] \in {"unavailable", "error"}
    /\ IF stop[c]
       THEN /\ Await(c, "close", "close")
            /\ UNCHANGED <<errors, lastError>>
       ELSE /\ Fails(c, errors[c] + 1)
            /\ at' = Set(at, c, "sleep")
            /\ UNCHANGED <<poolVars, mainVars>>
    /\ UNCHANGED <<stop, linked>>

\* _process and the collector: a detection that passes the rules clears the
\* error; an exception of the buffer or the collector sets it, and the loop goes on.
ProcessRaises(c) ==
    /\ at[c] = "process"
    /\ "raise" \in Faults
    /\ lastError' = Set(lastError, c, "processing")
    /\ LoopTop(c)
    /\ UNCHANGED <<stop, errors, linked>>

Process(c) ==
    /\ at[c] = "process"
    /\ lastError' \in {lastError, Set(lastError, c, "none")}
    /\ LoopTop(c)
    /\ UNCHANGED <<stop, errors, linked>>

\* The last line of defence: a close() that raises is repeated once.
CloseRaised(c) ==
    /\ at[c] \in {"openClose", "close"} /\ result[c] = "error"
    /\ lastError' = Set(lastError, c, "pipeline")
    /\ Await(c, "failClose", "close")
    /\ UNCHANGED <<stop, errors, linked>>

RunEnds(c) ==
    /\ \/ at[c] = "close" /\ result[c] = "ok"
       \/ at[c] = "failClose" /\ result[c] # "none"
    /\ at' = Set(at, c, "ended")
    /\ UNCHANGED <<stop, errors, lastError, linked, poolVars, mainVars>>

-----------------------------------------------------------------------------
(* main: _supervise and the shutdown.                                      *)

Done(c) == at[c] \in Ends

Shutdown(exit) ==
    /\ main' = "stopping"
    /\ code' = exit

\* SIGINT or SIGTERM sets stop_event.
Signal ==
    /\ "stop" \in Faults
    /\ main = "supervising"
    /\ ~signalled
    /\ signalled' = TRUE
    /\ UNCHANGED <<loopVars, poolVars, main, noticed, code>>

SuperviseStopped ==
    /\ main = "supervising"
    /\ signalled
    /\ Shutdown(0)
    /\ UNCHANGED <<loopVars, poolVars, signalled, noticed>>

\* Mutant of SuperviseEnded: losing the last camera is taken for a shutdown.
SuperviseEndedWell ==
    LET done == {c \in Cameras \ noticed : Done(c)}
    IN  /\ main = "supervising"
        /\ done # {}
        /\ noticed' = noticed \cup done
        /\ IF (\E c \in done : at[c] = "wedged") \/ noticed' = Cameras
           THEN Shutdown(0)
           ELSE UNCHANGED <<main, code>>
        /\ UNCHANGED <<loopVars, poolVars, signalled>>

\* Mutant of SuperviseEnded: an escalated camera is only logged.
SuperviseEndedLogs ==
    LET done == {c \in Cameras \ noticed : Done(c)}
    IN  /\ main = "supervising"
        /\ done # {}
        /\ noticed' = noticed \cup done
        /\ IF noticed' = Cameras THEN Shutdown(1) ELSE UNCHANGED <<main, code>>
        /\ UNCHANGED <<loopVars, poolVars, signalled>>

\* Tasks have ended: one wedged camera ends the process, and so does the last one.
SuperviseEnded ==
    LET done == {c \in Cameras \ noticed : Done(c)}
    IN  /\ main = "supervising"
        /\ done # {}
        /\ noticed' = noticed \cup done
        /\ IF (\E c \in done : at[c] = "wedged") \/ noticed' = Cameras
           THEN Shutdown(1)
           ELSE UNCHANGED <<main, code>>
        /\ UNCHANGED <<loopVars, poolVars, signalled>>

\* After the health reporter, every pipeline is asked to stop.  request_stop
\* makes a blocked read return; what it returns is up to CallReturns.
StopPipelines ==
    /\ main = "stopping"
    /\ main' = "waiting"
    /\ stop' = [c \in Cameras |-> TRUE]
    /\ UNCHANGED <<at, errors, lastError, linked, poolVars, signalled, noticed, code>>

\* Mutant of Abandon: only the cameras that have not been linked are cancelled.
AbandonUnlinked ==
    /\ main = "waiting"
    /\ \E c \in Cameras : ~Done(c)
    /\ main' = "waiting"
    /\ at' = [c \in Cameras |-> IF Done(c) \/ linked[c] THEN at[c] ELSE "cancelled"]
    /\ UNCHANGED <<stop, errors, lastError, linked, poolVars, signalled,
                   noticed, code>>

\* The shutdown timeout: the tasks left are cancelled, the threads stay behind.
Abandon ==
    /\ main = "waiting"
    /\ \E c \in Cameras : ~Done(c)
    /\ main' = "releasing"
    /\ at' = [c \in Cameras |-> IF Done(c) THEN at[c] ELSE "cancelled"]
    /\ UNCHANGED <<stop, errors, lastError, linked, poolVars, signalled,
                   noticed, code>>

AllStopped ==
    /\ main = "waiting"
    /\ \A c \in Cameras : Done(c)
    /\ main' = "releasing"
    /\ UNCHANGED <<loopVars, poolVars, signalled, noticed, code>>

\* The drain, registry.close() and the other services; then os._exit.
Release ==
    /\ main = "releasing"
    /\ main' = "exited"
    /\ UNCHANGED <<loopVars, poolVars, signalled, noticed, code>>

-----------------------------------------------------------------------------

Init ==
    /\ at = [c \in Cameras |-> "open"]
    /\ stop = [c \in Cameras |-> FALSE]
    /\ errors = [c \in Cameras |-> 0]
    /\ lastError = [c \in Cameras |-> "none"]
    /\ linked = [c \in Cameras |-> FALSE]
    /\ thread = [c \in Cameras |-> "open"]
    /\ stuck = [c \in Cameras |-> FALSE]
    /\ result = [c \in Cameras |-> "none"]
    /\ held = [c \in Cameras |-> "nothing"]
    /\ main = "supervising"
    /\ signalled = FALSE
    /\ noticed = {}
    /\ code = 0

\* What a coroutine does once what it awaits is there.
LoopStep(c) ==
    \/ OpenOk(c)
    \/ OpenFailed(c)
    \/ OpenClosed(c)
    \/ SleepOver(c)
    \/ Reconnected(c)
    \/ ReconnectFailed(c)
    \/ FrameRead(c)
    \/ ReadFailed(c)
    \/ ProcessRaises(c)
    \/ Process(c)
    \/ CloseRaised(c)
    \/ RunEnds(c)

CameraStep(c) == LoopStep(c) \/ Escalate(c) \/ CallReturns(c) \/ CallHangs(c)

Supervise == SuperviseStopped \/ SuperviseEnded

ShutdownStep == StopPipelines \/ AllStopped \/ Abandon \/ Release

Running == main # "exited"

Next ==
    /\ Running
    /\ \/ \E c \in Cameras : CameraStep(c)
       \/ Supervise
       \/ ShutdownStep
       \/ Signal

Spec == Init /\ [][Next]_vars

\* asyncio runs ready coroutines and fires timers; a call that is not stuck
\* returns.  A camera answers again in the end: connecting and reading succeed
\* infinitely often if they are tried infinitely often.
Answers(c) == CallReturns(c) /\ result'[c] = "ok"

Fairness ==
    /\ \A c \in Cameras :
        /\ WF_vars(Running /\ LoopStep(c))
        /\ WF_vars(Running /\ CallReturns(c))
        /\ SF_vars(Running /\ Answers(c) /\ thread[c] \in Connects)
        /\ SF_vars(Running /\ Answers(c) /\ thread[c] = "read")
        /\ WF_vars(Running /\ stuck[c] /\ Escalate(c))
    /\ WF_vars(Running /\ Supervise)
    /\ WF_vars(Running /\ ShutdownStep)

FairSpec == Spec /\ Fairness

-----------------------------------------------------------------------------
(* Safety.                                                                 *)

\* Types of the variables.
TypeOK ==
    /\ at \in [Cameras -> LoopPC]
    /\ stop \in [Cameras -> BOOLEAN]
    /\ errors \in [Cameras -> 0..ErrorCap]
    /\ lastError \in [Cameras -> ErrorKind]
    /\ linked \in [Cameras -> BOOLEAN]
    /\ thread \in [Cameras -> Calls \cup {"free"}]
    /\ stuck \in [Cameras -> BOOLEAN]
    /\ result \in [Cameras -> Results]
    /\ held \in [Cameras -> Holdings]
    /\ main \in MainPC
    /\ signalled \in BOOLEAN
    /\ noticed \subseteq Cameras
    /\ code \in {0, 1}

\* read() is only called on an open source: a failed connection is never read,
\* which would hide the camera that is missing behind "read() before open()".
ReadHasSource == \A c \in Cameras : thread[c] = "read" => held[c] = "source"

\* The heartbeat tells the state of the connection: a camera in its reconnect loop
\* is never reported healthy, and one that has come back is not reported down for
\* the connection it lost.
ReportIsTrue ==
    \A c \in Cameras :
        /\ at[c] \in {"openClose", "sleep", "reconnect", "failClose"} => lastError[c] # "none"
        /\ at[c] \in {"read", "process"} => lastError[c] # "source"

\* A run() that ends by itself has closed the source it once had, however the
\* stop fell between its reads, its failures and its reconnects; what is left
\* open was tried a second time, and that close() raised as well.
LinkedEndsClosed ==
    \A c \in Cameras :
        at[c] = "ended" /\ linked[c]
            => held[c] = "nothing" \/ (lastError[c] = "pipeline" /\ result[c] = "error")

\* Exit status 0 means that somebody asked the agent to stop: losing the
\* cameras never looks like a shutdown.
ExitTellsWhy == main = "exited" /\ code = 0 => signalled

\* A thread inside a native call is never given another one to queue behind it.
Unqueued == \A c \in Cameras : thread[c] # "free" => thread'[c] \in {thread[c], "free"}

OneCallAtATime == [][Unqueued]_vars

-----------------------------------------------------------------------------
(* The contract of CameraRuntime.                                          *)

Doing(c) == CASE thread[c] = "free" -> "none"
              [] thread[c] \in Connects -> "connect"
              [] OTHER -> thread[c]

\* A source can be read while it is, and while the last call went well.
Source(c) ==
    CASE held[c] = "nothing" -> "none"
      [] held[c] = "source" /\ (thread[c] = "read" \/ (thread[c] = "free" /\ result[c] = "ok"))
            -> "live"
      [] OTHER -> "held"

Contract == INSTANCE CameraRuntime
                WITH Camera <- Cameras,
                     doing <- [c \in Cameras |-> Doing(c)],
                     source <- [c \in Cameras |-> Source(c)]

\* The loop calls any runtime as its contract says: one call at a time, a read only of
\* a source that is live, and after a failure a new connection, not another read,
\* whatever the calls come to and wherever a stop or an escalation falls.
RuntimeSpec == Contract!Spec

-----------------------------------------------------------------------------
(* The inductive invariant the proofs use.                                 *)

\* The call a place of the loop waits for.
CallOf(pc) == IF pc \in {"open", "reconnect", "read"} THEN pc
              ELSE IF pc \in {"openClose", "close", "failClose"} THEN "close"
              ELSE "free"

\* The loop and its thread take turns: the call the loop waits for is running
\* or has its result, and elsewhere the thread is free until the loop is left.
TakesTurns(c) ==
    \/ at[c] \in {"wedged", "cancelled"}
    \/ thread[c] = CallOf(at[c]) /\ result[c] = "none"
    \/ thread[c] = "free" /\ (CallOf(at[c]) # "free" => result[c] # "none")

\* What is held follows from the place and the last result.
HoldsWhatItReads(c) ==
    /\ at[c] \in {"read", "process"} \/ thread[c] = "read" => held[c] = "source"
    /\ at[c] \in Connects /\ result[c] = "ok" => held[c] = "source"
    /\ at[c] = "process" => result[c] = "ok"
    /\ at[c] \in Connects \cup {"openClose", "close"} => result[c] # "unavailable"
    /\ at[c] = "open" => ~linked[c] /\ lastError[c] = "none"
    /\ at[c] = "openClose" => ~linked[c]

ClosedOnce(c) ==
    /\ at[c] \in {"close", "failClose"} /\ result[c] = "ok" => held[c] = "nothing"
    /\ at[c] = "failClose" => lastError[c] = "pipeline" /\ result[c] # "unavailable"
    /\ at[c] = "ended" /\ linked[c]
        => held[c] = "nothing" \/ (lastError[c] = "pipeline" /\ result[c] = "error")

CodeTellsWhy == /\ main = "supervising" => code = 0
                /\ main # "supervising" /\ code = 0 => signalled

IInv == /\ TypeOK
        /\ ReportIsTrue
        /\ CodeTellsWhy
        /\ \A c \in Cameras : TakesTurns(c) /\ HoldsWhatItReads(c) /\ ClosedOnce(c)

-----------------------------------------------------------------------------
(* Liveness.                                                               *)

\* A stop signal ends the process, whatever hangs.
StopEnds == signalled ~> main = "exited"

\* A connection that never returns restarts the process, and so does losing
\* every camera.
WedgeEnds ==
    /\ \A c \in Cameras : (stuck[c] /\ thread[c] \in Connects) ~> main = "exited"
    /\ (\A c \in Cameras : Done(c)) ~> main = "exited"

\* A camera whose own calls return keeps delivering frames, however often its
\* source drops and whatever becomes of the other cameras, until the shutdown.
\* The one failure that ends a camera for good is a close() that raises after
\* the initial open() failed.
HealthyCameraRuns ==
    \A c \in Cameras :
        \/ []<>(at[c] = "process")
        \/ <>(stuck[c] \/ at[c] = "failClose")
        \/ <>(main # "supervising")
=============================================================================
