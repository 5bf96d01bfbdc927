----------------------------- MODULE DeepStream -----------------------------
(***************************************************************************)
(* The GStreamer pipelines of the DeepStream cameras:                       *)
(* DeepStreamCameraRuntime of core/model/detector/deepstream/runtime.py,    *)
(* called in the order CameraPipeline.run calls it.                         *)
(*                                                                         *)
(* Every connection is a pipeline of its own.  Four kinds of threads meet   *)
(* on it: the camera's executor thread, which opens, reads and closes; the  *)
(* pipeline's streaming thread, which runs _on_pad_added; one helper thread *)
(* per teardown; and the thread request_stop starts.                        *)
(***************************************************************************)
EXTENDS Integers, FiniteSets

CONSTANTS
    Cameras,
    MaxPipes,   \* bound: pipelines a camera builds; the last one does not fail
    Faults      \* what may go wrong: a subset of FaultKinds

\* "hang" a teardown never returns; "late" a pipeline that is being replaced
\* still runs callbacks; "stop" the agent is asked to stop.
FaultKinds == {"hang", "late", "stop"}

ASSUME DeepStreamAssumption ==
    /\ MaxPipes \in Nat \ {0}
    /\ Faults \subseteq FaultKinds

Pipes == 1..MaxPipes

VARIABLES
    \* the caller, CameraPipeline.run
    run,        \* "opening", "first" before its first link, "down", "up", "ended"
    stop,       \* _stop is set
    \* the runtime
    call,       \* where its thread is inside a call: "open", "start", "link", "settle",
                \* "pull", "take", "wait", or "idle"
    after,      \* what follows the close it is inside: "open", "idle" or "ended"
    current,    \* _pipeline, or 0 for None
    built,      \* history: the pipelines built so far
    linked,     \* _linked is set
    failed,     \* _failed: "bus" or "stopped", or "none"
    failedBy,   \* history: the pipeline that was current when it was set
    \* the pipelines of a camera
    state,      \* GStreamer's: "none" before it is built, "null", "ready", "paused", "playing"
    video,      \* the source is linked into the muxer
    bus,        \* an error or end of stream waits on the bus
    helper,     \* its teardown: "none", "waiting" for the lock, the state it sets next,
                \* "stuck" in one, or "done"
    interrupt   \* request_stop's thread has yet to set it to NULL

callerVars == <<run, stop>>
flagVars   == <<linked, failed, failedBy>>
pipeVars   == <<state, video, bus, helper, interrupt>>
vars       == <<callerVars, call, after, current, built, flagVars, pipeVars>>

Unwinds == {"PAUSED", "READY", "NULL"}
Set(f, c, v) == [f EXCEPT ![c] = v]

SetPipe(f, c, p, v) == [f EXCEPT ![c][p] = v]

-----------------------------------------------------------------------------
(* The caller: its sleeps and its own failures are those of CameraLoop.    *)

\* A call that raises: the first open() is closed behind, a read() is followed
\* by a reconnect(), a failed reconnect() by another one.
Raises(c) ==
    /\ run' = [run EXCEPT ![c] = CASE @ = "opening" -> "first" [] @ = "up" -> "down" [] OTHER -> @]
    /\ call' = Set(call, c, IF run[c] = "opening" THEN "take" ELSE "idle")
    /\ after' = Set(after, c, "idle")

Returns(c) ==
    /\ run' = Set(run, c, "up")
    /\ call' = Set(call, c, "idle")
    /\ UNCHANGED after

\* Asked to stop, it closes and ends; before its first link it just ends.
Leave(c) ==
    /\ call[c] = "idle" /\ run[c] # "ended" /\ stop[c]
    /\ IF run[c] = "first"
       THEN run' = Set(run, c, "ended") /\ UNCHANGED <<call, after>>
       ELSE call' = Set(call, c, "take") /\ after' = Set(after, c, "ended") /\ UNCHANGED run
    /\ UNCHANGED <<stop, current, built, flagVars, pipeVars>>

-----------------------------------------------------------------------------
(* open() and reconnect().                                                 *)

\* Mutant of Reconnect: _linked is left as the old connection left it.
ReconnectLinked(c) ==
    /\ call[c] = "idle" /\ run[c] \in {"first", "down"} /\ ~stop[c]
    /\ failed' = Set(failed, c, "none")
    /\ call' = Set(call, c, "take")
    /\ after' = Set(after, c, "open")
    /\ UNCHANGED <<callerVars, current, built, linked, failedBy, pipeVars>>

\* Mutant of Reconnect: _failed is left as the old connection left it.
ReconnectFailed(c) ==
    /\ call[c] = "idle" /\ run[c] \in {"first", "down"} /\ ~stop[c]
    /\ linked' = Set(linked, c, FALSE)
    /\ call' = Set(call, c, "take")
    /\ after' = Set(after, c, "open")
    /\ UNCHANGED <<callerVars, current, built, failed, failedBy, pipeVars>>

\* The flags are cleared first, then the old pipeline is closed.
Reconnect(c) ==
    /\ call[c] = "idle" /\ run[c] \in {"first", "down"} /\ ~stop[c]
    /\ failed' = Set(failed, c, "none")
    /\ linked' = Set(linked, c, FALSE)
    /\ call' = Set(call, c, "take")
    /\ after' = Set(after, c, "open")
    /\ UNCHANGED <<callerVars, current, built, failedBy, pipeVars>>

\* The last pipeline of a camera does not fail by itself.
MayFail(c) == current[c] # MaxPipes \/ state[c][current[c]] # "playing"

\* _check_bus: an error or the end of the stream is why the pipeline failed.
CheckBus(c) ==
    IF current[c] # 0 /\ bus[c][current[c]]
    THEN /\ bus' = SetPipe(bus, c, current[c], FALSE)
         /\ failed' = Set(failed, c, "bus")
         /\ failedBy' = Set(failedBy, c, current[c])
    ELSE UNCHANGED <<bus, failed, failedBy>>

\* The prerequisites, the labels, the probe or an element of _build.
PrepareRaises(c) ==
    /\ call[c] = "open"
    /\ built[c] < MaxPipes
    /\ Raises(c)
    /\ UNCHANGED <<stop, current, built, flagVars, pipeVars>>

Build(c) ==
    /\ call[c] = "open"
    /\ built[c] < MaxPipes
    /\ built' = Set(built, c, built[c] + 1)
    /\ current' = Set(current, c, built[c] + 1)
    /\ state' = SetPipe(state, c, built[c] + 1, "null")
    /\ call' = Set(call, c, "start")
    /\ UNCHANGED <<callerVars, after, flagVars, video, bus, helper, interrupt>>

Start(c) ==
    /\ call[c] = "start"
    /\ state' = SetPipe(state, c, current[c], "playing")
    /\ call' = Set(call, c, "link")
    /\ UNCHANGED <<callerVars, after, current, built, flagVars, video, bus, helper, interrupt>>

StartFails(c) ==
    /\ call[c] = "start"
    /\ current[c] # MaxPipes
    /\ \E s \in {"null", "ready", "paused"} : state' = SetPipe(state, c, current[c], s)
    /\ CheckBus(c)
    /\ Raises(c)
    /\ UNCHANGED <<stop, current, built, linked, video, helper, interrupt>>

\* _linked.wait returns.
LinkSeen(c) ==
    /\ call[c] = "link" /\ linked[c]
    /\ call' = Set(call, c, "settle")
    /\ UNCHANGED <<callerVars, after, current, built, flagVars, pipeVars>>

LinkTimeout(c) ==
    /\ call[c] = "link" /\ ~linked[c]
    /\ MayFail(c)
    /\ CheckBus(c)
    /\ Raises(c)
    /\ UNCHANGED <<stop, current, built, linked, state, video, helper, interrupt>>

\* get_state: a pipeline still on its way counts as ready.
Settle(c) ==
    /\ call[c] = "settle"
    /\ Returns(c)
    /\ UNCHANGED <<stop, current, built, flagVars, pipeVars>>

SettleFails(c) ==
    /\ call[c] = "settle"
    /\ MayFail(c)
    /\ CheckBus(c)
    /\ Raises(c)
    /\ UNCHANGED <<stop, current, built, linked, state, video, helper, interrupt>>

-----------------------------------------------------------------------------
(* read().                                                                 *)

Read(c) ==
    /\ call[c] = "idle" /\ run[c] = "up" /\ ~stop[c]
    /\ IF failed[c] # "none" \/ current[c] = 0
       THEN Raises(c) /\ UNCHANGED <<bus, failed, failedBy>>
       ELSE /\ CheckBus(c)
            /\ IF bus[c][current[c]] THEN Raises(c)
               ELSE call' = Set(call, c, "pull") /\ UNCHANGED <<run, after>>
    /\ UNCHANGED <<stop, current, built, linked, state, video, helper, interrupt>>

Flows(c) == video[c][current[c]] /\ state[c][current[c]] = "playing"

Sample(c) ==
    /\ call[c] = "pull" /\ Flows(c)
    /\ Returns(c)
    /\ UNCHANGED <<stop, current, built, flagVars, pipeVars>>

\* Five seconds without a sample, or the pipeline left PLAYING.
PullEmpty(c) ==
    /\ call[c] = "pull"
    /\ MayFail(c) \/ ~Flows(c)
    /\ CheckBus(c)
    /\ Raises(c)
    /\ UNCHANGED <<stop, current, built, linked, state, video, helper, interrupt>>

-----------------------------------------------------------------------------
(* close(), request_stop() and their threads.                              *)

\* What follows a close.
Follow(c) ==
    /\ call' = Set(call, c, IF after[c] = "open" THEN "open" ELSE "idle")
    /\ run' = IF after[c] = "ended" THEN Set(run, c, "ended") ELSE run

\* The pipeline is taken off the runtime and given to a thread of its own.
Take(c) ==
    /\ call[c] = "take"
    /\ current' = Set(current, c, 0)
    /\ IF current[c] = 0 THEN Follow(c) /\ UNCHANGED helper
       ELSE /\ helper' = SetPipe(helper, c, current[c], "waiting")
            /\ call' = Set(call, c, "wait")
            /\ UNCHANGED run
    /\ UNCHANGED <<stop, after, built, flagVars, state, video, bus, interrupt>>

\* Mutant of CloseReturns: the teardown is waited for, however long it takes.
CloseWaits(c) ==
    /\ call[c] = "wait"
    /\ helper[c][built[c]] = "done"
    /\ Follow(c)
    /\ UNCHANGED <<stop, after, current, built, flagVars, pipeVars>>

\* The teardown is done, or ten seconds are over and it is abandoned.
CloseReturns(c) ==
    /\ call[c] = "wait"
    /\ Follow(c)
    /\ UNCHANGED <<stop, after, current, built, flagVars, pipeVars>>

HasLock(c, p) == helper[c][p] \in Unwinds \cup {"stuck"}

\* _TEARDOWN_LOCK: one teardown of the whole process at a time.
Acquire(c, p) ==
    /\ helper[c][p] = "waiting"
    /\ \A d \in Cameras, q \in Pipes : ~HasLock(d, q)
    /\ helper' = SetPipe(helper, c, p, "PAUSED")
    /\ UNCHANGED <<callerVars, call, after, current, built, flagVars, state, video, bus, interrupt>>

Goes(c, p, from, s, to) ==
    /\ helper[c][p] = from
    /\ state' = SetPipe(state, c, p, s)
    /\ helper' = SetPipe(helper, c, p, to)

\* Mutant of Unwind: the last of the three transitions is missing.
UnwindShort(c, p) ==
    /\ \/ Goes(c, p, "PAUSED", "paused", "READY")
       \/ Goes(c, p, "READY", "ready", "done")
    /\ UNCHANGED <<callerVars, call, after, current, built, flagVars, video, bus, interrupt>>

Unwind(c, p) ==
    /\ \/ Goes(c, p, "PAUSED", "paused", "READY")
       \/ Goes(c, p, "READY", "ready", "NULL")
       \/ Goes(c, p, "NULL", "null", "done")
    /\ UNCHANGED <<callerVars, call, after, current, built, flagVars, video, bus, interrupt>>

\* A state call that never returns, with the lock held.
UnwindHangs(c, p) ==
    /\ "hang" \in Faults
    /\ helper[c][p] \in Unwinds
    /\ helper' = SetPipe(helper, c, p, "stuck")
    /\ UNCHANGED <<callerVars, call, after, current, built, flagVars, state, video, bus, interrupt>>

\* main stops every pipeline; request_stop leaves a pipeline it finds to a
\* thread that takes no lock.
StopAll ==
    /\ "stop" \in Faults
    /\ \A c \in Cameras : ~stop[c]
    /\ stop' = [c \in Cameras |-> TRUE]
    /\ failed' = [c \in Cameras |->
                    IF current[c] # 0 /\ failed[c] = "none" THEN "stopped" ELSE failed[c]]
    /\ failedBy' = [c \in Cameras |->
                    IF current[c] # 0 /\ failed[c] = "none" THEN current[c] ELSE failedBy[c]]
    /\ interrupt' = [c \in Cameras |-> [p \in Pipes |-> p = current[c]]]
    /\ UNCHANGED <<run, call, after, current, built, linked, state, video, bus, helper>>

Interrupt(c, p) ==
    /\ interrupt[c][p]
    /\ interrupt' = SetPipe(interrupt, c, p, FALSE)
    /\ state' = SetPipe(state, c, p, "null")
    /\ UNCHANGED <<callerVars, call, after, current, built, flagVars, video, bus, helper>>

-----------------------------------------------------------------------------
(* The pipelines.                                                          *)

\* The source has connected: _on_pad_added links it and sets _linked, which is
\* the runtime's, whichever pipeline the pad is of.
PadAdded(c, p) ==
    /\ state[c][p] \in {"paused", "playing"}
    /\ ~video[c][p]
    /\ (p = current[c] /\ call[c] # "take") \/ "late" \in Faults
    /\ video' = SetPipe(video, c, p, TRUE)
    /\ linked' = Set(linked, c, TRUE)
    /\ UNCHANGED <<callerVars, call, after, current, built, failed, failedBy, state, bus,
                   helper, interrupt>>

BusMessage(c) ==
    /\ current[c] \notin {0, MaxPipes}
    /\ state[c][current[c]] # "null"
    /\ ~bus[c][current[c]]
    /\ bus' = SetPipe(bus, c, current[c], TRUE)
    /\ UNCHANGED <<callerVars, call, after, current, built, flagVars, state, video, helper,
                   interrupt>>

-----------------------------------------------------------------------------

Init ==
    /\ run = [c \in Cameras |-> "opening"]
    /\ stop = [c \in Cameras |-> FALSE]
    /\ call = [c \in Cameras |-> "open"]
    /\ after = [c \in Cameras |-> "idle"]
    /\ current = [c \in Cameras |-> 0]
    /\ built = [c \in Cameras |-> 0]
    /\ linked = [c \in Cameras |-> FALSE]
    /\ failed = [c \in Cameras |-> "none"]
    /\ failedBy = [c \in Cameras |-> 0]
    /\ state = [c \in Cameras |-> [p \in Pipes |-> "none"]]
    /\ video = [c \in Cameras |-> [p \in Pipes |-> FALSE]]
    /\ bus = [c \in Cameras |-> [p \in Pipes |-> FALSE]]
    /\ helper = [c \in Cameras |-> [p \in Pipes |-> "none"]]
    /\ interrupt = [c \in Cameras |-> [p \in Pipes |-> FALSE]]

\* What the camera's own thread and its caller do without a failure.
ThreadStep(c) ==
    \/ Leave(c)
    \/ Reconnect(c)
    \/ Build(c)
    \/ Start(c)
    \/ LinkSeen(c)
    \/ Settle(c)
    \/ Read(c)
    \/ Sample(c)
    \/ PullEmpty(c)
    \/ Take(c)
    \/ CloseReturns(c)

Failure(c) == PrepareRaises(c) \/ StartFails(c) \/ LinkTimeout(c) \/ SettleFails(c)

HelperStep(c, p) == Acquire(c, p) \/ Unwind(c, p)

Next ==
    \/ \E c \in Cameras : ThreadStep(c) \/ Failure(c) \/ BusMessage(c)
    \/ \E c \in Cameras, p \in Pipes :
        HelperStep(c, p) \/ UnwindHangs(c, p) \/ Interrupt(c, p) \/ PadAdded(c, p)
    \/ StopAll

Spec == Init /\ [][Next]_vars

\* A thread that is not stuck goes on, the preparation of a connection succeeds
\* in the end, a source that plays links, and a lock that is free again and again
\* is obtained.
Fairness ==
    /\ \A c \in Cameras :
        /\ WF_vars(ThreadStep(c))
        /\ WF_vars(LinkTimeout(c))
        /\ SF_vars(Build(c))
        /\ \A p \in Pipes : /\ WF_vars(p = current[c] /\ PadAdded(c, p))
                            /\ SF_vars(Acquire(c, p))
                            /\ WF_vars(Unwind(c, p))
                            /\ WF_vars(Interrupt(c, p))

FairSpec == Spec /\ Fairness

-----------------------------------------------------------------------------
(* The contract of CameraRuntime.                                          *)

Doing(c) ==
    CASE call[c] \in {"open", "start", "link", "settle"} -> "connect"
      [] call[c] = "pull" -> "read"
      [] call[c] \in {"take", "wait"} -> IF after[c] = "open" THEN "connect" ELSE "close"
      [] OTHER -> "none"

\* A pipeline can be read if its video is linked, until it is found failed.
Source(c) ==
    IF current[c] = 0 THEN "none"
    ELSE IF run[c] = "up" /\ video[c][current[c]] THEN "live" ELSE "held"

Contract == INSTANCE CameraRuntime
                WITH Camera <- Cameras,
                     doing <- [c \in Cameras |-> Doing(c)],
                     source <- [c \in Cameras |-> Source(c)]

\* The DeepStream cameras keep the contract of a runtime: they are read only with
\* video that is linked, which only open() and reconnect() link again.
RuntimeSpec == Contract!Spec

-----------------------------------------------------------------------------
(* Safety.                                                                 *)

\* _failed belongs to the connection that is read: a camera that is up again
\* does not stop for the reason its last connection did.
FailureIsOwn ==
    \A c \in Cameras :
        run[c] = "up" /\ ~stop[c] /\ failed[c] # "none" => failedBy[c] = current[c]

\* reconnect: _linked is cleared, or "a stream that never linked is reported as
\* ready".  A pad of the old pipeline that comes late breaks this.
ReadyIsLinked ==
    \A c \in Cameras : run[c] = "up" /\ current[c] # 0 => video[c][current[c]]

-----------------------------------------------------------------------------
(* Liveness.                                                               *)

\* close: a camera comes back on its own, whatever its old pipelines or those of
\* the other cameras hang in.
ComesBack ==
    \A c \in Cameras :
        <>stop[c] \/ []<>(call[c] = "pull" /\ Flows(c))

Blocked == \E c \in Cameras, p \in Pipes : helper[c][p] = "stuck"

\* Every pipeline that was replaced is released in the end, abandoned or not,
\* unless a teardown hangs.
AllReleased ==
    <>[](Blocked \/ \A c \in Cameras, p \in Pipes :
            helper[c][p] # "none" => helper[c][p] = "done" /\ state[c][p] = "null")
=============================================================================
