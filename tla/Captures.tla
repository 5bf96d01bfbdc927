------------------------------ MODULE Captures ------------------------------
(***************************************************************************)
(* How the Ultralytics camera runtimes of one process open, lose and reopen *)
(* their sources (core/model/detector/ultralytics/runtime.py).  OpenCV takes*)
(* the FFmpeg options of a capture from an environment variable, which is   *)
(* one for the process; _open_capture sets it, constructs the capture and   *)
(* puts back what was there, under _FFMPEG_ENV_LOCK.                        *)
(*                                                                         *)
(* Each camera calls its runtime in a thread of its own.                    *)
(***************************************************************************)
EXTENDS Integers

CONSTANTS
    Cameras,
    Usb,        \* those whose source is a device index
    Rtsp,       \* those whose source is an RTSP stream; the others are files
    Operator,   \* what the operator set the variable to, or "unset"
    Stuck,      \* cameras whose capture may never be constructed
    Nobody

ASSUME CapturesAssumption ==
    /\ Usb \subseteq Cameras
    /\ Rtsp \subseteq Cameras \ Usb
    /\ Stuck \subseteq Cameras
    /\ Nobody \notin Cameras

VARIABLES
    at,         \* where the camera's thread is
    cap,        \* _cap is a capture
    lock,       \* who holds _FFMPEG_ENV_LOCK
    env,        \* the environment variable
    previous,   \* the local variable of _open_capture
    made,       \* the capture _open_capture returns: "none", "open", "notOpen"
    seen        \* the options it was constructed with

vars == <<at, cap, lock, env, previous, made, seen>>

RtspOptions == "rtspOptions"

Options == {"unset", RtspOptions, Operator}

Places == {"idle", "waits", "locked", "constructs", "hangs", "restores", "probes",
           "reads", "lost", "closed"}

\* options in _open_capture.
OwnOptions(c) == IF c \in Rtsp THEN RtspOptions ELSE "unset"

Network(c) == c \notin Usb

Set(f, c, v) == [f EXCEPT ![c] = v]

-----------------------------------------------------------------------------
(* open().                                                                 *)

\* A device index is opened at once, with OpenCV's default backend.
Begin(c) == at' = Set(at, c, IF c \in Usb THEN "constructs" ELSE "waits")

Open(c) ==
    /\ at[c] = "idle"
    /\ Begin(c)
    /\ UNCHANGED <<cap, lock, env, previous, made, seen>>

\* Mutant of Acquire: without the lock.
AcquireFree(c) ==
    /\ at[c] = "waits"
    /\ lock' = c
    /\ at' = Set(at, c, "locked")
    /\ UNCHANGED <<cap, env, previous, made, seen>>

Acquire(c) ==
    /\ at[c] = "waits"
    /\ lock = Nobody
    /\ lock' = c
    /\ at' = Set(at, c, "locked")
    /\ UNCHANGED <<cap, env, previous, made, seen>>

SetOptions(c) ==
    /\ at[c] = "locked"
    /\ previous' = Set(previous, c, env)
    /\ env' = OwnOptions(c)
    /\ at' = Set(at, c, "constructs")
    /\ UNCHANGED <<cap, lock, made, seen>>

\* cv2.VideoCapture(): it reads the variable and connects.  An exception of it
\* is taken like a capture that is not open: either way open() raises.
Construct(c) ==
    /\ at[c] = "constructs"
    /\ made' \in {Set(made, c, "open"), Set(made, c, "notOpen")}
    /\ seen' = Set(seen, c, env)
    /\ at' = Set(at, c, IF c \in Usb THEN "probes" ELSE "restores")
    /\ UNCHANGED <<cap, lock, env, previous>>

\* The construction never returns.
Hang(c) ==
    /\ at[c] = "constructs"
    /\ c \in Stuck
    /\ at' = Set(at, c, "hangs")
    /\ UNCHANGED <<cap, lock, env, previous, made, seen>>

\* Mutant of Restore: the lock is not given back for a capture that is not open.
RestoreKeeps(c) ==
    /\ at[c] = "restores"
    /\ env' = previous[c]
    /\ lock' = IF made[c] = "open" THEN Nobody ELSE lock
    /\ at' = Set(at, c, "probes")
    /\ UNCHANGED <<cap, previous, made, seen>>

\* The finally clause, and the end of the with statement.
Restore(c) ==
    /\ at[c] = "restores"
    /\ env' = previous[c]
    /\ lock' = Nobody
    /\ at' = Set(at, c, "probes")
    /\ UNCHANGED <<cap, previous, made, seen>>

\* isOpened() and up to 120 reads: the size is found with or without a frame.
Ready(c) ==
    /\ at[c] = "probes"
    /\ made[c] = "open"
    /\ cap' = Set(cap, c, TRUE)
    /\ made' = Set(made, c, "none")
    /\ at' = Set(at, c, "reads")
    /\ UNCHANGED <<lock, env, previous, seen>>

\* open() raises, and drops the capture it did not keep.
NotOpen(c) ==
    /\ at[c] = "probes"
    /\ made[c] = "notOpen"
    /\ made' = Set(made, c, "none")
    /\ at' = Set(at, c, "lost")
    /\ UNCHANGED <<cap, lock, env, previous, seen>>

-----------------------------------------------------------------------------
(* read(), reconnect() and close().                                        *)

\* read() raises SourceUnavailable: the end of a file, a socket that timed out,
\* a frame that cannot be retrieved.
ReadFails(c) ==
    /\ at[c] = "reads"
    /\ at' = Set(at, c, "lost")
    /\ UNCHANGED <<cap, lock, env, previous, made, seen>>

\* CameraRuntime.reconnect: close(), then open().
Reconnect(c) ==
    /\ at[c] = "lost"
    /\ cap' = Set(cap, c, FALSE)
    /\ Begin(c)
    /\ UNCHANGED <<lock, env, previous, made, seen>>

\* The loop was asked to stop.
Close(c) ==
    /\ at[c] \in {"reads", "lost"}
    /\ cap' = Set(cap, c, FALSE)
    /\ at' = Set(at, c, "closed")
    /\ UNCHANGED <<lock, env, previous, made, seen>>

-----------------------------------------------------------------------------

Init ==
    /\ at = [c \in Cameras |-> "idle"]
    /\ cap = [c \in Cameras |-> FALSE]
    /\ lock = Nobody
    /\ env = Operator
    /\ previous = [c \in Cameras |-> "unset"]
    /\ made = [c \in Cameras |-> "none"]
    /\ seen = [c \in Cameras |-> "unset"]

\* What the camera's thread does by itself.
Connects(c) ==
    \/ Open(c) \/ SetOptions(c) \/ Construct(c) \/ Restore(c)
    \/ Ready(c) \/ NotOpen(c) \/ Reconnect(c)

Next == \E c \in Cameras : Connects(c) \/ Acquire(c) \/ Hang(c) \/ ReadFails(c) \/ Close(c)

Spec == Init /\ [][Next]_vars

\* A thread that can run does; a lock that is free again and again is obtained; a
\* source that is tried again and again opens in the end.
Fairness ==
    \A c \in Cameras :
        /\ WF_vars(Connects(c))
        /\ SF_vars(Acquire(c))
        /\ SF_vars(Construct(c) /\ made'[c] = "open")

FairSpec == Spec /\ Fairness

-----------------------------------------------------------------------------
(* The contract of CameraRuntime.                                          *)

\* A read is a part of "reads" here, and a close() a single step.
Doing(c) == IF at[c] \in {"idle", "reads", "lost", "closed"} THEN "none" ELSE "connect"

Source(c) == IF cap[c] THEN (IF at[c] = "reads" THEN "live" ELSE "held")
             ELSE IF made[c] = "open" THEN "held" ELSE "none"

Contract == INSTANCE CameraRuntime
                WITH Camera <- Cameras,
                     doing <- [c \in Cameras |-> Doing(c)],
                     source <- [c \in Cameras |-> Source(c)]

\* The Ultralytics cameras keep the contract of a runtime: a source that was lost is
\* released and connected anew before it is read again.
RuntimeSpec == Contract!Spec

-----------------------------------------------------------------------------
(* Properties.                                                             *)

\* Types of the variables.
TypeOK ==
    /\ at \in [Cameras -> Places]
    /\ cap \in [Cameras -> BOOLEAN]
    /\ lock \in Cameras \cup {Nobody}
    /\ env \in Options
    /\ previous \in [Cameras -> Options]
    /\ made \in [Cameras -> {"none", "open", "notOpen"}]
    /\ seen \in [Cameras -> Options]

\* "No camera inherits another's options": every capture of a stream or a file was
\* constructed with the options of its own source, however the cameras interleave.
OpensWithOwn ==
    \A c \in Cameras :
        Network(c) /\ at[c] \in {"restores", "probes", "reads"} => seen[c] = OwnOptions(c)

\* "An operator who set the variable deliberately keeps it": whenever no camera is
\* opening a source, the variable is as the operator left it.
OperatorKept == lock = Nobody => env = Operator

\* The one variable of the process that all cameras set does not connect them to
\* each other, nor to what the operator set.
Isolated == OpensWithOwn /\ OperatorKept

\* A camera never holds two connections: the old capture is released before the
\* next one is constructed, which a camera with one session depends on.
OneConnection == \A c \in Cameras : cap[c] => at[c] \in {"reads", "lost"}

\* A camera that lost its source has it again in the end, unless it is closed or
\* hangs itself.  Only a stream or a file depends on the others, as long as one of
\* them hangs with the lock held; a camera of a device index comes back even then.
ComesBack ==
    \A c \in Cameras :
        at[c] = "lost" ~> \/ at[c] \in {"reads", "closed", "hangs"}
                          \/ /\ Network(c)
                             /\ \E d \in Cameras : Network(d) /\ at[d] = "hangs"
=============================================================================
