--------------------------- MODULE CameraRuntime ---------------------------
(***************************************************************************)
(* What the loop of a camera and its runtime promise each other, whichever  *)
(* runtime it is: CameraRuntime of core/model/detector/base.py.  The loop   *)
(* decides which call comes next, the runtime what the call makes of the    *)
(* source.                                                                  *)
(***************************************************************************)
CONSTANT Camera

VARIABLES
    doing,      \* the call the camera's thread is inside: "connect" for open() and
                \* reconnect(), "read", "close", or "none"
    source      \* "none", "held" when something is that cannot be read, or "live"

runtimeVars == <<doing, source>>

Goes(c, call) == doing' = [doing EXCEPT ![c] = call]
Leaves(c, s) == source' = [source EXCEPT ![c] = s]

\* A source may be found dead at any time.  It stays held until it is released.
Lasts(c) == Leaves(c, source[c]) \/ (source[c] = "live" /\ Leaves(c, "held"))

\* The loop makes one call at a time, and reads only a source that is live.  The
\* other calls may release the source as they begin.
Calls(c) ==
    /\ doing[c] = "none"
    /\ \/ Goes(c, "read") /\ source[c] = "live" /\ Lasts(c)
       \/ Goes(c, "connect") /\ (Lasts(c) \/ Leaves(c, "none"))
       \/ Goes(c, "close") /\ Lasts(c)

\* Inside open() or reconnect(): nothing can be read before the call returns.
Connects(c) ==
    /\ doing[c] = "connect" /\ Goes(c, "connect")
    /\ Leaves(c, "none") \/ Leaves(c, "held")

\* It returns with a source, or raises with part of one or none.  The first open()
\* that raises is closed behind at once.
Connected(c) ==
    /\ doing[c] = "connect"
    /\ \/ Goes(c, "none") /\ \E s \in {"none", "held", "live"} : Leaves(c, s)
       \/ Goes(c, "close") /\ (Leaves(c, "none") \/ Leaves(c, "held"))

\* "A source that has died cannot be read back to life", and a read() never
\* finds it released under its hands.
ReadReturns(c) == doing[c] = "read" /\ Goes(c, "none") /\ Lasts(c)

CloseReturns(c) ==
    /\ doing[c] = "close" /\ Goes(c, "none")
    /\ Lasts(c) \/ Leaves(c, "none")

\* A part of close(), or the whole of it in one step.
Releases(c) ==
    /\ doing[c] \in {"none", "close"} /\ Goes(c, doing[c])
    /\ Leaves(c, "none")

Dies(c) == Goes(c, doing[c]) /\ Lasts(c)

\* The first open() may have been called.
Init == /\ doing \in [Camera -> {"none", "connect"}]
        /\ source = [c \in Camera |-> "none"]

Next == \E c \in Camera :
            \/ Calls(c) \/ Connects(c) \/ Connected(c)
            \/ ReadReturns(c) \/ CloseReturns(c) \/ Releases(c) \/ Dies(c)

Spec == Init /\ [][Next]_runtimeVars
=============================================================================
