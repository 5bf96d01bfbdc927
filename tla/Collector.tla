----------------------------- MODULE Collector -----------------------------
(***************************************************************************)
(* The collector (core/collector): after every frame the camera's loop      *)
(* offers it to the sessions of that camera, one after the other.  A        *)
(* session that takes it has an image and a label file written by a thread  *)
(* of the executor, both named for the second in which the frame was        *)
(* captured, and counts it when the thread is done.                         *)
(*                                                                         *)
(* The sessions are those of one camera: no two cameras share one.          *)
(***************************************************************************)
EXTENDS Integers, FiniteSets, Sequences

CONSTANTS
    Sessions,   \* enabled sessions in the order of the file, see SessionType
    Classes,    \* what a detection may be of, confident enough for the model
    PerSecond,  \* readings of a clock in one second
    ClockSteps, \* by how much the wall clock may be set
    MaxTime,    \* bound: readings of the clocks
    MaxFrames,  \* bound: frames
    FaultCap,   \* bound: files that cannot be written, clocks set
    MaxStarts   \* bound: starts of the process

NoLimit == 0

SessionType ==
    [mode : {"interval", "on_detection", "random"},
     every : Nat,            \* interval_seconds, or 60 / frames_per_minute
     classes : SUBSET Classes,
     minDetections : Nat,
     maxFrames : Nat,
     after : Nat, before : Nat]

ASSUME CollectorAssumption ==
    /\ Sessions \in Seq(SessionType) /\ Sessions # <<>>
    /\ ClockSteps \subseteq Int
    /\ {MaxTime, MaxFrames, FaultCap} \subseteq Nat
    /\ PerSecond \in 1..MaxTime
    /\ MaxStarts \in Nat \ {0}

VARIABLES
    wall, mono,     \* datetime.now() and time.monotonic()
    frame,          \* the last frame: its number, second and detections
    next,           \* the session it is offered to, 0 when the loop reads
    writes,         \* the calls of _save_files under way
    saved, last,    \* _frames_saved and _last_saved
    images, labels, \* what each file holds: a frame, damage or nothing
    lastError,      \* last_error of the camera says that the collector failed
    starts, faults, \* bounded
    \* history
    counted,        \* the writes each session counted since the process started
    torn            \* pairs of files whose last write did not get through

clocks == <<wall, mono>>
files == <<images, labels>>
process == <<next, writes, saved, last, lastError>>
vars == <<clocks, frame, process, files, starts, faults, counted, torn>>

Ids == DOMAIN Sessions
Second == wall \div PerSecond
Stems == 0..MaxTime \div PerSecond
Nothing == 0
Damage == -1

-----------------------------------------------------------------------------
(* What a session wants.                                                   *)

\* _in_schedule: by the local time of day.
InSchedule(s) == wall >= Sessions[s].after /\ wall <= Sessions[s].before

\* _apply_filters.
Qualifying(s) == frame.found \cap Sessions[s].classes

\* _should_sample, and the outcomes its random numbers allow.
Samples(s) ==
    LET elapsed == mono - last[s]
        every == Sessions[s].every
    IN  CASE Sessions[s].mode = "interval" -> {elapsed >= every}
          [] Sessions[s].mode = "on_detection" -> {Qualifying(s) # {}}
          [] OTHER -> {taken \in BOOLEAN : IF taken THEN 2 * elapsed >= every
                                           ELSE 2 * elapsed < 3 * every}

\* Mutant of HasRoom: one frame too many.
HasRoomForOneMore(s) ==
    Sessions[s].maxFrames = NoLimit \/ saved[s] <= Sessions[s].maxFrames

HasRoom(s) == Sessions[s].maxFrames = NoLimit \/ saved[s] < Sessions[s].maxFrames

\* The early returns of _handle, in their order.
Takes(s) ==
    IF /\ HasRoom(s)
       /\ InSchedule(s)
       /\ Cardinality(Qualifying(s)) >= Sessions[s].minDetections
    THEN Samples(s)
    ELSE {FALSE}

-----------------------------------------------------------------------------
(* The camera's loop.                                                      *)

After(s) == IF s < Len(Sessions) THEN s + 1 ELSE 0

\* A frame has been read and stored; a detection has cleared last_error.
FrameRead ==
    /\ next = 0
    /\ frame.n < MaxFrames
    /\ \E found \in SUBSET Classes :
          /\ frame' = [n |-> frame.n + 1, stem |-> Second, found |-> found]
          /\ lastError' = (lastError /\ found = {})
    /\ next' = 1
    /\ UNCHANGED <<clocks, writes, saved, last, files, starts, faults, counted, torn>>

Begin(s) == [session |-> s, n |-> frame.n, stem |-> frame.stem, count |-> saved[s], at |-> "image"]

\* Mutant of Handle: the sessions are handled by tasks beside the loop.
HandleBeside ==
    /\ next # 0
    /\ \E taken \in Takes(next) : writes' = IF taken THEN writes \cup {Begin(next)} ELSE writes
    /\ next' = After(next)
    /\ UNCHANGED <<clocks, frame, saved, last, lastError, files, starts, faults, counted, torn>>

\* _handle up to its await: the count is read here, and the loop waits for the thread.
Handle ==
    /\ next # 0 /\ writes = {}
    /\ \/ /\ TRUE \in Takes(next)
          /\ writes' = {Begin(next)}
          /\ UNCHANGED next
       \/ /\ FALSE \in Takes(next)
          /\ next' = After(next)
          /\ UNCHANGED writes
    /\ UNCHANGED <<clocks, frame, saved, last, lastError, files, starts, faults, counted, torn>>

Move(w, at) == writes' = (writes \ {w}) \cup {[w EXCEPT !.at = at]}

\* cv2.imwrite: it does not raise when it cannot write, and leaves what was there
\* or part of a file.
WriteImage(w) ==
    /\ w.at = "image"
    /\ Move(w, "label")
    /\ \/ /\ images' = [images EXCEPT ![w.session][w.stem] = w.n]
          /\ UNCHANGED <<faults, torn>>
       \/ /\ faults < FaultCap
          /\ faults' = faults + 1
          /\ \E left \in {Damage, images[w.session][w.stem]} :
                images' = [images EXCEPT ![w.session][w.stem] = left]
          /\ torn' = torn \cup {<<w.session, w.stem>>}
    /\ UNCHANGED <<clocks, frame, next, saved, last, lastError, labels, starts, counted>>

\* write_text: what the filters let through, of the frame the image is of.
WriteLabel(w) ==
    /\ w.at = "label"
    /\ Move(w, "written")
    /\ labels' = [labels EXCEPT ![w.session][w.stem] = w.n]
    /\ torn' = IF images[w.session][w.stem] = w.n THEN torn \ {<<w.session, w.stem>>} ELSE torn
    /\ UNCHANGED <<clocks, frame, next, saved, last, lastError, images, starts, faults, counted>>

\* _handle after its await.
Count(w) ==
    /\ w.at = "written"
    /\ writes' = writes \ {w}
    /\ saved' = [saved EXCEPT ![w.session] = w.count + 1]
    /\ last' = [last EXCEPT ![w.session] = mono]
    /\ counted' = [counted EXCEPT ![w.session] = @ \cup {w}]
    /\ next' = After(w.session)
    /\ UNCHANGED <<clocks, frame, lastError, files, starts, faults, torn>>

\* What a label file that could not be written is left as: open() may have failed, or
\* have emptied the file.
LabelsLeft(w) ==
    IF w.at = "label"
    THEN {[labels EXCEPT ![w.session][w.stem] = left] :
             left \in {Damage, labels[w.session][w.stem]}}
    ELSE {labels}

\* mkdir() or write_text() raises: the sessions behind this one do not get the frame.
WriteRaises(w) ==
    /\ w.at \in {"image", "label"}
    /\ faults < FaultCap
    /\ faults' = faults + 1
    /\ labels' \in LabelsLeft(w)
    /\ torn' = IF w.at = "label" THEN torn \cup {<<w.session, w.stem>>} ELSE torn
    /\ writes' = writes \ {w}
    /\ next' = 0
    /\ lastError' = TRUE
    /\ UNCHANGED <<clocks, frame, saved, last, images, starts, counted>>

-----------------------------------------------------------------------------
(* Around it.                                                              *)

Elapse ==
    /\ wall < MaxTime /\ mono < MaxTime
    /\ wall' = wall + 1 /\ mono' = mono + 1
    /\ UNCHANGED <<frame, process, files, starts, faults, counted, torn>>

SetClock ==
    /\ faults < FaultCap
    /\ faults' = faults + 1
    /\ \E d \in ClockSteps : wall' = wall + d
    /\ wall' \in 0..MaxTime
    /\ UNCHANGED <<mono, frame, process, files, starts, counted, torn>>

\* The process ends, in the middle of a file, and is started again: the counts begin
\* anew, the files stay.
Restart ==
    /\ starts < MaxStarts
    /\ starts' = starts + 1
    /\ next' = 0 /\ writes' = {} /\ lastError' = FALSE
    /\ saved' = [s \in Ids |-> 0]
    /\ last' = [s \in Ids |-> 0]
    /\ counted' = [s \in Ids |-> {}]
    /\ torn' = torn \cup {<<w.session, w.stem>> : w \in {v \in writes : v.at # "written"}}
    /\ labels' \in UNION ({LabelsLeft(w) : w \in writes} \cup {{labels}})
    /\ images' \in {images} \cup {[images EXCEPT ![w.session][w.stem] = Damage] :
                                     w \in {v \in writes : v.at = "image"}}
    /\ UNCHANGED <<clocks, frame, faults>>

Init ==
    /\ wall \in 0..PerSecond /\ mono \in {0, wall}
    /\ frame = [n |-> 0, stem |-> 0, found |-> {}]
    /\ next = 0 /\ writes = {} /\ lastError = FALSE
    /\ saved = [s \in Ids |-> 0]
    /\ last = [s \in Ids |-> 0]
    /\ images = [s \in Ids |-> [t \in Stems |-> Nothing]]
    /\ labels = images
    /\ starts = 1 /\ faults = 0
    /\ counted = [s \in Ids |-> {}]
    /\ torn = {}

Next ==
    \/ FrameRead \/ Handle
    \/ \E w \in writes : WriteImage(w) \/ WriteLabel(w) \/ Count(w) \/ WriteRaises(w)
    \/ Elapse \/ SetClock \/ Restart

Spec == Init /\ [][Next]_vars

-----------------------------------------------------------------------------
(* Safety.                                                                 *)

Contents == {Nothing, Damage} \cup 1..MaxFrames

\* Types of the variables.
TypeOK ==
    /\ wall \in 0..MaxTime /\ mono \in 0..MaxTime
    /\ frame \in [n : 0..MaxFrames, stem : Stems, found : SUBSET Classes]
    /\ next \in {0} \cup Ids
    /\ writes \subseteq [session : Ids, n : 1..MaxFrames, stem : Stems, count : Nat,
                          at : {"image", "label", "written"}]
    /\ saved \in [Ids -> Nat] /\ last \in [Ids -> 0..MaxTime]
    /\ images \in [Ids -> [Stems -> Contents]] /\ labels \in [Ids -> [Stems -> Contents]]
    /\ lastError \in BOOLEAN
    /\ starts \in 1..MaxStarts /\ faults \in 0..FaultCap
    /\ torn \subseteq Ids \X Stems

UnderWay(s, t) == \E w \in writes : w.session = s /\ w.stem = t

\* An image and the label file of the same name are of the same frame, and a frame
\* that was counted has them, or a later frame of the same second has: unless the last
\* write of the two did not get through.
PairsKept ==
    \A s \in Ids, t \in Stems :
        \/ UnderWay(s, t) \/ <<s, t>> \in torn
        \/ /\ images[s][t] = labels[s][t]
           /\ \A w \in counted[s] : w.stem = t => images[s][t] >= w.n

\* "max_frames": a session counts no more frames than that from one start of the
\* process to the next, although the count is read before the write is awaited.
QuotaKept ==
    \A s \in Ids : Sessions[s].maxFrames # NoLimit
                       => Cardinality(counted[s]) <= Sessions[s].maxFrames
=============================================================================
