------------------------------ MODULE Delivery ------------------------------
(***************************************************************************)
(* The delivery path of the edge agent: detection rows are written by the  *)
(* camera pipelines into a local SQLite buffer (core/buffer/buffer.py),    *)
(* pushed to the backend by the ingest worker (core/ingest/worker.py) and  *)
(* drained at shutdown in the order of main.run (main.py).                 *)
(*                                                                         *)
(* All coroutines run on one event loop and share ONE aiosqlite            *)
(* connection, whose thread executes one request at a time.  A step of     *)
(* this module is one such request (an execute, a commit, a checkpoint),   *)
(* one HTTP request, or one synchronous stretch of a coroutine; between    *)
(* two steps of a coroutine any other coroutine may take its own.  A       *)
(* COMMIT commits whatever the connection has executed, whoever asked.     *)
(***************************************************************************)
EXTENDS Integers, FiniteSets, FiniteSetsExt

CONSTANTS
    Writers,     \* the coroutines that call Buffer.write
    Heartbeats,  \* those of them that are the health reporter's, not cameras
    Tables,      \* target tables of the branch schema
    MaxRow,      \* bound: rows ever written, numbered in order of insertion
    TableOf,     \* the table each row is routed to
    FrameRows,   \* bound: rows one frame produces
    BatchSize,   \* api.ingest.batch_size
    Limit,       \* api.buffer.max_size_mb, in rows; 0 is "no limit"
    DropChunk,   \* the LIMIT 1000 of _enforce_size_limit
    FailureCap,  \* bound: _consecutive_failures saturates here
    MaxStarts,   \* bound: how often the process is started
    Rejected,    \* tables whose rows the backend never accepts
    Faults       \* what the environment may do: a subset of FaultKinds

FaultKinds == {"backend", "locked", "crash", "stop"}

Rows == 1..MaxRow

ASSUME DeliveryAssumption ==
    /\ Heartbeats \subseteq Writers
    /\ MaxRow \in Nat
    /\ TableOf \in [Rows -> Tables]
    /\ FrameRows \in Nat \ {0}
    /\ BatchSize \in Nat \ {0}
    /\ Limit \in Nat
    /\ DropChunk \in Nat \ {0}
    /\ FailureCap \in Nat \ {0}
    /\ MaxStarts \in Nat \ {0}
    /\ Rejected \subseteq Tables
    /\ Faults \subseteq FaultKinds

VARIABLES
    \* the database
    next,        \* rows inserted so far
    db,          \* status of each row as the connection sees it
    disk,        \* status of each row at the last commit
    tx,          \* the connection has a transaction open
    pages,       \* size of the database: most rows it ever held at a commit
    file,        \* st_size of the main file; lags pages until a checkpoint
    \* history, read by properties only
    stored,      \* rows that have been committed at some time
    dropped,     \* rows deleted while pending, by the size limit
    delivered,   \* rows the backend accepted at least once
    doubt,       \* accepted rows whose acceptance the agent did not record
    \* the camera pipelines and the health reporter
    wpc,         \* where each writer is in write()
    mine,        \* the rows of its current write()
    since,       \* _rows_since_trigger
    \* the ingest worker
    trigger,     \* the _trigger event
    ipc,         \* where the worker is
    batch,       \* rows of this flush not resolved yet
    progress,    \* this flush has pushed something (its result is not 0)
    failures,    \* _consecutive_failures
    \* the process
    phase,       \* which stage of main.run it is in
    starts       \* how often it was started

dbVars     == <<next, db, disk, tx, pages, file>>
history    == <<stored, dropped, delivered, doubt>>
writerVars == <<wpc, mine, since>>
ingestVars == <<trigger, ipc, batch, progress, failures>>
procVars   == <<phase, starts>>
vars       == <<dbVars, history, writerVars, ingestVars, procVars>>

Status     == {"absent", "pending", "sent"}
WriterPC   == {"idle", "stats", "noStats", "commit", "size", "commitPurged", "checkpoint", "resize",
               "commitDropped", "lastCheckpoint", "raised", "ended"}
FlushPC    == {"select", "fetch", "push", "accepted", "commitSent",
               "refused", "commitFailed", "purge", "commitPurge"}
IngestPC   == FlushPC \cup {"wait", "ended", "dead", "drained", "cut"}
DownPhases == {"closed", "aborted", "crashed"}
Phases     == {"running", "stopping", "closing", "draining"} \cup DownPhases

-----------------------------------------------------------------------------
(* The connection.                                                         *)

Live(d)    == {r \in Rows : d[r] # "absent"}
Pending(d) == {r \in Rows : d[r] = "pending"}
Sent(d)    == {r \in Rows : d[r] = "sent"}

\* ORDER BY created_at ASC LIMIT n: the rows of one write share created_at and
\* come back in rowid order, so the whole order is the order of insertion.
Oldest(S, n) == {r \in S : Cardinality({q \in S : q < r}) < n}

\* An execute of INSERT, UPDATE or DELETE opens a transaction if none is open,
\* even when it changes no row, and leaves it open.
Execute(d) == /\ db' = d
              /\ tx' = TRUE
              /\ UNCHANGED <<next, disk, pages, file>>

Delete(S) == [r \in Rows |-> IF r \in S THEN "absent" ELSE db[r]]

SetStatus(S, s) ==
    [r \in Rows |-> IF r \in S /\ db[r] # "absent" THEN s ELSE db[r]]

\* SQLite gives no page back on DELETE (nothing here vacuums), so the database
\* keeps the size of its fullest commit.  Whether the commit also moves the WAL
\* into the main file is up to the automatic checkpoint.
Commit == /\ disk' = db
          /\ tx' = FALSE
          /\ pages' = Max({pages, Cardinality(Live(db))})
          /\ file' \in {file, pages'}
          /\ stored' = stored \cup Live(db)
          /\ UNCHANGED <<next, db, dropped, delivered, doubt>>

\* The connection goes away with its process: what was not committed is gone,
\* and with it any unrecorded acceptance.
Rollback == /\ db' = disk
            /\ tx' = FALSE
            /\ doubt' = doubt \cup (delivered \cap Pending(disk))
            /\ UNCHANGED <<next, disk, pages, stored, dropped, delivered>>

\* A write that needs the file's lock fails once another process has held it
\* for busy_timeout; inside an open transaction the lock is already ours.
LockFails == "locked" \in Faults /\ ~tx

Oversize == Limit > 0 /\ file > Limit

-----------------------------------------------------------------------------
(* A writer: CameraPipeline._process, HealthReporter._heartbeat_loop, and  *)
(* Buffer.write.                                                           *)

\* The health reporter reads Buffer.stats first: the SELECT is executed here,
\* and its rows are fetched by the next request.  One without rows is over.
Stats(w) ==
    /\ w \in Heartbeats
    /\ wpc[w] = "idle"
    /\ wpc' = [wpc EXCEPT ![w] = IF Live(db) = {} THEN "noStats" ELSE "stats"]
    /\ UNCHANGED <<dbVars, history, mine, since, ingestVars, procVars>>

\* The health file is written from the statistics alone.
StatsOnly(w) ==
    /\ wpc[w] \in {"stats", "noStats"}
    /\ wpc' = [wpc EXCEPT ![w] = "idle"]
    /\ UNCHANGED <<dbVars, history, mine, since, ingestVars, procVars>>

\* Where a writer stands when it calls write().
Ready(w) == wpc[w] \in IF w \in Heartbeats THEN {"stats", "noStats"} ELSE {"idle"}

\* write() up to its INSERT, for the rows of one frame or one heartbeat.
Insert(w) ==
    /\ Ready(w)
    /\ \E n \in 1..FrameRows :
        /\ next + n <= MaxRow
        /\ next' = next + n
        /\ mine' = [mine EXCEPT ![w] = (next + 1)..(next + n)]
        /\ db' = [r \in Rows |-> IF r \in mine'[w] THEN "pending" ELSE db[r]]
    /\ tx' = TRUE
    /\ wpc' = [wpc EXCEPT ![w] = "commit"]
    /\ UNCHANGED <<disk, pages, file, history, since, ingestVars, procVars>>

\* Mutant of CommitRows: write() goes on without its commit.
CommitRowsLater(w) ==
    /\ wpc[w] = "commit"
    /\ wpc' = [wpc EXCEPT ![w] = "size"]
    /\ UNCHANGED <<dbVars, history, mine, since, ingestVars, procVars>>

CommitRows(w) ==
    /\ wpc[w] = "commit"
    /\ Commit
    /\ wpc' = [wpc EXCEPT ![w] = "size"]
    /\ UNCHANGED <<mine, since, ingestVars, procVars>>

\* write() returns and _process counts its rows, waking the worker when this
\* camera alone has written batch_size of them.  A heartbeat wakes nobody.
Return(w) ==
    LET counted == IF w \in Heartbeats THEN 0 ELSE since[w] + Cardinality(mine[w])
    IN  /\ wpc' = [wpc EXCEPT ![w] = "idle"]
        /\ mine' = [mine EXCEPT ![w] = {}]
        /\ since' = [since EXCEPT ![w] = IF counted >= BatchSize THEN 0 ELSE counted]
        /\ trigger' = (trigger \/ counted >= BatchSize)
        /\ UNCHANGED <<ipc, batch, progress, failures, procVars>>

\* An exception leaves write() early: the rows are not counted.
Raise(w) ==
    /\ wpc' = [wpc EXCEPT ![w] = "raised"]
    /\ mine' = [mine EXCEPT ![w] = {}]
    /\ UNCHANGED <<since, ingestVars, procVars>>

WithinLimit(w) ==
    /\ wpc[w] \in {"size", "resize"}
    /\ ~Oversize
    /\ Return(w)
    /\ UNCHANGED <<dbVars, history>>

\* Mutant of PurgeForSpace: the DELETE has lost its WHERE status='sent'.
PurgeOldestForSpace(w) ==
    /\ wpc[w] = "size"
    /\ Oversize
    /\ Execute(Delete(Oldest(Live(db), DropChunk)))
    /\ wpc' = [wpc EXCEPT ![w] = "commitPurged"]
    /\ UNCHANGED <<history, mine, since, ingestVars, procVars>>

PurgeForSpace(w) ==
    /\ wpc[w] = "size"
    /\ Oversize
    /\ Execute(Delete(Oldest(Sent(db), DropChunk)))
    /\ wpc' = [wpc EXCEPT ![w] = "commitPurged"]
    /\ UNCHANGED <<history, mine, since, ingestVars, procVars>>

DropPending(w) ==
    /\ wpc[w] = "resize"
    /\ Oversize
    /\ LET gone == Oldest(Pending(db), DropChunk)
       IN  /\ Execute(Delete(gone))
           /\ dropped' = dropped \cup gone
    /\ wpc' = [wpc EXCEPT ![w] = "commitDropped"]
    /\ UNCHANGED <<stored, delivered, doubt, mine, since, ingestVars, procVars>>

CommitDeletes(w) ==
    /\ wpc[w] \in {"commitPurged", "commitDropped"}
    /\ Commit
    /\ wpc' = [wpc EXCEPT ![w] =
                 IF @ = "commitPurged" THEN "checkpoint" ELSE "lastCheckpoint"]
    /\ UNCHANGED <<mine, since, ingestVars, procVars>>

\* SQLite refuses to checkpoint on a connection that has a transaction open or
\* a SELECT half read: "database table is locked".
CheckpointBlocked == \/ tx
                     \/ ipc = "fetch" /\ batch # {}
                     \/ \E w \in Writers : wpc[w] = "stats"

Checkpoint(w) ==
    /\ wpc[w] \in {"checkpoint", "lastCheckpoint"}
    /\ ~CheckpointBlocked
    /\ file' = pages
    /\ IF wpc[w] = "checkpoint"
       THEN /\ wpc' = [wpc EXCEPT ![w] = "resize"]
            /\ UNCHANGED <<mine, since, ingestVars, procVars>>
       ELSE Return(w)
    /\ UNCHANGED <<next, db, disk, tx, pages, history>>

CheckpointRaises(w) ==
    /\ wpc[w] \in {"checkpoint", "lastCheckpoint"}
    /\ CheckpointBlocked
    /\ Raise(w)
    /\ UNCHANGED <<dbVars, history>>

\* "database is locked", from the INSERT or from either DELETE.
WriteRaises(w) ==
    /\ LockFails
    /\ \/ Ready(w) /\ next < MaxRow
       \/ wpc[w] \in {"size", "resize"} /\ Oversize
    /\ Raise(w)
    /\ UNCHANGED <<dbVars, history>>

\* The except around _process, or around the heartbeat: the loop goes on.
RecordFailure(w) ==
    /\ wpc[w] = "raised"
    /\ wpc' = [wpc EXCEPT ![w] = "idle"]
    /\ UNCHANGED <<dbVars, history, mine, since, ingestVars, procVars>>

-----------------------------------------------------------------------------
(* The ingest worker: IngestWorker._loop, _flush, _push and _drain.        *)

\* The wait ends, by the trigger or by its timeout, which may come at any time.
Wake == /\ ipc = "wait"
        /\ trigger' = FALSE
        /\ ipc' = IF phase = "closing" THEN "ended" ELSE "select"
        /\ UNCHANGED <<dbVars, history, writerVars, batch, progress, failures, procVars>>

\* get_pending: executing the SELECT reads its first row; a later request
\* fetches the rest, of what the connection sees by then.
Select == /\ ipc = "select"
          /\ batch' = Oldest(Pending(db), 1)
          /\ ipc' = "fetch"
          /\ UNCHANGED <<dbVars, history, writerVars, trigger, progress, failures, procVars>>

\* Where a flush goes when the rows in rest are still to be pushed: to the next
\* table, or else back to _loop or to _drain.
After(rest, pushed) ==
    IF rest # {} THEN "push"
    ELSE IF phase # "draining" THEN "purge"
    ELSE IF pushed THEN "select"
    ELSE "drained"

\* Mutant of Fetch: the SELECT has lost its WHERE status='pending'.
FetchAny == /\ ipc = "fetch"
            /\ batch' = IF batch = {} THEN {} ELSE Oldest(batch \cup Live(db), BatchSize)
            /\ progress' = FALSE
            /\ ipc' = After(batch', FALSE)
            /\ UNCHANGED <<dbVars, history, writerVars, trigger, failures, procVars>>

Fetch == /\ ipc = "fetch"
         /\ batch' = IF batch = {} THEN {} ELSE Oldest(batch \cup Pending(db), BatchSize)
         /\ progress' = FALSE
         /\ ipc' = After(batch', FALSE)
         /\ UNCHANGED <<dbVars, history, writerVars, trigger, failures, procVars>>

\* by_table keeps the tables in order of first appearance, so the next group is
\* that of the oldest row left.
Group(b) == {r \in b : TableOf[r] = TableOf[Min(b)]}

Unrecorded(S) == S \cap Pending(db)

PushAccepted(t) ==
    /\ ipc = "push"
    /\ t = TableOf[Min(batch)]
    /\ t \notin Rejected
    /\ delivered' = delivered \cup Group(batch)
    /\ ipc' = "accepted"
    /\ UNCHANGED <<dbVars, stored, dropped, doubt, writerVars, trigger, batch,
                   progress, failures, procVars>>

\* Any other status, or a connection error before the backend took the rows.
PushRefused ==
    /\ ipc = "push"
    /\ "backend" \in Faults \/ TableOf[Min(batch)] \in Rejected
    /\ ipc' = "refused"
    /\ UNCHANGED <<dbVars, history, writerVars, trigger, batch, progress, failures, procVars>>

\* The backend took the rows; its answer did not arrive in time.
PushUnanswered ==
    /\ ipc = "push"
    /\ "backend" \in Faults
    /\ TableOf[Min(batch)] \notin Rejected
    /\ delivered' = delivered \cup Group(batch)
    /\ doubt' = doubt \cup Unrecorded(Group(batch))
    /\ ipc' = "refused"
    /\ UNCHANGED <<dbVars, stored, dropped, writerVars, trigger, batch, progress,
                   failures, procVars>>

\* Mutant of Mark: the ids of the whole flush instead of the group's.
MarkWith(S, s) ==
    /\ ipc \in {"accepted", "refused"}
    /\ Execute(SetStatus(S, s))
    /\ ipc' = IF ipc = "accepted" THEN "commitSent" ELSE "commitFailed"
    /\ UNCHANGED <<history, writerVars, trigger, batch, progress, failures, procVars>>

MarkBatch == MarkWith(batch, IF ipc = "accepted" THEN "sent" ELSE "pending")

\* mark_sent and mark_failed: the UPDATE.
Mark == /\ ipc \in {"accepted", "refused"}
        /\ Execute(SetStatus(Group(batch), IF ipc = "accepted" THEN "sent" ELSE "pending"))
        /\ ipc' = IF ipc = "accepted" THEN "commitSent" ELSE "commitFailed"
        /\ UNCHANGED <<history, writerVars, trigger, batch, progress, failures, procVars>>

CommitSent == /\ ipc = "commitSent"
              /\ Commit
              /\ failures' = 0
              /\ progress' = TRUE
              /\ batch' = batch \ Group(batch)
              /\ ipc' = After(batch', TRUE)
              /\ UNCHANGED <<writerVars, trigger, procVars>>

\* Mutant of CommitFailed: a flush ends at the first table that fails.
GiveUpFlush == /\ ipc = "commitFailed"
               /\ Commit
               /\ failures' = Min({failures + 1, FailureCap})
               /\ batch' = {}
               /\ ipc' = After(batch', progress)
               /\ UNCHANGED <<progress, writerVars, trigger, procVars>>

CommitFailed == /\ ipc = "commitFailed"
                /\ Commit
                /\ failures' = Min({failures + 1, FailureCap})
                /\ batch' = batch \ Group(batch)
                /\ ipc' = After(batch', progress)
                /\ UNCHANGED <<progress, writerVars, trigger, procVars>>

\* Mutant of Purge: rows expire by age alone, sent or not.
PurgeAny == /\ ipc = "purge"
            /\ \E old \in SUBSET Live(db) : Execute(Delete(old))
            /\ ipc' = "commitPurge"
            /\ UNCHANGED <<history, writerVars, trigger, batch, progress, failures, procVars>>

\* purge_old_sent: which sent rows are past delete_after_hours is up to the clock.
Purge == /\ ipc = "purge"
         /\ \E old \in SUBSET Sent(db) : Execute(Delete(old))
         /\ ipc' = "commitPurge"
         /\ UNCHANGED <<history, writerVars, trigger, batch, progress, failures, procVars>>

CommitPurge == /\ ipc = "commitPurge"
               /\ Commit
               /\ ipc' = "wait"
               /\ progress' = FALSE
               /\ UNCHANGED <<writerVars, trigger, batch, failures, procVars>>

\* Nothing in _loop catches a database error: the task ends with it, and nobody
\* looks until stop() awaits it.  In the drain, stop() itself catches it.
FlushRaises == /\ ipc \in {"accepted", "refused", "purge"}
               /\ LockFails
               /\ ipc' = IF phase = "draining" THEN "cut" ELSE "dead"
               /\ batch' = {}
               /\ UNCHANGED <<dbVars, history, writerVars, trigger, progress,
                              failures, procVars>>

-----------------------------------------------------------------------------
(* The process: the shutdown of main.run, a kill, and the restart.         *)

MayEnd == starts < MaxStarts

\* What a process keeps in memory, gone with it and fresh in the next one.
Memory(writer, worker) ==
    /\ wpc' = [w \in Writers |-> writer]
    /\ mine' = [w \in Writers |-> {}]
    /\ since' = [w \in Writers |-> 0]
    /\ trigger' = FALSE
    /\ ipc' = worker
    /\ batch' = {}
    /\ progress' = FALSE
    /\ failures' = 0

\* SIGTERM: _supervise returns, the health reporter is cancelled at its await,
\* and every pipeline is asked to stop.
Signal == /\ "stop" \in Faults /\ MayEnd
          /\ phase = "running"
          /\ phase' = "stopping"
          /\ wpc' = [w \in Writers |-> IF w \in Heartbeats THEN "ended" ELSE wpc[w]]
          /\ mine' = [w \in Writers |-> IF w \in Heartbeats THEN {} ELSE mine[w]]
          /\ UNCHANGED <<dbVars, history, since, ingestVars, starts>>

PipelineEnds(w) ==
    /\ phase = "stopping"
    /\ wpc[w] = "idle"
    /\ wpc' = [wpc EXCEPT ![w] = "ended"]
    /\ UNCHANGED <<dbVars, history, mine, since, ingestVars, procVars>>

\* The shutdown timeout: a pipeline still running is cancelled at its await,
\* with its transaction open if it was about to commit.
CancelPipelines ==
    /\ phase = "stopping"
    /\ wpc' = [w \in Writers |-> "ended"]
    /\ mine' = [w \in Writers |-> {}]
    /\ UNCHANGED <<dbVars, history, since, ingestVars, procVars>>

\* Mutant of StopIngest: the worker is stopped before the cameras have ended.
StopIngestFirst == /\ phase = "stopping"
                   /\ phase' = "closing"
                   /\ trigger' = TRUE
                   /\ UNCHANGED <<dbVars, history, writerVars, ipc, batch, progress,
                                  failures, starts>>

\* IngestWorker.stop, once every pipeline has ended: first wait for the loop.
StopIngest == /\ phase = "stopping"
              /\ \A w \in Writers : wpc[w] = "ended"
              /\ phase' = "closing"
              /\ trigger' = TRUE
              /\ UNCHANGED <<dbVars, history, writerVars, ipc, batch, progress,
                             failures, starts>>

\* A deadline cancels the flush at its await; a request in flight may or may not
\* have been taken, and nobody waits for the answer.
CutFlush(to) ==
    /\ ipc' = to
    /\ batch' = {}
    /\ delivered' \in {delivered} \cup
          (IF ipc = "push" /\ TableOf[Min(batch)] \notin Rejected
           THEN {delivered \cup Group(batch)} ELSE {})
    /\ doubt' = doubt \cup Unrecorded(delivered')
    /\ UNCHANGED <<dbVars, stored, dropped, writerVars, trigger, progress, failures>>

CancelLoop == /\ phase = "closing"
              /\ ipc \in FlushPC
              /\ CutFlush("ended")
              /\ UNCHANGED procVars

StartDrain == /\ phase = "closing"
              /\ ipc = "ended"
              /\ phase' = "draining"
              /\ ipc' = "select"
              /\ UNCHANGED <<dbVars, history, writerVars, trigger, batch, progress,
                             failures, starts>>

DrainTimeout == /\ phase = "draining"
                /\ ipc \in FlushPC
                /\ CutFlush("cut")
                /\ UNCHANGED procVars

\* Awaiting a loop that died re-raises its error through stop() and run(): main
\* logs it and exits without draining or closing anything.
StopRaises == /\ phase = "closing"
              /\ ipc = "dead"
              /\ Rollback
              /\ Memory("ended", "ended")
              /\ phase' = "aborted"
              /\ UNCHANGED <<file, starts>>

\* Buffer.stop, after the drain; the last close of a database checkpoints it.
CloseBuffer == /\ phase = "draining"
               /\ ipc \in {"drained", "cut"}
               /\ Rollback
               /\ file' = pages
               /\ Memory("ended", "ended")
               /\ phase' = "closed"
               /\ UNCHANGED starts

\* SIGKILL, an out-of-memory kill, a fault in native code.
Crash == /\ "crash" \in Faults /\ MayEnd
         /\ phase \notin DownPhases
         /\ Rollback
         /\ Memory("ended", "ended")
         /\ phase' = "crashed"
         /\ UNCHANGED <<file, starts>>

\* Restart=always: a new process on the same file.
Restart == /\ phase \in DownPhases
           /\ MayEnd
           /\ phase' = "running"
           /\ starts' = starts + 1
           /\ Memory("idle", "wait")
           /\ UNCHANGED <<dbVars, history>>

-----------------------------------------------------------------------------

Init == /\ next = 0
        /\ db = [r \in Rows |-> "absent"]
        /\ disk = db
        /\ tx = FALSE
        /\ pages = 0
        /\ file = 0
        /\ stored = {} /\ dropped = {} /\ delivered = {} /\ doubt = {}
        /\ wpc = [w \in Writers |-> "idle"]
        /\ mine = [w \in Writers |-> {}]
        /\ since = [w \in Writers |-> 0]
        /\ trigger = FALSE
        /\ ipc = "wait"
        /\ batch = {}
        /\ progress = FALSE
        /\ failures = 0
        /\ phase = "running"
        /\ starts = 1

\* A writer that has begun a write() carries it through.
WriterStep(w) ==
    \/ StatsOnly(w)
    \/ CommitRows(w)
    \/ WithinLimit(w)
    \/ PurgeForSpace(w)
    \/ DropPending(w)
    \/ CommitDeletes(w)
    \/ Checkpoint(w)
    \/ CheckpointRaises(w)
    \/ RecordFailure(w)

PushStep == \/ \E t \in Tables : PushAccepted(t)
            \/ PushRefused
            \/ PushUnanswered

IngestStep ==
    \/ Wake
    \/ Select
    \/ Fetch
    \/ PushStep
    \/ Mark
    \/ CommitSent
    \/ CommitFailed
    \/ Purge
    \/ CommitPurge

ShutdownStep ==
    \/ \E w \in Writers : PipelineEnds(w)
    \/ StopIngest
    \/ StartDrain
    \/ StopRaises
    \/ CloseBuffer
    \/ Restart

\* The rest is the environment: frames, deadlines, signals and faults.
\* A crashed agent does nothing until it is restarted.
Alive == phase \notin DownPhases

Next ==
    \/ /\ Alive
       /\ \/ \E w \in Writers : Stats(w) \/ Insert(w) \/ WriterStep(w) \/ WriteRaises(w)
          \/ IngestStep
          \/ FlushRaises
    \/ ShutdownStep
    \/ Signal
    \/ CancelPipelines
    \/ CancelLoop
    \/ DrainTimeout
    \/ Crash

Spec == Init /\ [][Next]_vars

\* asyncio runs every ready coroutine and fires every timer, and systemd restarts
\* the agent.  That the backend does not refuse a table for ever is an
\* assumption about the backend.
Fairness == /\ \A w \in Writers : WF_vars(Alive /\ WriterStep(w))
            /\ WF_vars(Alive /\ IngestStep)
            /\ WF_vars(ShutdownStep)
            /\ \A t \in Tables : SF_vars(Alive /\ PushAccepted(t))

FairSpec == Spec /\ Fairness

-----------------------------------------------------------------------------
(* Safety.                                                                 *)

\* Types of the variables.
TypeOK ==
    /\ next \in 0..MaxRow
    /\ db \in [Rows -> Status] /\ disk \in [Rows -> Status]
    /\ tx \in BOOLEAN
    /\ pages \in Nat /\ file \in Nat
    /\ stored \subseteq Rows /\ dropped \subseteq Rows
    /\ delivered \subseteq Rows /\ doubt \subseteq Rows
    /\ wpc \in [Writers -> WriterPC]
    /\ mine \in [Writers -> SUBSET Rows]
    /\ since \in [Writers -> Nat]
    /\ trigger \in BOOLEAN
    /\ ipc \in IngestPC
    /\ batch \subseteq Rows
    /\ progress \in BOOLEAN
    /\ failures \in 0..FailureCap
    /\ phase \in Phases
    /\ starts \in 1..MaxStarts

\* A row marked sent, committed or not, is one the backend accepted: mark_sent is
\* never applied to the rows of a push that failed, nor to those of another table.
SentIsAccepted == Sent(db) \cup Sent(disk) \subseteq delivered

\* A row that was ever committed is still on disk, or was accepted by the
\* backend, or was dropped by the size limit: no crash, cancellation, purge or
\* failed push loses it.
NoSilentLoss == stored \subseteq Live(disk) \cup delivered \cup dropped

\* A row the backend accepted is pushed again only if the agent did not get to
\* record the acceptance: the answer was lost, or the process or the flush
\* ended between the answer and the commit of mark_sent.
NoNeedlessResend ==
    ipc = "push" => batch \cap delivered \subseteq doubt

\* Past its commit, write() can promise that its rows reached the disk, however
\* the transactions of the other coroutines fell around it.  The exceptions are
\* rows another coroutine took out of the open transaction: pushed and purged,
\* or dropped by another camera's size limit, before anyone committed them.
WriteIsDurable ==
    \A w \in Writers :
        wpc[w] \notin {"idle", "stats", "noStats", "commit", "raised", "ended"} =>
            mine[w] \subseteq stored \cup delivered \cup dropped

\* When the drain ends by itself and its last push did not fail, no row is left:
\* every camera has stopped writing before the drain looks at the buffer.
DrainEmpties ==
    phase = "draining" /\ ipc = "drained" /\ failures = 0 => Pending(db) = {}

-----------------------------------------------------------------------------
(* The inductive invariant: what makes the safety properties true of every  *)
(* step.                                                                    *)

\* Outside a transaction the connection sees what is on disk.
Clean == ~tx => db = disk

\* Nothing is known of a row that has not been inserted.
Unborn == \A r \in Rows : r > next =>
              /\ db[r] = "absent" /\ disk[r] = "absent"
              /\ r \notin batch \cup delivered

\* A row committed once is accounted for in the open transaction too.
KeptInDb == stored \subseteq Live(db) \cup delivered \cup dropped
OnDiskOnce == Live(disk) \subseteq stored

\* What the UPDATE of mark_sent is about to say is true.
AcceptedGroup == ipc = "accepted" => Group(batch) \subseteq delivered

\* Rows of this flush whose push has not been tried.
Untried ==
    IF ipc \in {"fetch", "push"} THEN batch
    ELSE IF ipc \in {"accepted", "refused", "commitSent", "commitFailed"}
         THEN batch \ Group(batch)
    ELSE {}

\* Only a row in doubt is tried though the backend has it.
UntriedIsNew == Untried \cap delivered \subseteq doubt

\* No row of the batch is marked sent before its own push.
UnmarkedBatch ==
    /\ Untried \cap Sent(db) = {}
    /\ ipc \in {"accepted", "refused"} => batch \cap Sent(db) = {}

\* An accepted row that is still pending is in doubt, or its mark is on the way,
\* or the worker will never push again.
AcceptedIsMarked ==
    \A r \in delivered \cap Pending(db) :
        \/ r \in doubt
        \/ ipc = "accepted" /\ r \in Group(batch)
        \/ ipc \in {"dead", "cut"}

\* A process that is gone has no flush.
DownIsQuiet == ~Alive => ipc = "ended"

IInv == /\ TypeOK
        /\ SentIsAccepted
        /\ NoSilentLoss
        /\ Clean
        /\ Unborn
        /\ KeptInDb
        /\ OnDiskOnce
        /\ AcceptedGroup
        /\ UntriedIsNew
        /\ UnmarkedBatch
        /\ AcceptedIsMarked
        /\ DownIsQuiet

\* Rows that wait for the commit of their write() are in the open transaction,
\* unless another coroutine took them out of it.
WaitingIsInDb ==
    \A w \in Writers :
        wpc[w] = "commit" => mine[w] \subseteq Live(db) \cup delivered \cup dropped

WriteInv == WaitingIsInDb /\ WriteIsDurable

\* The worker is stopped only behind the last writer.
LastWriter == phase \in {"closing", "draining"} => \A w \in Writers : wpc[w] = "ended"

\* With nobody writing, a SELECT of the drain that found no row stays right.
DrainSelect == phase = "draining" /\ ipc = "fetch" /\ batch = {} => Pending(db) = {}

DrainInv == LastWriter /\ DrainSelect /\ DrainEmpties

-----------------------------------------------------------------------------
(* Liveness.                                                               *)

\* Behind a whole batch of pending rows that the backend never takes: get_pending
\* returns those first, whenever it is asked, and mark_failed leaves them pending.
Starved(r) == Cardinality({q \in Pending(disk) : q < r /\ TableOf[q] \in Rejected}) >= BatchSize

\* Every committed row of a table the backend takes is accepted in the end, unless
\* the size limit drops it, also while another table is refused (worker.py: rows of
\* a failed push are retried on the next flush; stop(): what does not go out goes
\* out on the next start).  The one exception is a row that stays behind batch_size
\* rows of refused tables for good: nothing moves those out of the head of the batch.
AcceptedTablesFlow ==
    \A r \in Rows : TableOf[r] \notin Rejected =>
        (r \in stored ~> (r \in delivered \cup dropped \/ []Starved(r)))

-----------------------------------------------------------------------------
(* What the path promises as a whole.                                      *)

Box == INSTANCE Outbox
           WITH Row <- Rows, offered <- 1..next, held <- Live(disk)

\* The delivery path implements the at-least-once outbox: a row leaves the disk
\* only once accepted or dropped, across commits that mix the rows of several
\* coroutines, rollbacks and restarts.
OutboxSpec == Box!Spec

-----------------------------------------------------------------------------
(* What the documentation says and the code does not do.                   *)

\* buffer.py: pending rows are dropped when the database exceeds max_size_mb,
\* "if still over the limit" without the sent ones.
DropsOnlyOverLimit ==
    [][dropped' # dropped => Cardinality(Live(db)) > Limit]_vars
=============================================================================
