# VisionEngine Edge: a formal model

This directory holds TLA+ models of the VisionEngine Edge agent, the TLC
configurations that check them on small instances, and proofs, checked by TLAPS,
of their main safety properties for every instance. It is meant to be read next to
the source: every operator that models code is listed with its lines under `map`
in `PROJECT.json`, and line numbers below are of that source.

Contents: 1 the system, 2 the modules, 3 the runs, 4 fairness, 5 the proofs,
6 where code and text disagree, 7 what is not modelled, 8 the plan.

## 1. The system

The agent is one Python process. An asyncio event loop runs one coroutine per
camera, an ingest worker and a health reporter. Every camera has an executor with
a single thread, in which its runtime (DeepStream/GStreamer or Ultralytics/OpenCV)
makes its blocking calls. Detections become rows of a local SQLite file, from which
the worker pushes them to a backend over HTTP.

    camera source
        |  open / read / reconnect / close, in the camera's one thread
        v
    camera runtime --> CameraPipeline.run --> zones, rules --> Notifier --> webhooks (HTTP)
                              |        \--> Collector
                              |
                              | Buffer.write, trigger()          HealthReporter
                              v                                        |
                        Buffer (one SQLite connection) <---------------+
                              ^
                              | get_pending, mark_sent, mark_failed, purge_old_sent
                        IngestWorker --> backend (HTTP)

    main.run: starts them, supervises the camera tasks, stops them in order

| Component | Source | State | Operations | What is hard | What makes it correct |
|---|---|---|---|---|---|
| Buffer | `core/buffer` | the rows and their status, the connection's open transaction, the file's size | `write`, `get_pending`, `mark_sent`, `mark_failed`, `purge_old_sent`, `stats`, `_enforce_size_limit`, `stop` | every coroutine shares one connection, so one's commit, delete or checkpoint falls into another's transaction; other processes lock the file | a committed row is lost to nothing but the size limit; a write that returns is on disk |
| Ingest worker | `core/ingest/worker.py` | `_trigger`, the batch being pushed, `_consecutive_failures` | `_loop`, `_flush`, `_push`, `trigger`, `stop`, `_drain` | lost answers, partly failed flushes, cancellation between an UPDATE and its commit, tables the backend rejects | sent means accepted; resent only if the acceptance could not be recorded; every row goes out in the end |
| Process lifecycle | `main.py` | stop event, camera tasks, exit code | start, `_supervise`, the ordered shutdown, `_exit_now` | stops at any moment, threads that do not return, restart by systemd | the drain comes after the last write; the exit status tells a failure from a shutdown; a stop ends the process |
| Camera pipeline | `core/pipeline` | failure count, `last_error`, `_rows_since_trigger`, `_stop` | `run`, `_reconnect`, `_native_call`, `_process` | a call that hangs, fails or answers late; a stop at each `await` | no read without a source, a camera that is down is reported and comes back, nothing queued behind a call that hangs |
| DeepStream runtime | `core/model/detector/deepstream` | `_pipeline`, `_linked`, `_failed`, `_gate_credit` | `open`, `read`, `reconnect`, `close`, `request_stop`, pad and probe callbacks | flags of the runtime outlive pipelines; callbacks, teardown helpers and the stop thread meet on one pipeline; a process-wide lock | no pipeline is forgotten, ready means linked, the rate is the target |
| Ultralytics runtime | `core/model/detector/ultralytics` | the capture, `_next_due`, the process-wide FFmpeg options | `open`, `read`, `reconnect`, `close` | pacing against a moving clock, an environment variable all cameras share | frames are processed at the target rate; each capture opens with its own options |
| Model registry, runner | `core/model/registry.py`, `runner.py`, `detector/` | a runner per camera with a tracker, one per model for the others | `load`, `run`, `close` | what one camera gets to see of another's tracker; what raises only when it is built | a config that was accepted loads; a tracker is one camera's |
| Trackers | `core/model/tracker`, `stable_id.py` | tracks, the removed history, the map of stable ids | `update`, pruning, `resolve` | identities across pruned history, reconnects and restarts; options in five layers | pruning changes nothing that is tracked; a stored id is one thing's; no option is swallowed |
| Rules engine | `core/rules` | `_last_fired`: when each rule last fired per camera and zone | `filter_and_tag` | one engine for all cameras and for all detections of a frame, cooldowns on a monotonic clock, schedules over midnight | alerts of one key are a cooldown apart, and nothing else suppresses one |
| Zones | `core/zone`, `core/pipeline/enricher.py` | none | `enrich`, `assign_zone`, `point_in_polygon` | anchors on shared borders, boxes cut off by the frame | inside means inside; zones that tile the frame leave nobody out and count nobody twice |
| Notifier | `core/notifier` | `_pending`, the tasks in flight, and the HTTP client | `notify`, `_send`, `stop` | fire and forget beside the loop and the shutdown | no call over a closed client; the wait for the calls ends |
| Collector | `core/collector` | `_frames_saved`, `_last_saved`, the files | `on_frame`, `_handle`, `_save_files` | a count read before an await, names of one-second resolution, writes cut in two | no more than `max_frames` are counted; an image and the label of its name are of one frame |
| Health reporter | `core/health` | none of its own | report file, heartbeat rows | reads others' state at any time, writes on the shared connection | it reports what is |
| Configuration | `core/config` | none | `load_config`, the readers, the parsers, `_validate` | placeholders for what was refused, seven files that must fit together, mistakes that show only as silence | no value is anything but the one written; what is accepted starts; what comes to nothing was warned of |
| Debug tools | `tools` | - | interactive viewers | - | - |

The hazards this leads to, each at its line and with the properties that cover it,
are listed under `hazards` in `PROJECT.json`. The repository has no tests.

## 2. The modules

### Delivery: from a detection to the backend

`Delivery.tla` models `Buffer`, `IngestWorker`, the parts of `_process` and of the
health reporter that call them, and the shutdown of `main.run` with kill and restart.
It was the first module because losing or repeating rows is what would hurt most.

The grain is one request to the connection's thread: `INSERT` and `COMMIT` are two
steps, and any coroutine may act in between. `db` is the table as the connection sees
it, `disk` as of the last commit, `tx` whether a transaction is open. `Commit` commits
whatever has been executed, whoever asked: that is the reason the model needs `mine`
(the rows of a writer's current write) apart from the transaction. `pages` and `file`
separate the size of the database from `st_size` of the main file, which lags until a
checkpoint and never shrinks, because nothing vacuums. Rows are numbered in order of
insertion, the order `ORDER BY created_at` gives.

A writer's `wpc` follows `Buffer.write` (lines 77-206): `Insert`, `CommitRows`, then
the size limit: `PurgeForSpace`, `CommitDeletes`, `Checkpoint`, the re-check,
`DropPending`, `CommitDeletes`, `Checkpoint`. `Return` includes the counting and the trigger of
`_process`. The worker's `ipc` follows `_loop`, `_flush` and `_push`; `After` decides
where a flush goes. `phase` is the stage of `main.run`. The deadlines that cancel a
coroutine (`CancelPipelines`, `CancelLoop`, `DrainTimeout`) strike at any await and
leave the transaction as it is. `stored`, `dropped`, `delivered` and `doubt` are
history that no action reads.

The backend is external: it accepts, refuses, or accepts without an answer.

`Outbox.tla` is the abstract specification: rows are offered, held, delivered and
dropped, and only a row that was delivered or dropped leaves the disk. `Box` in
`Delivery` maps `held` to the rows on disk and `offered` to the rows inserted.

### CameraLoop: keeping cameras alive

`CameraLoop.tla` models `CameraPipeline.run`, `_reconnect` and `_native_call`
(`pipeline.py`), the single thread of the executor, and `_supervise` and the shutdown
of `main.py`. `at` is the place of the coroutine, `thread` the call its thread is
inside, `result` what the awaited future holds. They are separate, because the 90 s limit of
`_native_call` gives up on a call whose thread goes on. What a runtime is
reduced to is `held`: nothing, part of a source (a connection that failed half way), or a source.
Backoff delays are abstracted to `SleepOver`, which may come at any time; the count
that determines them is `errors`.

`CameraLoop` and `Delivery` divide `main.run`: `Release` here is the drain and close
of `Delivery`; the `idle`, `stopping` and `CancelPipelines` there are the loops here.

### CameraRuntime: the contract between the loop and its runtime

`CameraRuntime.tla` is the abstract class of `detector/base.py`: which call a camera's thread is inside, and whether
its source is nothing, held or live. A read is only made of a live source, none but `open()` and `reconnect()` makes one live, and
whatever is held stays so until it is released. `CameraLoop` implements it for every runtime it may
drive, `DeepStream` and `Captures` each for the calls they answer; `Contract` is the refinement mapping in each of the three.
Where a module is coarser (a read and a close are single steps in `Captures`) the contract has a step for it.

### DeepStream: pipelines over reconnects

`DeepStream.tla` opens up what `CameraLoop` calls `held` for the DeepStream runtime.
Every connection is a numbered pipeline with a GStreamer `state`, a link (`video`), a bus
message and the helper thread of its teardown. The runtime's own attributes,
`current` (`_pipeline`), `linked`, `failed`, are shared by all of them: the
module exists to check what that sharing does. `call` is the runtime's place inside
`open`, `read`, `reconnect` and `close`; `run` reduces the caller to the order in
which `CameraPipeline.run` calls. `Take` and `CloseReturns` are the two halves of
`close()`, with the ten second wait in between abstracted to "may be over at any
time"; `Acquire`, `Unwind` and `UnwindHangs` are the helper with `_TEARDOWN_LOCK`.

### RateGate: how many frames pass

`RateGate.tla` is the arithmetic of `_plan_rate` and `_rate_gate`: how many frames
the decoder drops, and an integer credit that passes the share that is left. Rates are in hundredths of a
frame per second, as in the code. `AbandonedFrame` is the probe of a pipeline whose
teardown was abandoned, on the same credit.

### ReadPacing: when a frame is read

`ReadPacing.tla` is the schedule of the other runtime, `UltralyticsCameraRuntime.read`:
`Discard` is a frame grabbed before `_next_due`, `Pass` one that is retrieved and
inferred on, `NoFrame` one that raises. `wall` is `time.time()` and `real` the time that
has passed, which differ because the system may set the former (`SetClock`). A window of
the history (`framesRead`, `from`, `steps`, `steady`) may open with any frame that is passed, so that a
property about windows is one about every window.

### Captures: one environment variable for all

`Captures.tla` is `_open_capture`, `open`, `close` and `reconnect` of the same runtime,
for cameras of all kinds at once. `env` is `OPENCV_FFMPEG_CAPTURE_OPTIONS`, `lock` is
`_FFMPEG_ENV_LOCK`; each line between taking and giving back the lock is a step.
`Hang` is a constructor that does not return, with the lock held. It opens up what
`CameraLoop` calls `held`, as `DeepStream` does for its runtime.

### FrameRate: either of them

`FrameRate.tla` is `build_camera_runtime`: a camera has the runtime of its model, and with it
one of the two ways to keep `fps_target`. It extends both modules, whose specifications (`GateSpec`,
`PaceSpec`) the proofs are about, and the run covers both with the promises of each.

### Zones: where a detection is

`Zones.tla` holds the operators of `enrich` up to the zone, `assign_zone` and
`point_in_polygon`. Coordinates are in half pixels, so that centres are whole numbers, and the
quotient of the ray casting is multiplied out. `InView` is what zones drawn to the last pixel contain: the frame
without its last row and column of pixels. Boxes have any size and place, since the code bounds neither. `Deployment` runs
the operators.

### Alerts: from a detection to an alert

`Alerts.tla` is `_process` with the one `RulesEngine`, the `Notifier`, and the part of
the shutdown they take part in. Up to `buffer.write` nothing in `_process` gives up the
event loop (`await notify()` never suspends), so `Process` is a whole frame: `Fired` are the
matches `filter_and_tag` returns for its detections in order, `Remember` is
`_last_fired`, `Sends` the tasks of `notify`. `WriteEnds` is the end of the write, which
`Delivery` models. `Gather`, `CloseClient` and `StopRaises` are what follows the cameras in
`main.run`. Two clocks advance together: `now` is monotonic since the start of the
host, `hhmm` the time of day.

### Collector: what is kept of the frames

`Collector.tla` is `on_frame` and `_handle` for the sessions of one camera, in their order, and
`_save_files` in the executor. `next` is the session the frame is offered to, `writes` the calls of
`_save_files` under way with the count `_handle` read before its `await`, `images` and `labels` what
the two files of each name hold: the number of a frame, damage or nothing. Names are
`wall \div PerSecond`, since `_filename_stem` drops the fraction. The write is cut at every place:
`WriteImage` may fail without raising (`cv2.imwrite` returns `False`), `WriteRaises` ends the round of the
sessions, and `Restart` ends the process in the middle. A session is of one camera, so one camera is the
whole behaviour.

### Tracks: who is who

`Tracks.tla` is which runner a camera gets, the update of BoxMOT's ByteTrack and of NvTracker, the
pruning of `BoxMotTracker` behind each, and `StableIdMap`. ByteTrack itself is external: it is
modelled as `docs/TRACKER_HISTORY.md` describes it, with the three pools the code
reaches into. `unpruned` carries the same updates without pruning along, so that "pruning makes no
difference" is an invariant that relates the two. New tracks of an update are numbered in any order, and
`Window` is how many updates a lost track can be recovered for, at least one even with a buffer of 0.

### Reader, Config, Deployment: from the files to the first detection

`Reader.tla` are the readers of `strict.py`. A YAML value is a pair of its kind and content; text is
reduced to the patterns it matches. Each reader returns a value and whether it was refused, since the code
goes on with a placeholder. `Config.tla` are the seven parsers: a schema gives every key its
reader, and what a parser says beyond that is an operator over the values it read. An
error or warning is a place: section, indices, key.

`Deployment.tla` composes them. `LoadFile` reads one file after the other and stops at the first that has errors, `Validate` is
`_validate`, `Start` is `main.run` up to the pipelines (the registry's loads, the trackers with
their layered options), and `Detect` takes a detection through class filter, tracker, zone (with the operators of `Zones`), rules and
routing to its table. It is about what the stages assume of each other: each of its properties relates
what an early stage let pass to what a late one does with it. `RulesEngine` is reduced to its matching there;
cooldowns and times of day are those of `Alerts`. `DeploymentAssumption` says what YAML guarantees of a file:
lists are sequences and an int is a whole number.

### Modules for checking and proving

The modules named `MC...` only define values for constants and symmetry sets, those named
`...Proofs` hold theorems. `MCZones` holds the tilings `MCDeployment` uses. Operators commented "Mutant of X" are plausible bugs
of X: putting one in the place of X must make a run fail, which shows that the
property depends on what the code does. They are not part of any specification.
`UltralyticsProofs` is about `Captures` and `ReadPacing`, `DeepStreamProofs` about `DeepStream` and `RateGate`,
`DeploymentProofs` about `Reader`, `Config`, `Zones` and `Deployment`.

## 3. The runs

Deadlock is checked where a stuck state would be an error (`delivery_flow` and
`file_never_shrinks`). `CHECK_DEADLOCK FALSE` is said where the system
really stops: the process has exited for the last time (`Delivery`, `CameraLoop`,
`Alerts`), the cameras have ended or hang (`DeepStream`, `Captures`), the config was refused or its one
detection has been handled (`Deployment`), or a bound is reached (`FrameRate`,
`Collector`, `Tracks`).

| Run | Instance | Checks | What it shows |
|---|---|---|---|
| `delivery_safety` | camera and health reporter, 2 tables, 2 rows in frames of 1 or 2, limit of one row, every fault, one restart | `SentIsAccepted`, `NoSilentLoss`, `NoNeedlessResend`, `WriteIsDurable`, `DrainEmpties`, `OutboxSpec` | no row is lost but to the limit, marked sent without being accepted, or pushed again without cause; a write past its commit is on disk; the drain finds every row; the path implements the outbox |
| `delivery_flow` | 1 camera, 4 rows of 2 tables in turn, of which the first is never accepted; batches of 2; failures, kill, stop; fair | `AcceptedTablesFlow` | every committed row the backend takes gets out, unless it stays behind a whole batch of rejected rows: the second row always does, the fourth may not (section 6) |
| `loop` | 2 cameras, every fault; fair | `RuntimeSpec`, `ReportIsTrue`, `LinkedEndsClosed`, `ExitTellsWhy`, `OneCallAtATime`, `StopEnds`, `WedgeEnds`, `HealthyCameraRuns` | the loop keeps its side of the contract; reports, what is left open and the exit status; whatever hangs, a stop ends the process; a connection that hangs restarts it; a camera that answers is read again, whatever the other does |
| `pipes` | 1 camera, 3 pipelines, teardowns hang, stop; fair | `FailureIsOwn`, `RuntimeSpec`, `ComesBack`, `AllReleased` | the runtime keeps the contract: it is read only with video that is linked; what one connection leaves behind does not decide about the next, without late callbacks; a teardown that hangs with the lock held does not keep the camera down; without a hang every replaced pipeline ends in NULL |
| `rates` | DeepStream: 14 rates, 8 targets, 60 frames, reconnects, an abandoned pipeline. The other: interval 3, gaps up to 7, clock set by -5, 4 or 15 once a window, 15 units of time | `ShareKept`, `EvenBelowTarget`, `BurstBounded`, `RateKept`, `WaitBounded` | the gate passes its share of what it sees of all pipelines to within a frame; without an abandoned one evenly, and with the decoder keeps below the target, which it overdraws by 0.01 fps at most (rates are rounded to hundredths); the schedule is a ceiling with a bounded burst, is reached, and silence is bounded by what the clock is set back |
| `captures` | a USB camera, a stream that may hang, a file; fair | `Isolated`, `ComesBack` | each source opens with its own options and the operator's value survives; cameras come back unless a stream hangs with the lock held, a USB camera even then |
| `alerts` | 2 cameras, 2 rules, 1 webhook, 3 frames of 2 detections, a day of 5 minutes; fair | `CooldownHolds`, `SilenceExplained`, `ClientOpenWhenUsed`, `RowsAccounted`, `ShutdownEnds` | which alerts fire and why the others do not; no row of an alert is dropped before the buffer; the notifier is closed behind the last call |
| `collector` | 3 sessions of one camera, one of each sampling mode, limits 2, none and 1; 3 frames, 2 clock readings a second, a clock set back, a write that fails, a restart | `PairsKept`, `QuotaKept` | image and label of a name are of one frame and no counted frame is without, unless its write was cut; `max_frames` holds within a run of the process |
| `tracks` | 2 cameras of one tracked model, 1 of a DeepStream model, 2 things in pools of their own, buffer of one update, a reconnect, a restart | `PruneIsInvisible`, `IdentityIsOne` | pruning changes neither what is tracked nor what can be recovered, except in one update, and nothing is recovered later than two updates behind its window; a stored id stands for one thing |
| `deployment` | 5616 sets of files: a valid one, every odd value and typo in every place, and eight families of several changes; every box of whole pixels in a frame of 10 by 9, and up to a pixel over each of its edges, for 4 tilings | `ZoneIsRight`, `WrittenIsUsed`, `AcceptedStarts`, `StoredOrWarned`, `QuietRuleFires` | ray casting against the parity of triangles, with shared borders; what was accepted is what is written; it starts; what is not stored and what never fires was warned of |
| `file_never_shrinks`, `late_pad` | smallest that shows it | one property each, which fails | see section 6 |

### Why these bounds

*Delivery.* The faults are about two rows in relation to each other: in the same
transaction, batch or table, or in another one. Two writers and two tables let each row
be in a different place, and one restart suffices to see what survives. `Limit = 1`
makes every write after the first run the whole size limit. The reporter is one of
the writers, because it also reads on the shared connection and is cancelled at a stop.
The proofs cover any number of rows, writers and tables. In `delivery_flow` two of four rows are of the
table that is refused: one leaves room in the batch of two, both fill it, so that flow and starvation both happen.

*CameraLoop.* Cameras meet only in `main`, so two of them show every interaction.
`ErrorCap` saturates a count no guard reads.

*DeepStream.* Three pipelines are one in use, one whose teardown waits for the lock and
one whose teardown holds it: the whole behaviour of the lock appears with one camera.
The last pipeline does not fail by itself, so that the bound ends a run of failures and
not the camera. Two cameras with two pipelines each pass six million states.

*RateGate.* 60 frames are the longest interval of the decoder (60 fps for a target of 1)
and several periods of the gate for every other pair. The rates lie on, just above, just below and between multiples
of the targets, which is where rounding decides. One frame of an abandoned pipeline per connection
already makes every credit reachable at every place.

*ReadPacing.* Gaps run from a third of an interval to more than two, which is where a debt
begins to be forgiven; 15 units are five intervals. The clock steps are more than an interval back, more
than one forward, and more than any debt that is kept. The proofs cover all values.

*Captures.* The three kinds of source are what the code distinguishes; a second camera of
a kind adds only another contender for the lock. The proofs cover any number.

*Alerts.* The first frame starts a cooldown, the second meets it, the third comes after
it; they may be of two cameras. The cooldown of two minutes ends within the five that
pass, and the day of five minutes is crossed by a window open over midnight. The agent starts a
minute after the host, which is less than the cooldown. The proofs cover all values.

*Collector.* Three frames in two seconds make two share a name, and with the clock set back any two.
One fault suffices to cut one write of a pair; the second start meets what the first left. The proofs cover any
sessions, frames, clocks and faults.

*Tracks.* With a buffer of one update, five updates let a track be lost, revived in the
one update in which it is both lost and removed, lost again and dropped; the five are those of all cameras together. Two things in pools of their own
are the two ways to meet (`per_class`); with one pool they would only share it.

*Deployment.* The mistakes of an operator that a reader must find are single: 19 values of every kind in
every one of the places, and an unknown key in every mapping. What takes two files to be wrong is enumerated by
family: enabled cameras against `max_cameras`; the filters of a rule against what is active; weights,
runtime, accelerator, `ds_infer_config` and `half`; the classes of a model, camera, route and
weights; tracker files of both layouts; sampling, schedule and camera of a session. The proofs cover
every config.

*Zones* (in `deployment`). The coordinates matter by their order relative to vertices and by parity. The
tilings have slanted, horizontal and vertical borders, a point where four polygons meet,
both orientations and a polygon that is not convex; every anchor in half pixels is reached. Boxes may be empty, one
pixel wide, on the last pixels of the frame or over its edges. TLC evaluates
`LayoutsTile`, the hypothesis of `ZonesAreRight`, for them. The proofs cover any polygons and boxes.

## 4. Fairness

asyncio runs every ready coroutine and fires every timer, hence weak fairness of the
steps of the coroutines, of the deadlines and of the shutdown; systemd restarts the
agent (`Restart=always`, `scripts/service.sh`). A call in a thread returns unless it is stuck: weak
fairness of `CallReturns`, while `CallHangs` is the environment's and not fair.
Three assumptions go beyond the code, and are about its surroundings. The backend does
not refuse a table for ever (strong fairness of `PushAccepted`). A camera answers in the end
(strong fairness of a successful connect and read). A lock that is free again and again is
obtained (strong fairness of `Acquire`), and preparing a connection succeeds in the end (`Build`,
and a capture that opens in `Captures`). In `Alerts` a webhook call ends, by its own timeout if by
nothing else (`Settle`), the shutdown timeout runs out (`Abandon`) and `main.run` goes on; the cameras are
given no fairness at all.
No fairness is given to signals, kills, faults, deadlines of `Delivery`, frames, or
failures. The shutdown's deadline of `CameraLoop` is part of the fair `ShutdownStep`:
either the tasks end or `Abandon` ends them.

## 5. The proofs

The assumptions are those of the modules: constants of the right type, faults a subset of the known ones.
No proof bounds the number of rows, cameras, tables or frames, except that
they are constants; `Cameras` is finite in `CameraLoop`. No proof uses a bound of the runs.

**DeliveryProofs.** `Typing` and `Invariance` establish `IInv`; `SentIsTrue`,
`NothingLost` and `ResendNeedsDoubt` follow. None of the three is inductive. That sent
is accepted needs `AcceptedGroup`: the rows about to be marked were accepted, and
`Group(batch)` is still the group that was pushed. That no row is lost needs `Clean` (outside a
transaction, `db` is `disk`) and `KeptInDb`: an uncommitted delete must already be
accounted for, since any coroutine's commit may make it real, and any rollback undo it.
That nothing is resent needlessly needs `UntriedIsNew`, `UnmarkedBatch` and
`AcceptedIsMarked`: an accepted row that is still pending is in doubt, or its mark is
on its way, or the worker will not push again. The proof has one step per action, most
of them through the lemmas on the parts of a flush. `ImplementsOutbox` maps every step
to one of the outbox or a stutter under the invariant.

`WritesAreDurable` needs besides `WaitingIsInDb`: while a `write()` waits for its commit, its rows are in the
open transaction or were taken out of it for a reason. `HistoryStep` is the lemma that carries it through the
steps of all other coroutines: what was delivered or dropped stays so, and no step of a living process takes a
row out of the transaction for nothing. `DrainIsComplete` needs that the worker is stopped behind the last
writer (`LastWriter`) and that a SELECT with a LIMIT which found nothing stays right (`DrainSelect`); that it finds
a row when there is one (`SelectFinds`) is by the least element of a set of rows.

**CameraLoopProofs.** `IInv` adds to the properties `TakesTurns` (loop and thread
alternate, except once the loop is wedged or cancelled), `HoldsWhatItReads` (what is held by place and result),
`ClosedOnce` and `CodeTellsWhy`. From it: `ReadsAreOfASource`, `ReportedAsItIs`,
`ClosesBehindItself`, `StatusZeroIsAsked`, and the action property `CallsDoNotQueue`,
whose case that matters is that no call is submitted behind one that was given up. `CallsByTheContract` maps every
step to one of `CameraRuntime` or a stutter: `LoopSubmits` for the calls the loop makes, `CallEnds` for
what they come to, also behind a loop that was wedged or cancelled.

**DeepStreamProofs**, of `DeepStream`. `Phases` says where runtime and caller are together, and that the pipeline
the runtime has is the one it built last. `OwnFailure` and `OwnLink` say that a connection begins with the flags of
the runtime cleared, and that what is in them behind that is its own: `FailuresAreOwn` holds whatever comes late,
`ReadyIsLinkedUnlessLate` under the hypothesis that no pad of a replaced pipeline does, without which the run `late_pad` refutes
it. Two theorems are of no run: `NoPipelineIsLost` (every pipeline ever built is the current one or in the hands
of a teardown, and a finished teardown left it in NULL) and `TeardownsExclude` (`_TEARDOWN_LOCK`). `KeepsTheContract`
is the refinement of `CameraRuntime`, one step per action, from `Phases` and `OwnLink` and thus under the same hypothesis.

Of `RateGate`. `CreditIsBounded`: the target of the gate is below its source, so
a frame that is passed leaves less than a frame of credit. `GateIsExact`: each decoded frame
adds the target, each passed one takes the source rate, whichever pipeline it is of (`strays`, `stolen`).
`ShareIsKept` joins the two. `BelowTheTarget` adds `Decimated` (one frame in the interval is decoded),
`Spread` (behind a dropped frame the credit holds a share) and `Begins`, and puts the two roundings of `_plan_rate`
together. The bound was found by the proof: the rounding to hundredths lets the rate exceed the target by up to 0.01 fps, which
no instance of 60 frames shows.

**UltralyticsProofs**, of `ReadPacing`. `Lead` is how far the schedule is ahead of the clock, cut off at an
interval above and two below. A frame raises it by an interval and time lowers it, so that `PaidFor`
(the frames of the window against its time and the lead) is inductive; a step of the clock can move the
lead by its whole range, which is the three intervals `BurstBounded` grants it. `OnSchedule` says
that a steady camera is never far enough behind to skip an interval. `CeilingOfRead`, `RateOfRead` and
`WaitOfRead` follow.

Of `Captures`. The invariant says that whoever is between taking and giving back the lock is its
holder (`Exclusive`), that a device index never is (`Apart`), and that there the operator's value is
in `previous` and the camera's own options in the variable (`Kept`): `CamerasAreIsolated`,
`ReleasesFirst`. With `Fresh` (a capture under construction is the only one) follows `KeepsTheContract`, the refinement of
`CameraRuntime`.

**AlertsProofs.** `Remembered` says that no alert is later than what `_last_fired` has of its
key, `Justified` that what it has is an alert. `CooldownApart` then needs that of the
matches of one key in a frame only the first fires, and `SilenceHasAReason` that there is a first one (`FirstFires`,
by the least element of a set of naturals). `Outcome` follows the alerts to their rows and calls: a camera
outside a write has no rows, and once `stop` has gathered the calls no camera is left. From it
`EveryRowHandedOver` and `ClosedBehindTheLast`. `ScheduleIsOneStretch` is arithmetic modulo the
length of the day.

**CollectorProofs.** `Waits`: the loop waits for the thread, so that there is one write at most, of the
session it is at, begun when there was room and with the count that still stands. Without it
neither property is inductive: `QuotaIsKept` needs that the count read before the `await` is the count
behind it (`Counts` relates counted frames and counter), and `PairsStay` needs `Halfway`, which says for every place of a write
what its two files hold or that the pair is already torn. The restart and the raised write are
the cases that matter.

**TracksProofs.** `IInv` says of every runner that numbers are unique and a track is of its thing's pool (`Numbered`),
that a lost track is in its window or noted as removed (`Timely`), that with and without pruning the same is tracked and
the same can still be recovered (`Alike`), and that its map was filled in this start (`Own`). `Told` relates every stored id to
the thing that has its number now. `PruningIsInvisible` and `IdentitiesAreOne` follow for any cameras, pools, things and buffer.
The case that matters for the first is that what pruning drops from the removed history is of no lost track; for
the second, that the number of a pipeline stands for one thing for as long as the map lives.
For a buffer of 0 the proof did not go through with the bound a buffer of 1 suggested: `Window` is the corrected one.

**DeploymentProofs**, of `Zones`. `RayCastingIsRight` is for every polygon and every point, also a point on a border and a
polygon with repeated corners. `Beside` decides for points on a line as the code does: they count as a hair further right, or below a
level one. In a triangle the heights of the corners over the ray, weighed by the turns of the point on the opposite sides, sum to
zero (`Weights`); so with one corner alone over or below the point, the point is beside the opposite side if it is beside the other two
(`LoneAbove`, `LoneBelow`), and with no corner over it the point is outside (`NoneAbove`). Hence the ray
crosses an odd number of sides of a triangle exactly when the triangle holds the point (`RayInTriangle`). `Walk`
goes along the polygon and adds a triangle with each edge, closing the part behind it; the induction is by the least corner at which the
count would be off. `RectangleIsHalfOpen` counts the edges of a rectangle that the ray crosses, and
`NoSeamNoOverlap` follows for rectangles side by side. `AnchorInView`, for every box: if the middle is in view
the anchor is, wherever the feet are; and the middle of a box within the frame is in view unless the box begins in the last two
columns or rows.

Of `Reader`, `Config` and `Deployment`, for any config. A reader that refuses nothing returns what is written (`ReadKeeps`);
that goes up through sections, entries and the seven parsers (the lemmas named `...AreSound`). What a file without errors
promises about models, cameras and rules is in `SaneModel`, `SaneCamera` and `SaneRule` (`GoodModel` and so on). `IInv` has four parts: what
has been read is what the parser makes of the file and is without errors (`FilesRead`), from the validation on what `_validate` said of all
seven stands (`Validated`), a system that runs has no obstacle (`Started`), and a detection is of an enabled camera and its
routes (`Seen`). `Promises` draws from it what the later stages assume. Then `AcceptedConfigsStart` shows case by case that what `Start` may
stumble over was excluded before, `DetectionsAreStored` that a class without a route is in the warnings, `QuietRulesFire`
that a rule with one condition has a camera, class and zone, and `NothingIsReplaced` that placeholders do not survive.
`Placement` adds that polygons are those of the file and that the anchor of a box with its middle in view is in view, from
which `ZonesAreRight` follows; its hypothesis, that the polygons of `Layouts` tile the frame, is what the property is about.

Only model-checked: every liveness property (TLAPS does not prove liveness under
fairness or `ENABLED`). `RuntimeSpec` of `DeepStream` is proved under the hypothesis of the run. The type invariants of
`Delivery`, `CameraLoop`, `DeepStream`, `RateGate`, `ReadPacing`, `Captures`, `Alerts`, `Collector` and `Tracks`, and
`OneConnection`, `ReadHasSource`, `RuntimeSpec` of `Captures`, `ScheduleIsOneStretch` and the theorems on pipelines, are proved and not run.

## 6. Where code and text disagree

Each of these has a run that TLC must find violated; `findings` in `PROJECT.json`
quotes the text.

| Run | What happens |
|---|---|
| `file_never_shrinks` | once the file has reached the limit, each write drops pending rows however few are left |
| `late_pad` | a pad of the old pipeline after `_linked` was cleared makes the new one count as ready |

These follow from the same models, or were noticed while they were written, and have no
run of their own:

- `_loop` awaits `_flush` and `purge_old_sent` without an `except` (`worker.py:153`): one
  "database is locked" there ends the ingest task (`FlushRaises`), and nothing is pushed until the next
  start, though `worker.py:33` says that rows are "retried on the next flush".
- `PRAGMA wal_checkpoint` of one camera's write raises while another coroutine's
  transaction or SELECT is open (`CheckpointRaises`); `buffer.py:61` says that cameras
  "cannot contend with each other". Its rows are committed, but not counted.
- `_reconnect` returns 0 for every connection that opens (`pipeline.py:280`), so a stream that opens
  and drops before a frame is retried every two seconds for ever, though line 263 says that the
  "backoff keeps growing".
- A first `open()` that fails is followed by reconnects for ever (`pipeline.py:151`), though `base.py:91` says that the
  pipeline "stops, rather than looping on a source that will never open".
- `read()` and `close()` do not go through `_native_call`: one that never returns leaves
  the camera blind and the process up (`CallHangs`), though `base.py:20` says that such a process
  "must be restarted".
- A rule that never fired counts as fired when the host started (`engine.py:64`): on a host that
  has been up for less than the cooldown, the first alerts are suppressed, although
  `rules.sample.yaml:39` starts the cooldown "after this rule fires". `SilenceExplained` names the case.
- The cooldown and the webhook come before the write: if it raises, the alert has no
  row, and `rules.sample.yaml:54` promises "one row per notification fired".
- A stream that hangs in `cv2.VideoCapture` keeps `_FFMPEG_ENV_LOCK` (`ultralytics/runtime.py:69`), and no
  other stream or file reopens until the 90 s limit restarts the process;
  `pipeline.py:129` says that a stalled camera does not affect the others. `ComesBack` names the case.
- The schedule of `read()` is kept by the wall clock (`ultralytics/runtime.py:163`): setting it
  back by an hour silences a camera for an hour. `WaitBounded` says no more than that.
- A worker that died makes `stop()` raise (`worker.py:84`): the process exits without
  drain and without closing the buffer (action `StopRaises`), though `main.py:262` says
  the exit only comes after both.
- Rows are counted per camera (`pipeline.py:358`): two cameras can fill a batch without
  waking the worker, which `api.sample.yaml:30` says happens at `batch_size` rows.
- `get_pending` returns the oldest rows first and `mark_failed` leaves them pending (`worker.py:170`): once a refused
  table has `batch_size` rows waiting, every batch is made of those, and no younger row of any other table goes out
  until the size limit drops them, though `worker.py:33` says that rows are "retried on the next flush".
  `AcceptedTablesFlow` names the case (`Starved`), which the fourth row of `delivery_flow` meets.
- The drain does not stop at the first failure (`worker.py:111`) if another table
  succeeds: `After` goes on to the next group.
- `registry.close()` runs while an abandoned thread may be inside `read()`
  (`main.py:148`: "Nothing is mid-inference by now").
- `request_stop()` sets the pipelines of all cameras to NULL at once and without
  `_TEARDOWN_LOCK` (`deepstream/runtime.py:47` and `705`); a `close()` after it takes a
  pipeline from NULL up to PAUSED again (`runtime.py:749`).
- The probe of an abandoned pipeline draws on the new one's credit (`runtime.py:298`), and
  without `drop-frame-interval` the gate passes a multiple of `fps_target`. `ShareKept`
  is of both pipelines together; `EvenBelowTarget` excludes both cases by name.
- `ARCHITECTURE.md:346` and `CONFIGURATION.md:93` say `delete_after_hours` expires rows
  whether or not they were sent; `purge_old_sent` only deletes sent ones.
- `worker.py:35` describes `max_consecutive_failures`, which only changes a log line.
- `pipeline.py:164` says that `stop()` closes the source; the loop does.
- A camera whose rate is unknown is not throttled.
- `request_stop` does not release the 60 s wait for a link in `open()`; `open()` may then wait as long again for the
  state of the pipeline (`pipeline.py:34`, under a limit of 90 s).
- Every reconnect behind a teardown that hangs abandons one more pipeline with its socket and decoder
  (`deepstream/runtime.py:763`); nothing limits how many.
- The shutdown timeout abandons a thread inside `read()`, and what it uses is released (`main.py:152`).

- No polygon drawn to the last pixel contains that pixel, since ray casting leaves out the right and lower border. A detection whose
  middle is there or outside the frame (`boxmot_tracker.py:422` does not clamp a box) is "unzoned"; `ExactlyOneZone` names the case.

Of the collector:

- `max_frames` counts frames that a later one of the same second overwrote, and starts anew with the process, while
  the files of the last run stay.
- Three keys of a session's `save:` are read and validated, and nothing uses them.
- A write that raises is reported as an error of the camera, and the sessions behind the one that raised do not get
  the frame: a session that always fails starves them.
- A label file whose write is interrupted is left empty, which a reader takes for background. `data.yaml` is rewritten at every start with the
  classes of that day; labels written before keep the old numbers, though `writer.py:53` calls it the "source of truth for
  every label".
- A DeepStream camera has no frame to save: its sessions collect nothing, without a warning.

Of the trackers:

- Pruning differs from a tracker that is not pruned when a track is revived in the one update in which it is
  both lost and removed; `PruneIsInvisible` names the case.
- A DeepStream runtime keeps its `StableIdMap` over reconnects while `nvtracker` numbers from the start, so that an
  id is used again for another thing, contrary to `stable_id.py:16`; `IdentityIsOne` names the case.
- BoxMOT counts updates and not time, and its tracker outlives a reconnect: what it has lost is as fresh after an
  hour without frames as before.
- `registry.close()` releases no tracker; a call that hangs inside the lock of TensorRT stalls every tracked camera.

Of the configuration:

- A rule's schedule with one end `null` is accepted and the rule runs all day, contrary to `rule.py:65` and the
  comment at line 79.
- A rule with two conditions that no detection can meet together (a class of one camera, a zone of another) never
  fires and nothing says so: `QuietRuleFires` is about rules with one.
- A webhook whose severities no rule has, and a DeepStream label set without a class of the camera, show up as silence
  or at the first `open()`.
- When none of a camera's classes is in the weights, the class filter is empty, which lets every class through. With a tracker, classes that
  `models.yaml` does not name come out as "unknown".
- A common option that an algorithm does not take is dropped without a word (`boxmot_registry.py:46` promises an error), and what is wrong inside
  a tracker's file is found only at start: `AcceptedStarts` names the case.
- The warning that `ds_infer_config` is ignored, and the error that every rule is disabled, may be derived from a
  placeholder, contrary to `strict.py:113`.
- A number that is NaN passes every range check. A zone may be called "unzoned" or "full_frame", the two names the
  code gives to detections outside of zones.
- A typo in a mapping with keys of several types raises `TypeError`, and a file that is not UTF-8 `UnicodeDecodeError`,
  instead of the list of errors. `load_config` documents `SystemExit` and raises `ConfigError`.
- README.md speaks of a lock per model; there is none.

## 7. What is not modelled

Real time: every delay and deadline is a step that may come at any time, so nothing is
said of how long something takes. Power loss: with `synchronous=NORMAL` the last commits may be
undone; the model's crash is the end of the process. A thread switch inside the probe of
a pipeline: `_rate_gate` is one step, and what two probes at once make of the credit is left out. Floating point: `Zones` multiplies the
quotient of the ray casting out, and the times of `ReadPacing` are integers. The contents of rows, reports and requests,
inference itself, ByteTrack's association (things are told apart by it) and overlays. In `DeepStream`, the deadline of
the probe and the parsing of metadata. The ReID models and the lock of TensorRT. The text of configs beyond
the patterns it matches, and the wording of errors. The debug tools are not part of the agent.

Three hazards have no property. An exception of the database ends the ingest task (`FlushRaises`): no property holds of
it. A `read()` that never returns is under no limit: `WedgeEnds` is about the calls that are. An alert whose write raises has
no row: the code has no answer to it, and `RowsAccounted` counts what is handed to `write()`.

## 8. The plan

Done, in this order: `Outbox` and `Delivery` with their proofs, `CameraLoop` with its
proofs, `DeepStream`, `RateGate`, `ReadPacing`, `Captures`, `Alerts` and `Zones` with their proofs, `FrameRate`,
`Collector` with its proofs, `Tracks`, `Reader`, `Config` and `Deployment`; then the proofs of durable writes and
the complete drain, of the evenly spread rate, those about `DeepStream`, `Tracks`, `Deployment` and the
ray casting of any polygon, and `CameraRuntime` with its three refinements.

Next, in order of importance:

1. What is reported of a device while its parts stop and fail.
2. A composition of `CameraLoop` with a runtime in one module, with the shutdown of `main` in between.
