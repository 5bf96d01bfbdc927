------------------------------- MODULE Tracks -------------------------------
(***************************************************************************)
(* The track ids of the detections: which tracker a camera gets             *)
(* (core/model/registry.py), BoxMOT's ByteTrack with the history that       *)
(* BoxMotTracker prunes behind every update, NvTracker inside a DeepStream   *)
(* pipeline, and the map from their numbers to the UUIDs that are stored     *)
(* (core/model/stable_id.py).                                               *)
(*                                                                         *)
(* ByteTrack is external, and modelled as docs/TRACKER_HISTORY.md describes *)
(* it: a thing that is seen is associated with its track, or with a lost     *)
(* one; what has been lost for too long is noted as removed, and leaves the  *)
(* lost pool one update later.                                              *)
(***************************************************************************)
EXTENDS Integers, FiniteSets, Functions

CONSTANTS
    Cameras,    \* cameras of models with use_tracker, one model for each runtime
    Runtime,    \* of each camera's model: "ultralytics" or "deepstream"
    Things,     \* what a camera may see; association tells them apart
    Pools,      \* with per_class a pool for each class, else one
    PoolOf,     \* the pool a thing belongs to
    Buffer,     \* updates a track may be lost for
    MaxUpdates, \* bound: updates of all trackers
    MaxStarts   \* bound: starts of the process, and pipelines of a camera

ASSUME TracksAssumption ==
    /\ Runtime \in [Cameras -> {"ultralytics", "deepstream"}]
    /\ IsFiniteSet(Things)
    /\ PoolOf \in [Things -> Pools]
    /\ Buffer \in Nat
    /\ MaxUpdates \in Nat
    /\ MaxStarts \in Nat

VARIABLES
    pools,      \* of each runner's tracker: active, lost and removed tracks
    nextId,     \* the number its next track gets
    updates,    \* its frame count, which only matters since its first frame
    ids,        \* StableIdMap of the runner: number -> UUID
    \* history
    starts, pipelines,  \* starts of the process, and pipelines of each camera in it
    unpruned,   \* the pools as they were without pruning
    revived,    \* a track was associated that had already been noted as removed
    longest,    \* the most updates any track was recovered after
    named       \* whose detection each UUID was stored with

tracker == <<pools, nextId, updates, ids, unpruned, revived>>
vars == <<tracker, starts, pipelines, longest, named>>

NoPools == [p \in Pools |-> [active |-> {}, lost |-> {}, removed |-> {}]]
NoIds == [n \in {} |-> n]

-----------------------------------------------------------------------------

\* Mutant of RunnerOf: cameras of one model share a runner, tracker or not.
RunnerOfModel(c) == CHOOSE d \in Cameras : Runtime[d] = Runtime[c]

\* load_for_cameras: a tracker has state, so each camera gets a runner of its own.  A
\* DeepStream camera has none, its runtime has the tracker and the map.
RunnerOf(c) == c

Known(pool) == pool.active \cup pool.lost
Recovered(pool, seen) == {t \in pool.lost : t.thing \in seen}
Matched(pool, seen) == {t \in Known(pool) : t.thing \in seen}
New(pool, seen) == seen \ {t.thing : t \in Known(pool)}

\* One update of ByteTrack: the lost pool is cleaned by the removals of earlier
\* updates, those of this one are appended behind that.
Associate(pool, seen, number, now) ==
    LET missed == Known(pool) \ Matched(pool, seen)
        expired == {t \in pool.lost \ Matched(pool, seen) : now - t.end > Buffer}
    IN  [active |-> {[t EXCEPT !.end = now] : t \in Matched(pool, seen)} \cup
                    {[id |-> number[x], thing |-> x, end |-> now] : x \in New(pool, seen)},
         lost |-> {t \in missed : t.id \notin pool.removed},
         removed |-> pool.removed \cup {t.id : t \in expired}]

\* Mutant of Prune: the whole history is cleared.
PruneAll(pool) == [pool EXCEPT !.removed = {}]

\* _prune_removed_history.
Prune(pool) == [pool EXCEPT !.removed = {i \in @ : \E t \in pool.lost : t.id = i}]

Pruned(r, now) == IF Runtime[r] = "ultralytics" THEN [p \in Pools |-> Prune(now[p])] ELSE now

\* The tracks that begin get the next numbers, in any order.
Numbers(r, begin) ==
    {f \in [begin -> nextId[r] .. nextId[r] + Cardinality(begin) - 1] : IsInjective(f)}

\* A UUID nobody has: no map gives a number a UUID twice.
Fresh(r, n) == <<r, starts, n>>

\* StableIdMap.get for every number that comes out of the tracker.
Mapped(r, numbers) ==
    [n \in numbers \cup DOMAIN ids[r] |-> IF n \in DOMAIN ids[r] THEN ids[r][n] ELSE Fresh(r, n)]

Seen(p, seen) == {x \in seen : PoolOf[x] = p}

Begins(r, seen) == UNION {New(pools[r][p], Seen(p, seen)) : p \in Pools}

Step(r, old, seen, number) ==
    [p \in Pools |-> Associate(old[p], Seen(p, seen), number, updates[r] + 1)]

\* The lost tracks that are found again.
Back(r, seen) == UNION {Recovered(pools[r][p], Seen(p, seen)) : p \in Pools}

WithinBound == FoldFunction(LAMBDA m, n : m + n, 0, updates) < MaxUpdates

\* A frame with the things that are seen, and the tracks that come out of it.
Frame(c, r, seen, number) ==
    LET step == Step(r, pools[r], seen, number)
        out == UNION {step[p].active : p \in Pools}
    IN  /\ updates' = [updates EXCEPT ![r] = @ + 1]
        /\ pools' = [pools EXCEPT ![r] = Pruned(r, step)]
        /\ nextId' = [nextId EXCEPT ![r] = @ + Cardinality(Begins(r, seen))]
        /\ ids' = [ids EXCEPT ![r] = Mapped(r, {t.id : t \in out})]
        /\ named' = named \cup
              {[uuid |-> ids'[r][t.id], camera |-> c, start |-> starts,
                pipeline |-> pipelines[c], number |-> t.id, thing |-> t.thing] : t \in out}
        /\ revived' = [revived EXCEPT ![r] = @ \/
               \E p \in Pools : \E t \in Recovered(pools[r][p], Seen(p, seen)) :
                   t.id \in pools[r][p].removed]
        /\ unpruned' = [unpruned EXCEPT ![r] = IF revived'[r] THEN @ ELSE Step(r, @, seen, number)]
        /\ \E g \in {updates[r] + 1 - t.end : t \in Back(r, seen)} \cup {longest} :
               /\ \A t \in Back(r, seen) : updates[r] + 1 - t.end <= g
               /\ longest <= g
               /\ longest' = g

\* ModelRunner.run and BoxMotTracker.update, or a frame of a DeepStream pipeline.
Update(c) ==
    /\ WithinBound
    /\ \E seen \in SUBSET Things : \E number \in Numbers(RunnerOf(c), Begins(RunnerOf(c), seen)) :
        Frame(c, RunnerOf(c), seen, number)
    /\ UNCHANGED <<starts, pipelines>>

\* A DeepStream camera reconnects: the pipeline, and with it nvtracker, is built
\* anew and numbers from the start; the runtime keeps its map.  BoxMOT's tracker
\* does not notice that its camera reconnects.
Reconnect(c) ==
    /\ Runtime[c] = "deepstream"
    /\ pipelines[c] < MaxStarts
    /\ pipelines' = [pipelines EXCEPT ![c] = @ + 1]
    /\ pools' = [pools EXCEPT ![c] = NoPools]
    /\ unpruned' = [unpruned EXCEPT ![c] = NoPools]
    /\ nextId' = [nextId EXCEPT ![c] = 1]
    /\ revived' = [revived EXCEPT ![c] = FALSE]
    /\ UNCHANGED <<updates, ids, starts, longest, named>>

\* The process starts again, with new runners.
Restart ==
    /\ starts < MaxStarts
    /\ starts' = starts + 1
    /\ pipelines' = [c \in Cameras |-> 1]
    /\ pools' = [r \in Cameras |-> NoPools]
    /\ unpruned' = pools'
    /\ nextId' = [r \in Cameras |-> 1]
    /\ ids' = [r \in Cameras |-> NoIds]
    /\ revived' = [r \in Cameras |-> FALSE]
    /\ UNCHANGED <<updates, longest, named>>

Init ==
    /\ pools = [r \in Cameras |-> NoPools]
    /\ unpruned = pools
    /\ nextId = [r \in Cameras |-> 1]
    /\ updates = [r \in Cameras |-> 0]
    /\ ids = [r \in Cameras |-> NoIds]
    /\ starts = 1 /\ pipelines = [c \in Cameras |-> 1]
    /\ revived = [r \in Cameras |-> FALSE]
    /\ longest = 0
    /\ named = {}

Next == Restart \/ \E c \in Cameras : Update(c) \/ Reconnect(c)

Spec == Init /\ [][Next]_vars

-----------------------------------------------------------------------------
(* Safety.                                                                 *)

Invisible(r) ==
    \A p \in Pools : /\ pools[r][p].active = unpruned[r][p].active
                     /\ pools[r][p].lost = unpruned[r][p].lost

\* The absence window, which is an update at least: a track is lost before it can be
\* noted as removed.
Window == IF Buffer = 0 THEN 1 ELSE Buffer

\* "Identical tracking outputs": the pruned history makes no difference to what is
\* tracked and to what can still be recovered, unless a track was associated in the
\* one update in which it is both lost and noted as removed; and even then none is
\* recovered later than within the absence window, the update that notes it as
\* removed and the one that drops it.
PruneIsInvisible ==
    /\ \A r \in Cameras : revived[r] \/ Invisible(r)
    /\ longest <= Window + 2

\* "IDs from a previous run can never resurface", and nothing downstream takes two
\* things for one: a UUID stands for one thing of one camera, except that a DeepStream
\* camera keeps its map when it reconnects and NvTracker numbers from the start.
IdentityIsOne ==
    \A a, b \in named :
        a.uuid = b.uuid =>
            /\ a.camera = b.camera /\ a.start = b.start
            /\ a.thing = b.thing \/ (Runtime[a.camera] = "deepstream" /\ a.pipeline # b.pipeline)
=============================================================================
