---------------------------- MODULE TracksProofs ----------------------------
(***************************************************************************)
(* Proofs about Tracks, for any number of cameras, things and pools, any    *)
(* absence window, and any number of updates, reconnects and restarts.      *)
(***************************************************************************)
EXTENDS Tracks, FiniteSetTheorems, TLAPS

Track == [id : Nat, thing : Things, end : Nat]

Pool == [active : SUBSET Track, lost : SUBSET Track, removed : SUBSET Nat]

TypeOK ==
    /\ pools \in [Cameras -> [Pools -> Pool]]
    /\ unpruned \in [Cameras -> [Pools -> Pool]]
    /\ nextId \in [Cameras -> Nat]
    /\ updates \in [Cameras -> Nat]
    /\ DOMAIN ids = Cameras
    /\ starts \in Nat
    /\ pipelines \in [Cameras -> Nat]
    /\ revived \in [Cameras -> BOOLEAN]
    /\ longest \in Int

-----------------------------------------------------------------------------
(* One pool.                                                               *)

\* Pruning leaves the tracks alone, and of the removals those of lost tracks.
LEMMA PruneEffect ==
    ASSUME NEW pool \in Pool
    PROVE  /\ Prune(pool) \in Pool
           /\ Prune(pool).active = pool.active
           /\ Prune(pool).lost = pool.lost
           /\ Prune(pool).removed = {i \in pool.removed : \E t \in pool.lost : t.id = i}
BY DEF Prune, Pool

\* Either runtime's pools hold the tracks of the update.
LEMMA PrunedEffect ==
    ASSUME NEW r \in Cameras, NEW step \in [Pools -> Pool]
    PROVE  /\ Pruned(r, step) \in [Pools -> Pool]
           /\ \A p \in Pools :
                /\ Pruned(r, step)[p].active = step[p].active
                /\ Pruned(r, step)[p].lost = step[p].lost
                /\ Pruned(r, step)[p].removed \subseteq step[p].removed
                /\ \A t \in step[p].lost : t.id \in step[p].removed => t.id \in Pruned(r, step)[p].removed
<1>1. CASE Runtime[r] = "ultralytics"
    <2>1. Pruned(r, step) = [p \in Pools |-> Prune(step[p])]
        BY <1>1 DEF Pruned
    <2>2. ASSUME NEW p \in Pools
          PROVE  /\ Prune(step[p]) \in Pool
                 /\ Prune(step[p]).active = step[p].active
                 /\ Prune(step[p]).lost = step[p].lost
                 /\ Prune(step[p]).removed = {i \in step[p].removed : \E t \in step[p].lost : t.id = i}
        BY PruneEffect
    <2> QED
        BY <2>1, <2>2
<1>2. CASE Runtime[r] # "ultralytics"
    BY <1>2 DEF Pruned
<1> QED
    BY <1>1, <1>2

\* The tracks a frame finds or begins are active, the others that were known and had
\* not been noted as removed before are lost.
LEMMA AssociateEffect ==
    ASSUME NEW pool \in Pool, NEW seen \in SUBSET Things, NEW now \in Nat, NEW number,
           \A x \in New(pool, seen) : number[x] \in Nat,
           NEW next, next = Associate(pool, seen, number, now)
    PROVE  /\ next \in Pool
           /\ \A t \in next.active :
                /\ t.end = now /\ t.thing \in seen
                /\ \/ \E u \in Known(pool) : u.thing = t.thing /\ u.id = t.id
                   \/ t.thing \in New(pool, seen) /\ t.id = number[t.thing]
           /\ \A t \in next.lost :
                t \in Known(pool) /\ t.thing \notin seen /\ t.id \notin pool.removed
           /\ \A t \in Known(pool) :
                t.thing \notin seen /\ t.id \notin pool.removed => t \in next.lost
           /\ \A i \in Nat : i \in next.removed <=>
                \/ i \in pool.removed
                \/ \E t \in pool.lost : t.id = i /\ t.thing \notin seen /\ now - t.end > Buffer
<1> DEFINE found == {[t EXCEPT !.end = now] : t \in Matched(pool, seen)}
           begun == {[id |-> number[x], thing |-> x, end |-> now] : x \in New(pool, seen)}
           missed == Known(pool) \ Matched(pool, seen)
           expired == {t \in pool.lost \ Matched(pool, seen) : now - t.end > Buffer}
<1>1. next = [active |-> found \cup begun,
           lost |-> {t \in missed : t.id \notin pool.removed},
           removed |-> pool.removed \cup {t.id : t \in expired}]
    BY DEF Associate
<1>2. Known(pool) \subseteq Track /\ pool.lost \subseteq Known(pool) /\ pool.removed \subseteq Nat
    BY DEF Known, Pool
<1>3. ASSUME NEW t \in found
      PROVE  t \in Track /\ t.end = now /\ t.thing \in seen
             /\ \E u \in Known(pool) : u.thing = t.thing /\ u.id = t.id
    <2>1. PICK u \in Matched(pool, seen) : t = [u EXCEPT !.end = now]
        OBVIOUS
    <2>2. u \in Known(pool) /\ u.thing \in seen /\ u \in Track
        BY <1>2 DEF Matched
    <2> QED
        BY <2>1, <2>2 DEF Track
<1>4. ASSUME NEW t \in begun
      PROVE  t \in Track /\ t.end = now /\ t.thing \in seen
             /\ t.thing \in New(pool, seen) /\ t.id = number[t.thing]
    <2>1. PICK x \in New(pool, seen) : t = [id |-> number[x], thing |-> x, end |-> now]
        OBVIOUS
    <2>2. x \in seen /\ x \in Things
        BY DEF New
    <2> QED
        BY <2>1, <2>2 DEF Track
<1>5. next.active = found \cup begun /\ next.lost = {t \in missed : t.id \notin pool.removed}
      /\ next.removed = pool.removed \cup {t.id : t \in expired}
    BY <1>1
<1>6. \A t \in Known(pool) : t \in Matched(pool, seen) <=> t.thing \in seen
    BY DEF Matched
<1>7. next \in Pool
    <2>1. found \cup begun \in SUBSET Track
        BY <1>3, <1>4
    <2>2. {t \in missed : t.id \notin pool.removed} \in SUBSET Track
        BY <1>2
    <2>3. {t.id : t \in expired} \in SUBSET Nat
        BY <1>2 DEF Track
    <2> HIDE DEF found, begun, missed, expired
    <2> QED
        BY <1>1, <1>2, <2>1, <2>2, <2>3 DEF Pool
<1>8. \A t \in next.active : /\ t.end = now /\ t.thing \in seen
                          /\ \/ \E u \in Known(pool) : u.thing = t.thing /\ u.id = t.id
                             \/ t.thing \in New(pool, seen) /\ t.id = number[t.thing]
    <2> HIDE DEF found, begun
    <2> QED
        BY <1>3, <1>4, <1>5
<1>9. \A t \in next.lost : t \in Known(pool) /\ t.thing \notin seen /\ t.id \notin pool.removed
    BY <1>5, <1>6
<1>10. \A t \in Known(pool) : t.thing \notin seen /\ t.id \notin pool.removed => t \in next.lost
    BY <1>5, <1>6
<1>11. \A i \in Nat : i \in next.removed <=>
            \/ i \in pool.removed
            \/ \E t \in pool.lost : t.id = i /\ t.thing \notin seen /\ now - t.end > Buffer
    BY <1>2, <1>5, <1>6
<1> QED
    BY <1>7, <1>8, <1>9, <1>10, <1>11

\* A number is one track's, below the next one, and a track is of its thing's pool.
Numbered(r) ==
    \A p \in Pools : \A t \in Known(pools[r][p]) :
        /\ t.id < nextId[r]
        /\ PoolOf[t.thing] = p
        /\ \A q \in Pools : \A u \in Known(pools[r][q]) : t.id = u.id => t = u

-----------------------------------------------------------------------------
(* One frame.                                                              *)

\* The numbers of the tracks that begin are new and different.
LEMMA NewNumbers ==
    ASSUME TypeOK, NEW r \in Cameras, NEW seen \in SUBSET Things,
           NEW number \in Numbers(r, Begins(r, seen))
    PROVE  /\ Cardinality(Begins(r, seen)) \in Nat
           /\ \A x \in Begins(r, seen) :
                /\ number[x] \in Nat
                /\ nextId[r] <= number[x]
                /\ number[x] < nextId[r] + Cardinality(Begins(r, seen))
           /\ \A x, y \in Begins(r, seen) : number[x] = number[y] => x = y
<1> DEFINE begin == Begins(r, seen)
           last == nextId[r] + Cardinality(begin) - 1
<1>1. begin \subseteq Things
    BY DEF Begins, New, Seen
<1>2. Cardinality(begin) \in Nat
    BY <1>1, TracksAssumption, FS_Subset, FS_CardinalityType
<1>3. number \in [begin -> nextId[r] .. last] /\ IsInjective(number)
    BY DEF Numbers
<1>4. \A x, y \in begin : number[x] = number[y] => x = y
    BY <1>3 DEF IsInjective
<1>5. nextId[r] \in Nat
    BY DEF TypeOK
<1>6. \A x \in begin : number[x] \in nextId[r] .. last
    BY <1>3
<1> HIDE DEF begin
<1>7. \A x \in begin : number[x] \in Nat /\ nextId[r] <= number[x]
                       /\ number[x] < nextId[r] + Cardinality(begin)
    BY <1>2, <1>5, <1>6
<1> QED
    BY <1>2, <1>4, <1>7 DEF begin

\* What a frame makes of a pool, as AssociateEffect says.
LEMMA StepPool ==
    ASSUME TypeOK, NEW r \in Cameras, NEW seen \in SUBSET Things,
           NEW number \in Numbers(r, Begins(r, seen)),
           NEW old \in [Pools -> Pool], NEW p \in Pools,
           Known(old[p]) = Known(pools[r][p]),
           NEW pool, pool = Step(r, old, seen, number)[p]
    PROVE  /\ pool \in Pool
           /\ \A t \in pool.active :
                /\ t.end = updates[r] + 1 /\ t.thing \in Seen(p, seen)
                /\ \/ \E u \in Known(old[p]) : u.thing = t.thing /\ u.id = t.id
                   \/ t.thing \in Begins(r, seen) /\ t.id = number[t.thing]
           /\ \A t \in pool.lost :
                t \in Known(old[p]) /\ t.thing \notin Seen(p, seen) /\ t.id \notin old[p].removed
           /\ \A t \in Known(old[p]) :
                t.thing \notin Seen(p, seen) /\ t.id \notin old[p].removed => t \in pool.lost
           /\ \A i \in Nat : i \in pool.removed <=>
                \/ i \in old[p].removed
                \/ \E t \in old[p].lost : /\ t.id = i /\ t.thing \notin Seen(p, seen)
                                          /\ updates[r] + 1 - t.end > Buffer
<1>1. old[p] \in Pool /\ Seen(p, seen) \in SUBSET Things /\ updates[r] + 1 \in Nat
    BY DEF TypeOK, Seen
<1>2. New(old[p], Seen(p, seen)) \subseteq Begins(r, seen)
    BY DEF Begins, New
<1>3. \A x \in New(old[p], Seen(p, seen)) : number[x] \in Nat
    BY <1>2, NewNumbers
<1>4. pool = Associate(old[p], Seen(p, seen), number, updates[r] + 1)
    BY DEF Step
<1>5. /\ pool \in Pool
      /\ \A t \in pool.active :
           /\ t.end = updates[r] + 1 /\ t.thing \in Seen(p, seen)
           /\ \/ \E u \in Known(old[p]) : u.thing = t.thing /\ u.id = t.id
              \/ t.thing \in New(old[p], Seen(p, seen)) /\ t.id = number[t.thing]
    BY <1>1, <1>3, <1>4, AssociateEffect
<1>6. /\ \A t \in pool.lost :
           t \in Known(old[p]) /\ t.thing \notin Seen(p, seen) /\ t.id \notin old[p].removed
      /\ \A t \in Known(old[p]) :
           t.thing \notin Seen(p, seen) /\ t.id \notin old[p].removed => t \in pool.lost
    BY <1>1, <1>3, <1>4, AssociateEffect
<1>7. \A i \in Nat : i \in pool.removed <=>
        \/ i \in old[p].removed
        \/ \E t \in old[p].lost : /\ t.id = i /\ t.thing \notin Seen(p, seen)
                                  /\ updates[r] + 1 - t.end > Buffer
    <2> DEFINE now == updates[r] + 1
               here == Seen(p, seen)
    <2>1. /\ old[p] \in Pool /\ here \in SUBSET Things /\ now \in Nat
          /\ \A x \in New(old[p], here) : number[x] \in Nat
          /\ pool = Associate(old[p], here, number, now)
        BY <1>1, <1>3, <1>4
    <2>2. updates[r] \in Nat /\ Buffer \in Nat /\ \A t \in old[p].lost : t.end \in Nat
        BY <1>1, TracksAssumption DEF TypeOK, Pool, Track
    <2> HIDE DEF now, here
    <2>3. \A i \in Nat : i \in pool.removed <=>
            \/ i \in old[p].removed
            \/ \E t \in old[p].lost : t.id = i /\ t.thing \notin here /\ now - t.end > Buffer
        BY <2>1, AssociateEffect
    <2> QED
        BY <2>2, <2>3 DEF now, here
<1> QED
    BY <1>2, <1>5, <1>6, <1>7

\* A track of a frame goes on with the number of a known one, or it begins.
LEMMA StepNumbered ==
    ASSUME TypeOK, NEW r \in Cameras, Numbered(r), NEW seen \in SUBSET Things,
           NEW number \in Numbers(r, Begins(r, seen)),
           NEW step, step = Step(r, pools[r], seen, number)
    PROVE  /\ step \in [Pools -> Pool]
           /\ \A p \in Pools : \A t \in Known(step[p]) :
                /\ PoolOf[t.thing] = p
                /\ t.id < nextId[r] + Cardinality(Begins(r, seen))
                /\ \/ \E u \in Known(pools[r][p]) : u.thing = t.thing /\ u.id = t.id
                   \/ t.thing \in Begins(r, seen) /\ t.id = number[t.thing]
                /\ \A q \in Pools : \A u \in Known(step[q]) : t.id = u.id => t = u
<1> DEFINE next == nextId[r] + Cardinality(Begins(r, seen))
           From(p, t) == \/ \E u \in Known(pools[r][p]) : u.thing = t.thing /\ u.id = t.id
                         \/ t.thing \in Begins(r, seen) /\ t.id = number[t.thing]
<1>1. pools[r] \in [Pools -> Pool] /\ nextId[r] \in Nat
    BY DEF TypeOK
<1>2. ASSUME NEW p \in Pools
      PROVE  /\ step[p] \in Pool
             /\ \A t \in step[p].active :
                    t.end = updates[r] + 1 /\ t.thing \in Seen(p, seen) /\ From(p, t)
             /\ \A t \in step[p].lost : t \in Known(pools[r][p]) /\ t.thing \notin Seen(p, seen)
    BY <1>1, StepPool
<1>3. step \in [Pools -> Pool]
    BY <1>2 DEF Step
<1>4. ASSUME NEW p \in Pools, NEW t \in Known(step[p])
      PROVE  t \in Track /\ PoolOf[t.thing] = p /\ From(p, t)
    <2>1. CASE t \in step[p].active
        BY <1>2, <2>1 DEF Pool, Seen
    <2>2. CASE t \in step[p].lost
        BY <1>2, <2>2 DEF Pool, Numbered
    <2> QED
        BY <2>1, <2>2 DEF Known
<1>5. ASSUME NEW p \in Pools, NEW t, From(p, t)
      PROVE  t.id < next
    <2>1. Cardinality(Begins(r, seen)) \in Nat
        BY NewNumbers
    <2>2. CASE \E u \in Known(pools[r][p]) : u.thing = t.thing /\ u.id = t.id
        <3>1. PICK u \in Known(pools[r][p]) : u.thing = t.thing /\ u.id = t.id
            BY <2>2
        <3>2. u.id < nextId[r] /\ u \in Track
            BY <1>1 DEF Numbered, Known, Pool
        <3> QED
            BY <1>1, <2>1, <3>1, <3>2 DEF Track
    <2>3. CASE t.thing \in Begins(r, seen) /\ t.id = number[t.thing]
        BY <2>3, NewNumbers
    <2> QED
        BY <1>5, <2>2, <2>3
<1>6. ASSUME NEW p \in Pools, NEW t, From(p, t), NEW q \in Pools, NEW u, From(q, u), t.id = u.id
      PROVE  t.thing = u.thing
    <2>1. CASE \E v \in Known(pools[r][p]) : v.thing = t.thing /\ v.id = t.id
        <3>1. PICK v \in Known(pools[r][p]) : v.thing = t.thing /\ v.id = t.id
            BY <2>1
        <3>2. v.id < nextId[r] /\ v \in Track
            BY <1>1 DEF Numbered, Known, Pool
        <3>3. ~(u.thing \in Begins(r, seen) /\ u.id = number[u.thing])
            BY <1>1, <1>6, <3>1, <3>2, NewNumbers DEF Track
        <3>4. PICK w \in Known(pools[r][q]) : w.thing = u.thing /\ w.id = u.id
            BY <1>6, <3>3
        <3> QED
            BY <1>6, <3>1, <3>4 DEF Numbered
    <2>2. CASE t.thing \in Begins(r, seen) /\ t.id = number[t.thing]
        <3>1. ASSUME NEW w \in Known(pools[r][q]), w.id = u.id  PROVE FALSE
            <4>1. w.id < nextId[r] /\ w \in Track
                BY <1>1 DEF Numbered, Known, Pool
            <4>2. nextId[r] <= number[t.thing]
                BY <2>2, NewNumbers
            <4>3. w.id = number[t.thing]
                BY <1>6, <2>2, <3>1
            <4> QED
                BY <1>1, <4>1, <4>2, <4>3 DEF Track
        <3>2. u.thing \in Begins(r, seen) /\ u.id = number[u.thing]
            BY <1>6, <3>1
        <3> QED
            BY <1>6, <2>2, <3>2, NewNumbers
    <2> QED
        BY <1>6, <2>1, <2>2
<1>7. ASSUME NEW p \in Pools, NEW t \in Known(step[p]), NEW q \in Pools, NEW u \in Known(step[q]),
             t.id = u.id
      PROVE  t = u
    <2> HIDE DEF From
    <2>1. t.thing = u.thing /\ p = q /\ t \in Track /\ u \in Track
        BY <1>4, <1>6, <1>7
    <2>2. CASE t \in step[p].active /\ u \in step[p].active
        <3>1. t.end = u.end
            BY <1>2, <2>2
        <3> QED
            BY <1>7, <2>1, <3>1 DEF Track
    <2>3. CASE t \in step[p].lost /\ u \in step[p].lost
        BY <1>2, <1>7, <2>3 DEF Numbered
    <2>4. t \in step[p].active <=> u \in step[p].active
        BY <1>2, <2>1 DEF Known
    <2> QED
        BY <2>1, <2>2, <2>3, <2>4 DEF Known
<1>8. \A p \in Pools : \A t \in Known(step[p]) : t.id < next
    BY <1>4, <1>5
<1> QED
    BY <1>3, <1>4, <1>7, <1>8

\* A lost track is in its absence window, or has been noted as removed.
Timely(r) ==
    \A p \in Pools :
        /\ \A t \in pools[r][p].active : t.end = updates[r]
        /\ \A t \in pools[r][p].lost :
            /\ updates[r] - t.end <= Window + 1
            /\ updates[r] - t.end > Window => t.id \in pools[r][p].removed

\* Every map has its UUIDs from this start.
Own(r) == \A n \in DOMAIN ids[r] : ids[r][n] = <<r, starts, n>>

\* Pruning has dropped no removal of a lost track, and none is of an active one.
Alike(r) ==
    revived[r] \/ \A p \in Pools :
        /\ pools[r][p].active = unpruned[r][p].active
        /\ pools[r][p].lost = unpruned[r][p].lost
        /\ pools[r][p].removed \subseteq unpruned[r][p].removed
        /\ \A t \in pools[r][p].lost : t.id \in unpruned[r][p].removed => t.id \in pools[r][p].removed
        /\ \A t \in pools[r][p].active : t.id \notin unpruned[r][p].removed
        /\ \A i \in unpruned[r][p].removed : i < nextId[r]

\* What was stored: the UUID says which camera, start and number; a number that is
\* used now belongs to the thing it was stored with.
Told(a) ==
    /\ a.camera \in Cameras /\ a.start \in Nat /\ a.pipeline \in Nat /\ a.number \in Nat
    /\ a.uuid = <<a.camera, a.start, a.number>>
    /\ a.start <= starts
    /\ a.start = starts => a.pipeline <= pipelines[a.camera]
    /\ Runtime[a.camera] = "ultralytics" => a.pipeline = 1
    /\ a.start = starts /\ a.pipeline = pipelines[a.camera] =>
        /\ a.number < nextId[a.camera]
        /\ \A p \in Pools : \A t \in Known(pools[a.camera][p]) : t.id = a.number => t.thing = a.thing

\* A number of a pipeline stands for one thing.
OneThing ==
    \A a, b \in named :
        a.camera = b.camera /\ a.start = b.start /\ a.pipeline = b.pipeline /\ a.number = b.number
            => a.thing = b.thing

-----------------------------------------------------------------------------

\* A frame changes only its runner.
LEMMA FrameEffect ==
    ASSUME TypeOK, NEW r \in Cameras, NEW seen \in SUBSET Things, NEW number, Frame(r, r, seen, number),
           NEW step, step = Step(r, pools[r], seen, number),
           step \in [Pools -> Pool]
    PROVE  /\ updates'[r] = updates[r] + 1
           /\ nextId'[r] = nextId[r] + Cardinality(Begins(r, seen))
           /\ pools'[r] = Pruned(r, step)
           /\ \A p \in Pools : Known(pools'[r][p]) = Known(step[p])
           /\ \A q \in Cameras \ {r} : /\ updates'[q] = updates[q]
                                       /\ nextId'[q] = nextId[q]
                                       /\ pools'[q] = pools[q]
                                       /\ unpruned'[q] = unpruned[q]
                                       /\ revived'[q] = revived[q]
                                       /\ ids'[q] = ids[q]
<1>1. /\ updates' = [updates EXCEPT ![r] = @ + 1]
      /\ pools' = [pools EXCEPT ![r] = Pruned(r, step)]
      /\ nextId' = [nextId EXCEPT ![r] = @ + Cardinality(Begins(r, seen))]
      /\ \E x : ids' = [ids EXCEPT ![r] = x]
      /\ \E x : revived' = [revived EXCEPT ![r] = x]
      /\ \E x : unpruned' = [unpruned EXCEPT ![r] = x]
    BY Zenon DEF Frame
<1>2. \A p \in Pools : Known(Pruned(r, step)[p]) = Known(step[p])
    BY PrunedEffect DEF Known
<1>3. /\ updates'[r] = updates[r] + 1
      /\ nextId'[r] = nextId[r] + Cardinality(Begins(r, seen))
      /\ pools'[r] = Pruned(r, step)
    BY <1>1 DEF TypeOK
<1>4. \A q \in Cameras \ {r} : /\ updates'[q] = updates[q]
                               /\ nextId'[q] = nextId[q]
                               /\ pools'[q] = pools[q]
    BY <1>1 DEF TypeOK
<1>5. \A q \in Cameras \ {r} : /\ unpruned'[q] = unpruned[q]
                               /\ revived'[q] = revived[q]
                               /\ ids'[q] = ids[q]
    BY <1>1 DEF TypeOK
<1> QED
    BY <1>2, <1>3, <1>4, <1>5

\* The numbers stay one track's, and the tracks stay in time.
LEMMA FrameTracks ==
    ASSUME TypeOK, NEW r \in Cameras, Numbered(r), Timely(r),
           NEW seen \in SUBSET Things, NEW number \in Numbers(r, Begins(r, seen)),
           Frame(r, r, seen, number)
    PROVE  Numbered(r)' /\ Timely(r)'
<1> DEFINE step == Step(r, pools[r], seen, number)
<1>1. /\ step \in [Pools -> Pool]
      /\ \A p \in Pools : \A t \in Known(step[p]) :
            /\ PoolOf[t.thing] = p
            /\ t.id < nextId[r] + Cardinality(Begins(r, seen))
            /\ \A q \in Pools : \A u \in Known(step[q]) : t.id = u.id => t = u
    BY StepNumbered
<1>2. /\ updates'[r] = updates[r] + 1
      /\ nextId'[r] = nextId[r] + Cardinality(Begins(r, seen))
      /\ pools'[r] = Pruned(r, step)
      /\ \A p \in Pools : Known(pools'[r][p]) = Known(step[p])
    BY <1>1, FrameEffect
<1>3. Numbered(r)'
    <2> HIDE DEF step
    <2> QED
        BY <1>1, <1>2 DEF Numbered
<1>0. pools[r] \in [Pools -> Pool]
    BY DEF TypeOK
<1>4. ASSUME NEW p \in Pools, NEW t \in step[p].active
      PROVE  t.end = updates[r] + 1
    BY <1>0, StepPool
<1>5. updates[r] \in Nat /\ Window \in Nat /\ Window >= Buffer /\ Window >= 1
    BY TracksAssumption DEF TypeOK, Window
<1>6. ASSUME NEW p \in Pools, NEW t \in step[p].lost
      PROVE  /\ updates[r] + 1 - t.end <= Window + 1
             /\ updates[r] + 1 - t.end > Window => t.id \in step[p].removed
    <2>1. /\ t \in Known(pools[r][p]) /\ t.thing \notin Seen(p, seen)
          /\ t.id \notin pools[r][p].removed
        BY <1>0, StepPool
    <2>2. \A i \in Nat :
            (\E u \in pools[r][p].lost : /\ u.id = i /\ u.thing \notin Seen(p, seen)
                                         /\ updates[r] + 1 - u.end > Buffer)
                => i \in step[p].removed
        BY <1>0, StepPool
    <2>3. t \in Track
        BY <2>1 DEF TypeOK, Pool, Known
    <2>4. CASE t \in pools[r][p].lost
        <3>1. updates[r] - t.end <= Window
            BY <2>1, <2>4, <2>3, <1>5 DEF Timely, Track
        <3>2. updates[r] + 1 - t.end > Window => updates[r] + 1 - t.end > Buffer
            BY <1>5, <2>3, TracksAssumption DEF Track
        <3>3. updates[r] + 1 - t.end > Buffer => t.id \in step[p].removed
            BY <2>1, <2>2, <2>3, <2>4 DEF Track
        <3> QED
            BY <1>5, <2>3, <3>1, <3>2, <3>3 DEF Track
    <2>5. CASE t \in pools[r][p].active
        <3>1. t.end = updates[r]
            BY <2>5 DEF Timely
        <3> QED
            BY <1>5, <3>1
    <2> QED
        BY <2>1, <2>4, <2>5 DEF Known
<1>7. Timely(r)'
    <2> HIDE DEF step
    <2>1. Window' = Window
        BY DEF Window
    <2>2. ASSUME NEW p \in Pools
          PROVE  /\ pools'[r][p].active = step[p].active
                 /\ pools'[r][p].lost = step[p].lost
                 /\ \A t \in step[p].lost : t.id \in step[p].removed => t.id \in pools'[r][p].removed
        BY <1>1, <1>2, PrunedEffect
    <2>3. ASSUME NEW p \in Pools, NEW t \in pools'[r][p].active
          PROVE  t.end = updates'[r]
        BY <1>2, <1>4, <2>2
    <2>4. ASSUME NEW p \in Pools, NEW t \in pools'[r][p].lost
          PROVE  /\ updates'[r] - t.end <= Window + 1
                 /\ updates'[r] - t.end > Window => t.id \in pools'[r][p].removed
        <3>1. t \in step[p].lost
            BY <2>2
        <3>2. /\ updates[r] + 1 - t.end <= Window + 1
              /\ updates[r] + 1 - t.end > Window => t.id \in step[p].removed
            BY <1>6, <3>1
        <3>3. t.id \in step[p].removed => t.id \in pools'[r][p].removed
            BY <2>2, <3>1
        <3>4. t.end \in Nat
            BY <1>1, <3>1 DEF Pool, Track
        <3> QED
            BY <1>2, <1>5, <3>2, <3>3, <3>4
    <2> QED
        BY <2>1, <2>3, <2>4 DEF Timely
<1> QED
    BY <1>3, <1>7

\* Only a DeepStream camera has more than one pipeline.
Pipelines == \A c \in Cameras : Runtime[c] = "ultralytics" => pipelines[c] = 1

\* Pruning stays invisible: what a frame makes of the pools does not depend on the
\* removals that were dropped.
LEMMA FrameAlike ==
    ASSUME TypeOK, NEW r \in Cameras, Numbered(r), Alike(r),
           NEW seen \in SUBSET Things, NEW number \in Numbers(r, Begins(r, seen)),
           Frame(r, r, seen, number)
    PROVE  Alike(r)' /\ unpruned'[r] \in [Pools -> Pool]
<1> DEFINE step == Step(r, pools[r], seen, number)
           wide == Step(r, unpruned[r], seen, number)
<1>1. pools[r] \in [Pools -> Pool] /\ unpruned[r] \in [Pools -> Pool]
    BY DEF TypeOK
<1>2. step \in [Pools -> Pool]
    BY StepNumbered
<1>3. /\ nextId'[r] = nextId[r] + Cardinality(Begins(r, seen))
      /\ pools'[r] = Pruned(r, step)
    BY <1>2, FrameEffect
<1>4. unpruned'[r] = IF revived'[r] THEN unpruned[r] ELSE wide
    BY DEF Frame, TypeOK
<1>5. CASE revived'[r]
    <2>1. unpruned'[r] = unpruned[r]
        BY <1>4, <1>5
    <2> QED
        BY <1>1, <1>5, <2>1 DEF Alike
<1>6. CASE ~revived'[r]
    <2>1. /\ ~revived[r]
          /\ \A p \in Pools : \A t \in Recovered(pools[r][p], Seen(p, seen)) :
                t.id \notin pools[r][p].removed
        <3>1. revived'[r] = (revived[r] \/ \E p \in Pools :
                    \E t \in Recovered(pools[r][p], Seen(p, seen)) : t.id \in pools[r][p].removed)
            BY DEF Frame, TypeOK
        <3> QED
            BY <1>6, <3>1
    <2>2. unpruned'[r] = wide
        BY <1>4, <1>6
    <2>3. ASSUME NEW p \in Pools
          PROVE  /\ wide[p] \in Pool
                 /\ step[p].active = wide[p].active
                 /\ step[p].lost = wide[p].lost
                 /\ step[p].removed \subseteq wide[p].removed
                 /\ \A t \in step[p].lost : t.id \in wide[p].removed => t.id \in step[p].removed
                 /\ \A t \in step[p].active : t.id \notin wide[p].removed
                 /\ \A i \in wide[p].removed : i < nextId'[r]
        <3> DEFINE here == Seen(p, seen)
                   known == Known(pools[r][p])
        <3>1. /\ pools[r][p].active = unpruned[r][p].active
              /\ pools[r][p].lost = unpruned[r][p].lost
              /\ pools[r][p].removed \subseteq unpruned[r][p].removed
              /\ \A t \in pools[r][p].lost :
                    t.id \in unpruned[r][p].removed => t.id \in pools[r][p].removed
              /\ \A t \in pools[r][p].active : t.id \notin unpruned[r][p].removed
              /\ \A i \in unpruned[r][p].removed : i < nextId[r]
            BY <2>1 DEF Alike
        <3>2. Known(unpruned[r][p]) = known
            BY <3>1 DEF Known
        <3>3. /\ wide[p] \in Pool
              /\ \A i \in Nat : i \in wide[p].removed <=>
                    \/ i \in unpruned[r][p].removed
                    \/ \E t \in unpruned[r][p].lost : /\ t.id = i /\ t.thing \notin Seen(p, seen)
                                                      /\ updates[r] + 1 - t.end > Buffer
            BY <1>1, <3>2, StepPool
        <3>4. \A i \in Nat : i \in step[p].removed <=>
                    \/ i \in pools[r][p].removed
                    \/ \E t \in pools[r][p].lost : /\ t.id = i /\ t.thing \notin Seen(p, seen)
                                                   /\ updates[r] + 1 - t.end > Buffer
            BY <1>1, StepPool
        <3>5. /\ \A t \in step[p].active :
                    /\ t.thing \in here
                    /\ \/ \E u \in known : u.thing = t.thing /\ u.id = t.id
                       \/ t.thing \in Begins(r, seen) /\ t.id = number[t.thing]
              /\ \A t \in step[p].lost :
                    t \in known /\ t.thing \notin here /\ t.id \notin pools[r][p].removed
            BY <1>1, StepPool
        <3>6. /\ known \subseteq Track /\ pools[r][p].lost \subseteq known
              /\ step[p].active \subseteq Track /\ step[p].lost \subseteq Track
              /\ step[p].removed \subseteq Nat /\ wide[p].removed \subseteq Nat
            BY <1>1, <1>2, <3>3 DEF Known, Pool
        <3>7. \A t \in known : t.id \in pools[r][p].removed <=> t.id \in unpruned[r][p].removed
            BY <3>1 DEF Known
        <3>8. \A t \in known : /\ t.id < nextId[r]
                               /\ \A u \in known : t.id = u.id => t = u
            BY DEF Numbered
        <3>9. step[p].active = wide[p].active /\ step[p].lost = wide[p].lost
            <4>1. /\ Matched(unpruned[r][p], here) = Matched(pools[r][p], here)
                  /\ New(unpruned[r][p], here) = New(pools[r][p], here)
                BY <3>2 DEF Matched, New
            <4>2. /\ step[p] = Associate(pools[r][p], here, number, updates[r] + 1)
                  /\ wide[p] = Associate(unpruned[r][p], here, number, updates[r] + 1)
                BY DEF Step
            <4>3. step[p].active = wide[p].active
                BY <4>1, <4>2 DEF Associate
            <4>4. /\ step[p].lost = {t \in known \ Matched(pools[r][p], here) :
                                        t.id \notin pools[r][p].removed}
                  /\ wide[p].lost = {t \in known \ Matched(pools[r][p], here) :
                                        t.id \notin unpruned[r][p].removed}
                BY <3>2, <4>1, <4>2 DEF Associate
            <4> QED
                BY <3>7, <4>3, <4>4
        <3> HIDE DEF here, known, step, wide
        <3>10. step[p].removed \subseteq wide[p].removed
            BY <3>1, <3>3, <3>4, <3>6
        <3>11. ASSUME NEW t \in step[p].lost, t.id \in wide[p].removed
               PROVE  t.id \in step[p].removed
            <4>1. t.id \in Nat /\ t.id \notin unpruned[r][p].removed
                BY <3>5, <3>6, <3>7 DEF Track
            <4> QED
                BY <3>1, <3>3, <3>4, <3>11, <4>1
        <3>12. ASSUME NEW i \in wide[p].removed
               PROVE  /\ i < nextId[r]
                      /\ \A u \in known : u.thing \in here => u.id # i
            <4>1. CASE i \in unpruned[r][p].removed
                <5>1. ASSUME NEW u \in known, u.thing \in here, u.id = i  PROVE FALSE
                    <6>1. u \in pools[r][p].lost
                        BY <3>1, <4>1, <5>1 DEF Known, known
                    <6>2. u \in Recovered(pools[r][p], Seen(p, seen))
                        BY <5>1, <6>1 DEF Recovered, here
                    <6> QED
                        BY <2>1, <3>1, <4>1, <5>1, <6>1, <6>2
                <5> QED
                    BY <3>1, <4>1, <5>1
            <4>2. CASE \E t \in pools[r][p].lost : t.id = i /\ t.thing \notin here
                BY <3>6, <3>8, <4>2
            <4>3. \/ i \in unpruned[r][p].removed
                  \/ \E t \in pools[r][p].lost : t.id = i /\ t.thing \notin here
                BY <3>1, <3>3, <3>6 DEF here
            <4> QED
                BY <4>1, <4>2, <4>3
        <3>13. ASSUME NEW t \in step[p].active, t.id \in wide[p].removed  PROVE FALSE
            <4>1. t.id < nextId[r] /\ \A u \in known : u.thing \in here => u.id # t.id
                BY <3>12, <3>13
            <4>2. t.thing \in Begins(r, seen) /\ t.id = number[t.thing]
                BY <3>5, <4>1
            <4>3. nextId[r] <= number[t.thing] /\ number[t.thing] \in Nat /\ nextId[r] \in Nat
                BY <4>2, NewNumbers DEF TypeOK
            <4> QED
                BY <4>1, <4>2, <4>3
        <3>14. ASSUME NEW i \in wide[p].removed  PROVE i < nextId'[r]
            <4>1. i \in Nat /\ nextId[r] \in Nat /\ Cardinality(Begins(r, seen)) \in Nat
                BY <3>6, NewNumbers DEF TypeOK
            <4> QED
                BY <1>3, <3>12, <4>1
        <3> QED
            BY <3>3, <3>9, <3>10, <3>11, <3>13, <3>14
    <2>4. wide \in [Pools -> Pool]
        BY <2>3 DEF Step
    <2> HIDE DEF step, wide
    <2>5. ASSUME NEW p \in Pools
          PROVE  /\ pools'[r][p].active = unpruned'[r][p].active
                 /\ pools'[r][p].lost = unpruned'[r][p].lost
                 /\ pools'[r][p].removed \subseteq unpruned'[r][p].removed
                 /\ \A t \in pools'[r][p].lost :
                        t.id \in unpruned'[r][p].removed => t.id \in pools'[r][p].removed
                 /\ \A t \in pools'[r][p].active : t.id \notin unpruned'[r][p].removed
                 /\ \A i \in unpruned'[r][p].removed : i < nextId'[r]
        <3>1. /\ pools'[r][p].active = step[p].active
              /\ pools'[r][p].lost = step[p].lost
              /\ pools'[r][p].removed \subseteq step[p].removed
              /\ \A t \in step[p].lost : t.id \in step[p].removed => t.id \in pools'[r][p].removed
            BY <1>2, <1>3, PrunedEffect
        <3> QED
            BY <2>2, <2>3, <3>1
    <2> QED
        BY <2>2, <2>4, <2>5 DEF Alike
<1> QED
    BY <1>5, <1>6

\* No track is found again later than its window and two updates.
LEMMA FrameLongest ==
    ASSUME TypeOK, NEW r \in Cameras, Timely(r), longest <= Window + 2,
           NEW seen \in SUBSET Things, NEW number, Frame(r, r, seen, number)
    PROVE  longest' \in Int /\ longest' <= Window + 2
<1>1. PICK g \in {updates[r] + 1 - t.end : t \in Back(r, seen)} \cup {longest} : longest' = g
    BY DEF Frame
<1>2. CASE g = longest
    BY <1>1, <1>2 DEF TypeOK
<1>3. ASSUME NEW t \in Back(r, seen), g = updates[r] + 1 - t.end
      PROVE  g \in Int /\ g <= Window + 2
    <2>1. PICK p \in Pools : t \in pools[r][p].lost
        BY <1>3 DEF Back, Recovered
    <2>2. updates[r] - t.end <= Window + 1 /\ t.end \in Nat /\ updates[r] \in Nat
        BY <2>1 DEF Timely, TypeOK, Pool, Track
    <2>3. Window \in Nat
        BY TracksAssumption DEF Window
    <2> QED
        BY <1>3, <2>2, <2>3
<1> QED
    BY <1>1, <1>2, <1>3

\* What a frame stores is told by its UUIDs, and no number changes its thing.
LEMMA FrameNames ==
    ASSUME TypeOK, Pipelines, NEW r \in Cameras, Numbered(r), Own(r),
           \A a \in named : Told(a), OneThing,
           NEW seen \in SUBSET Things, NEW number \in Numbers(r, Begins(r, seen)),
           Frame(r, r, seen, number), UNCHANGED <<starts, pipelines>>
    PROVE  Own(r)' /\ (\A a \in named : Told(a))' /\ OneThing'
<1> DEFINE step == Step(r, pools[r], seen, number)
           out == UNION {step[p].active : p \in Pools}
           From(p, t) == \/ \E u \in Known(pools[r][p]) : u.thing = t.thing /\ u.id = t.id
                         \/ t.thing \in Begins(r, seen) /\ t.id = number[t.thing]
<1>1. /\ step \in [Pools -> Pool]
      /\ \A p \in Pools : \A t \in Known(step[p]) :
            /\ t.id < nextId[r] + Cardinality(Begins(r, seen))
            /\ From(p, t)
            /\ \A q \in Pools : \A u \in Known(step[q]) : t.id = u.id => t = u
    BY StepNumbered
<1>2. /\ nextId'[r] = nextId[r] + Cardinality(Begins(r, seen))
      /\ \A p \in Pools : Known(pools'[r][p]) = Known(step[p])
      /\ \A q \in Cameras \ {r} : nextId'[q] = nextId[q] /\ pools'[q] = pools[q]
    BY <1>1, FrameEffect
<1>3. nextId[r] \in Nat /\ Cardinality(Begins(r, seen)) \in Nat /\ starts \in Nat /\ pipelines[r] \in Nat
    BY NewNumbers DEF TypeOK
<1>4. ids'[r] = Mapped(r, {t.id : t \in out})
    BY DEF Frame, TypeOK
<1>5. \A n \in DOMAIN ids'[r] : ids'[r][n] = <<r, starts, n>>
    BY <1>4 DEF Mapped, Fresh, Own
<1>6. Own(r)'
    BY <1>5 DEF Own
<1>7. ASSUME NEW t \in out
      PROVE  /\ \E p \in Pools : t \in Known(step[p])
             /\ t.id \in Nat /\ t.id < nextId'[r]
             /\ ids'[r][t.id] = <<r, starts, t.id>>
    <2>1. PICK p \in Pools : t \in step[p].active
        BY <1>7
    <2>2. t \in Known(step[p]) /\ t \in Track
        BY <1>1, <2>1 DEF Known, Pool
    <2>3. t.id \in DOMAIN ids'[r]
        BY <1>4 DEF Mapped
    <2> QED
        BY <1>1, <1>2, <1>5, <2>2, <2>3 DEF Track
<1>8. named' = named \cup
        {[uuid |-> ids'[r][t.id], camera |-> r, start |-> starts,
          pipeline |-> pipelines[r], number |-> t.id, thing |-> t.thing] : t \in out}
    BY DEF Frame
<1> HIDE DEF step, out
<1>9. ASSUME NEW a \in named', a \notin named
      PROVE  \E p \in Pools : \E t \in Known(step[p]) :
                /\ a.camera = r /\ a.start = starts /\ a.pipeline = pipelines[r]
                /\ a.number = t.id /\ a.thing = t.thing
                /\ a.uuid = <<r, starts, t.id>> /\ t.id \in Nat /\ t.id < nextId'[r]
    <2>1. PICK t \in out : a = [uuid |-> ids'[r][t.id], camera |-> r, start |-> starts,
                                pipeline |-> pipelines[r], number |-> t.id, thing |-> t.thing]
        BY <1>8, <1>9
    <2> QED
        BY <1>7, <2>1
<1>10. ASSUME NEW a \in named', a \notin named
       PROVE  Told(a)'
    <2>0. PICK p \in Pools : \E t \in Known(step[p]) :
                /\ a.camera = r /\ a.start = starts /\ a.pipeline = pipelines[r]
                /\ a.number = t.id /\ a.thing = t.thing
                /\ a.uuid = <<r, starts, t.id>> /\ t.id \in Nat /\ t.id < nextId'[r]
        BY <1>9, <1>10
    <2>1. PICK t \in Known(step[p]) :
                /\ a.camera = r /\ a.start = starts /\ a.pipeline = pipelines[r]
                /\ a.number = t.id /\ a.thing = t.thing
                /\ a.uuid = <<r, starts, t.id>> /\ t.id \in Nat /\ t.id < nextId'[r]
        BY <2>0
    <2>2. \A q \in Pools : \A u \in Known(pools'[r][q]) : u.id = t.id => u.thing = t.thing
        BY <1>1, <1>2
    <2>3. Runtime[r] = "ultralytics" => pipelines[r] = 1
        BY DEF Pipelines
    <2> QED
        BY <1>3, <2>1, <2>2, <2>3 DEF Told
<1>11. ASSUME NEW a \in named
       PROVE  Told(a)'
    <2>1. Told(a)
        OBVIOUS
    <2>2. CASE a.camera # r
        <3>1. nextId'[a.camera] = nextId[a.camera] /\ pools'[a.camera] = pools[a.camera]
            BY <1>2, <2>1, <2>2 DEF Told
        <3> QED
            BY <2>1, <3>1 DEF Told
    <2>3. CASE a.camera = r
        <3>1. ASSUME a.start = starts, a.pipeline = pipelines[r]
              PROVE  /\ a.number < nextId'[r]
                     /\ \A p \in Pools : \A t \in Known(pools'[r][p]) :
                            t.id = a.number => t.thing = a.thing
            <4>1. /\ a.number \in Nat /\ a.number < nextId[r]
                  /\ \A p \in Pools : \A t \in Known(pools[r][p]) :
                        t.id = a.number => t.thing = a.thing
                BY <2>1, <2>3, <3>1 DEF Told
            <4>2. ASSUME NEW p \in Pools, NEW t \in Known(pools'[r][p]), t.id = a.number
                  PROVE  t.thing = a.thing
                <5>1. From(p, t)
                    BY <1>1, <1>2
                <5>2. CASE \E u \in Known(pools[r][p]) : u.thing = t.thing /\ u.id = t.id
                    BY <4>1, <4>2, <5>2
                <5>3. CASE t.thing \in Begins(r, seen) /\ t.id = number[t.thing]
                    <6>1. number[t.thing] \in Nat /\ nextId[r] <= number[t.thing]
                        BY <5>3, NewNumbers
                    <6> QED
                        BY <1>3, <4>1, <4>2, <5>3, <6>1
                <5> QED
                    BY <5>1, <5>2, <5>3
            <4>3. a.number < nextId'[r]
                BY <1>2, <1>3, <4>1
            <4> QED
                BY <4>2, <4>3
        <3> QED
            BY <2>1, <2>3, <3>1 DEF Told
    <2> QED
        BY <2>2, <2>3
<1>12. ASSUME NEW a \in named', NEW b \in named', a \notin named,
              a.camera = b.camera, a.start = b.start, a.pipeline = b.pipeline, a.number = b.number
       PROVE  a.thing = b.thing
    <2>0. PICK p \in Pools : \E t \in Known(step[p]) :
                /\ a.camera = r /\ a.start = starts /\ a.pipeline = pipelines[r]
                /\ a.number = t.id /\ a.thing = t.thing
        BY <1>9, <1>12
    <2>1. PICK t \in Known(step[p]) :
                /\ a.camera = r /\ a.start = starts /\ a.pipeline = pipelines[r]
                /\ a.number = t.id /\ a.thing = t.thing
        BY <2>0
    <2>2. Told(b)'
        BY <1>10, <1>11
    <2>3. \A q \in Pools : \A u \in Known(pools'[r][q]) : u.id = b.number => u.thing = b.thing
        BY <1>12, <2>1, <2>2 DEF Told
    <2> QED
        BY <1>2, <1>12, <2>1, <2>3
<1>13. OneThing'
    <2> SUFFICES ASSUME NEW a \in named', NEW b \in named',
                        a.camera = b.camera, a.start = b.start,
                        a.pipeline = b.pipeline, a.number = b.number
                 PROVE  a.thing = b.thing
        BY DEF OneThing
    <2>1. CASE a \in named /\ b \in named
        BY <2>1 DEF OneThing
    <2>2. CASE a \notin named
        BY <1>12, <2>2
    <2>3. CASE b \notin named
        BY <1>12, <2>3
    <2> QED
        BY <2>1, <2>2, <2>3
<1>14. (\A a \in named : Told(a))'
    BY <1>10, <1>11
<1> QED
    BY <1>6, <1>13, <1>14

\* The numbers of a frame leave the variables with values of their types.
LEMMA FrameTypes ==
    ASSUME TypeOK, NEW r \in Cameras, Numbered(r), Timely(r), Alike(r), longest <= Window + 2,
           NEW seen \in SUBSET Things, NEW number \in Numbers(r, Begins(r, seen)),
           Frame(r, r, seen, number), UNCHANGED <<starts, pipelines>>
    PROVE  TypeOK'
<1> DEFINE step == Step(r, pools[r], seen, number)
<1>1. step \in [Pools -> Pool]
    BY StepNumbered
<1>2. Pruned(r, step) \in [Pools -> Pool]
    BY <1>1, PrunedEffect
<1>3. unpruned'[r] \in [Pools -> Pool]
    BY FrameAlike
<1>4. Cardinality(Begins(r, seen)) \in Nat
    BY NewNumbers
<1>5. longest' \in Int
    BY FrameLongest
<1>6. /\ updates' = [updates EXCEPT ![r] = updates[r] + 1]
      /\ pools' = [pools EXCEPT ![r] = Pruned(r, step)]
      /\ nextId' = [nextId EXCEPT ![r] = nextId[r] + Cardinality(Begins(r, seen))]
      /\ \E x : ids' = [ids EXCEPT ![r] = x]
      /\ \E x : unpruned' = [unpruned EXCEPT ![r] = x]
      /\ revived' = [revived EXCEPT ![r] = @ \/
             \E p \in Pools : \E t \in Recovered(pools[r][p], Seen(p, seen)) :
                 t.id \in pools[r][p].removed]
    BY Zenon DEF Frame
<1> HIDE DEF step
<1>7. /\ updates' \in [Cameras -> Nat] /\ nextId' \in [Cameras -> Nat]
      /\ pools' \in [Cameras -> [Pools -> Pool]]
    BY <1>2, <1>4, <1>6 DEF TypeOK
<1>8. unpruned' \in [Cameras -> [Pools -> Pool]]
    BY <1>3, <1>6 DEF TypeOK
<1>9. DOMAIN ids' = Cameras
    BY <1>6 DEF TypeOK
<1>10. revived' \in [Cameras -> BOOLEAN]
    BY <1>6 DEF TypeOK
<1> QED
    BY <1>5, <1>7, <1>8, <1>9, <1>10 DEF TypeOK

-----------------------------------------------------------------------------
(* The invariant.                                                          *)

Runner(r) == Numbered(r) /\ Timely(r) /\ Alike(r) /\ Own(r)

IInv ==
    /\ TypeOK
    /\ Pipelines
    /\ \A r \in Cameras : Runner(r)
    /\ longest <= Window + 2
    /\ \A a \in named : Told(a)
    /\ OneThing

\* A tracker that has seen nothing.
LEMMA Nothing ==
    /\ NoPools \in [Pools -> Pool]
    /\ \A p \in Pools : /\ Known(NoPools[p]) = {}
                        /\ NoPools[p].active = {} /\ NoPools[p].lost = {} /\ NoPools[p].removed = {}
BY DEF NoPools, Pool, Known

LEMMA UpdateStep ==
    ASSUME IInv, NEW r \in Cameras, Update(r)
    PROVE  IInv'
<1>0. PICK seen \in SUBSET Things : \E number \in Numbers(r, Begins(r, seen)) : Frame(r, r, seen, number)
    BY DEF Update, RunnerOf
<1>1. PICK number \in Numbers(r, Begins(r, seen)) : Frame(r, r, seen, number)
    BY <1>0
<1>2. UNCHANGED <<starts, pipelines>>
    BY DEF Update
<1>3. /\ TypeOK /\ Pipelines /\ Numbered(r) /\ Timely(r) /\ Alike(r) /\ Own(r)
      /\ longest <= Window + 2 /\ (\A a \in named : Told(a)) /\ OneThing
    BY DEF IInv, Runner
<1>4. TypeOK'
    BY <1>1, <1>2, <1>3, FrameTypes
<1>5. Numbered(r)' /\ Timely(r)'
    BY <1>1, <1>3, FrameTracks
<1>6. Alike(r)'
    BY <1>1, <1>3, FrameAlike
<1>7. Own(r)' /\ (\A a \in named : Told(a))' /\ OneThing'
    BY <1>1, <1>2, <1>3, FrameNames
<1>8. (longest <= Window + 2)'
    BY <1>1, <1>3, FrameLongest DEF Window
<1>9. ASSUME NEW q \in Cameras, q # r
      PROVE  Runner(q)'
    <2>1. Step(r, pools[r], seen, number) \in [Pools -> Pool]
        BY <1>1, <1>3, StepNumbered
    <2>2. /\ updates'[q] = updates[q] /\ nextId'[q] = nextId[q] /\ pools'[q] = pools[q]
          /\ unpruned'[q] = unpruned[q] /\ revived'[q] = revived[q] /\ ids'[q] = ids[q]
        BY <1>1, <1>3, <1>9, <2>1, FrameEffect
    <2>3. Runner(q)
        BY DEF IInv
    <2> QED
        BY <1>2, <2>2, <2>3 DEF Runner, Numbered, Timely, Alike, Own, Window
<1>10. Pipelines'
    BY <1>2, <1>3 DEF Pipelines
<1> QED
    BY <1>4, <1>5, <1>6, <1>7, <1>8, <1>9, <1>10 DEF IInv, Runner

\* A new pipeline numbers from the start, and is another one for what was stored.
LEMMA ReconnectStep ==
    ASSUME IInv, NEW c \in Cameras, Reconnect(c)
    PROVE  IInv'
<1>1. /\ pipelines' = [pipelines EXCEPT ![c] = pipelines[c] + 1]
      /\ pools' = [pools EXCEPT ![c] = NoPools]
      /\ unpruned' = [unpruned EXCEPT ![c] = NoPools]
      /\ nextId' = [nextId EXCEPT ![c] = 1]
      /\ revived' = [revived EXCEPT ![c] = FALSE]
      /\ UNCHANGED <<updates, ids, starts, longest, named>>
      /\ Runtime[c] = "deepstream"
    BY DEF Reconnect
<1>2. TypeOK'
    BY <1>1, Nothing DEF IInv, TypeOK
<1>3. Pipelines'
    BY <1>1 DEF IInv, Pipelines, TypeOK
<1>4. ASSUME NEW r \in Cameras
      PROVE  Runner(r)'
    <2>1. Runner(r) /\ TypeOK
        BY DEF IInv
    <2>2. CASE r = c
        <3>1. /\ pools'[r] = NoPools /\ unpruned'[r] = NoPools
              /\ ids'[r] = ids[r] /\ starts' = starts
            BY <1>1, <2>1, <2>2 DEF TypeOK
        <3> QED
            BY <2>1, <3>1, Nothing DEF Runner, Numbered, Timely, Alike, Own
    <2>3. CASE r # c
        <3>1. /\ updates'[r] = updates[r] /\ nextId'[r] = nextId[r] /\ pools'[r] = pools[r]
              /\ unpruned'[r] = unpruned[r] /\ revived'[r] = revived[r] /\ ids'[r] = ids[r]
              /\ starts' = starts
            BY <1>1, <2>1, <2>3 DEF TypeOK
        <3> QED
            BY <2>1, <3>1 DEF Runner, Numbered, Timely, Alike, Own, Window
    <2> QED
        BY <2>2, <2>3
<1>5. ASSUME NEW a \in named
      PROVE  Told(a)'
    <2>1. Told(a) /\ TypeOK
        BY DEF IInv
    <2>2. CASE a.camera = c
        <3>1. pipelines'[c] = pipelines[c] + 1 /\ pipelines[c] \in Nat
            BY <1>1, <2>1 DEF TypeOK
        <3> QED
            BY <1>1, <2>1, <2>2, <3>1 DEF Told
    <2>3. CASE a.camera # c
        <3>1. /\ pipelines'[a.camera] = pipelines[a.camera]
              /\ nextId'[a.camera] = nextId[a.camera] /\ pools'[a.camera] = pools[a.camera]
            BY <1>1, <2>1, <2>3 DEF TypeOK, Told
        <3> QED
            BY <1>1, <2>1, <3>1 DEF Told
    <2> QED
        BY <2>2, <2>3
<1>6. OneThing' /\ (longest <= Window + 2)'
    BY <1>1 DEF IInv, OneThing, Window
<1> QED
    BY <1>1, <1>2, <1>3, <1>4, <1>5, <1>6 DEF IInv

\* What was stored before a restart is of an earlier start.
LEMMA RestartStep ==
    ASSUME IInv, Restart
    PROVE  IInv'
<1>1. /\ starts' = starts + 1 /\ starts \in Nat
      /\ pipelines' = [c \in Cameras |-> 1]
      /\ pools' = [r \in Cameras |-> NoPools]
      /\ unpruned' = [r \in Cameras |-> NoPools]
      /\ nextId' = [r \in Cameras |-> 1]
      /\ ids' = [r \in Cameras |-> NoIds]
      /\ revived' = [r \in Cameras |-> FALSE]
      /\ UNCHANGED <<updates, longest, named>>
    BY DEF Restart, IInv, TypeOK
<1>2. TypeOK'
    BY <1>1, Nothing DEF IInv, TypeOK
<1>3. Pipelines'
    BY <1>1 DEF Pipelines
<1>4. ASSUME NEW r \in Cameras
      PROVE  Runner(r)'
    <2>1. pools'[r] = NoPools /\ unpruned'[r] = NoPools /\ DOMAIN ids'[r] = {}
        BY <1>1 DEF NoIds
    <2> QED
        BY <2>1, Nothing DEF Runner, Numbered, Timely, Alike, Own
<1>5. ASSUME NEW a \in named
      PROVE  Told(a)'
    BY <1>1 DEF IInv, Told
<1>6. OneThing' /\ (longest <= Window + 2)'
    BY <1>1 DEF IInv, OneThing, Window
<1> QED
    BY <1>1, <1>2, <1>3, <1>4, <1>5, <1>6 DEF IInv

LEMMA InitIInv == Init => IInv
<1> SUFFICES ASSUME Init PROVE IInv
    OBVIOUS
<1>1. TypeOK
    BY Nothing DEF Init, TypeOK
<1>2. Pipelines /\ OneThing /\ \A a \in named : Told(a)
    BY DEF Init, Pipelines, OneThing
<1>3. longest <= Window + 2
    BY TracksAssumption DEF Init, Window
<1>4. ASSUME NEW r \in Cameras
      PROVE  Runner(r)
    <2>1. pools[r] = NoPools /\ unpruned[r] = NoPools /\ DOMAIN ids[r] = {}
        BY DEF Init, NoIds
    <2> QED
        BY <2>1, Nothing DEF Runner, Numbered, Timely, Alike, Own
<1> QED
    BY <1>1, <1>2, <1>3, <1>4 DEF IInv

LEMMA Invariance == Spec => []IInv
<1>1. IInv /\ [Next]_vars => IInv'
    <2> SUFFICES ASSUME IInv, [Next]_vars PROVE IInv'
        OBVIOUS
    <2>1. CASE UNCHANGED vars
        BY <2>1 DEF vars, tracker, IInv, TypeOK, Pipelines, Runner, Numbered, Timely, Alike, Own,
           Told, OneThing, Window
    <2> QED
        BY <2>1, UpdateStep, ReconnectStep, RestartStep DEF Next
<1> QED
    BY <1>1, InitIInv, PTL DEF Spec

-----------------------------------------------------------------------------

\* "IDs from a previous run can never resurface", and nothing downstream takes two
\* things for one: StableIdMap never gives out a UUID of another camera or start, and
\* within a pipeline no number is used for a second thing.
THEOREM IdentitiesAreOne == Spec => []IdentityIsOne
<1>1. IInv => IdentityIsOne
    <2> SUFFICES ASSUME IInv, NEW a \in named, NEW b \in named, a.uuid = b.uuid
                 PROVE  /\ a.camera = b.camera /\ a.start = b.start
                        /\ a.thing = b.thing \/ (Runtime[a.camera] = "deepstream" /\ a.pipeline # b.pipeline)
        BY DEF IdentityIsOne
    <2>1. Told(a) /\ Told(b)
        BY DEF IInv
    <2>2. a.camera = b.camera /\ a.start = b.start /\ a.number = b.number
        <3>1. <<a.camera, a.start, a.number>> = <<b.camera, b.start, b.number>>
            BY <2>1 DEF Told
        <3> QED
            BY <3>1
    <2>3. a.pipeline = b.pipeline => a.thing = b.thing
        BY <2>2 DEF IInv, OneThing
    <2>4. Runtime[a.camera] \in {"ultralytics", "deepstream"}
        BY <2>1, TracksAssumption DEF Told
    <2>5. Runtime[a.camera] = "ultralytics" => a.pipeline = b.pipeline
        BY <2>1, <2>2 DEF Told
    <2> QED
        BY <2>2, <2>3, <2>4, <2>5
<1> QED
    BY <1>1, Invariance, PTL

\* _prune_removed_history makes no difference to what is tracked and what may be found
\* again, and no track is found again later than its absence window and two updates.
THEOREM PruningIsInvisible == Spec => []PruneIsInvisible
<1>1. IInv => PruneIsInvisible
    BY DEF IInv, Runner, Alike, PruneIsInvisible, Invisible
<1> QED
    BY <1>1, Invariance, PTL
=============================================================================
