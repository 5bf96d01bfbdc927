--------------------------- MODULE CollectorProofs ---------------------------
(* Proofs about Collector, for any sessions, clocks and numbers of frames. *)
EXTENDS Collector, FiniteSetTheorems, TLAPS

Writes ==
    [session : Ids, n : 1..MaxFrames, stem : Stems, count : Nat,
     at : {"image", "label", "written"}]

\* The loop waits for the write: there is one at most, of the session it is at, of the
\* last frame, begun when there was room and with the count that still stands.
Waits ==
    \A w \in writes :
        /\ writes = {w}
        /\ w.session = next /\ w.n = frame.n
        /\ w.count = saved[next] /\ HasRoom(next)

\* What was counted: not more than the counter says, and of frames that were read.
Counts ==
    /\ counted \in [Ids -> SUBSET Writes]
    /\ \A s \in Ids :
          /\ IsFiniteSet(counted[s]) /\ Cardinality(counted[s]) <= saved[s]
          /\ Sessions[s].maxFrames # NoLimit => saved[s] <= Sessions[s].maxFrames
          /\ \A w \in counted[s] : w.n <= frame.n

Pair(s, t) ==
    /\ images[s][t] = labels[s][t]
    /\ \A w \in counted[s] : w.stem = t => images[s][t] >= w.n

\* How far the write under way has got with its two files.
Halfway(w) ==
    \/ <<w.session, w.stem>> \in torn
    \/ w.at = "image" /\ Pair(w.session, w.stem)
    \/ w.at = "label" /\ images[w.session][w.stem] = w.n
    \/ w.at = "written" /\ images[w.session][w.stem] = w.n /\ labels[w.session][w.stem] = w.n

Files == (\A w \in writes : Halfway(w)) /\ PairsKept

\* No session is asked before the first frame.
First == next # 0 => frame.n > 0

IInv == TypeOK /\ First /\ Waits /\ Counts /\ Files

-----------------------------------------------------------------------------

LEMMA DivMonotone ==
    ASSUME NEW d \in Nat \ {0}, NEW m \in Nat, NEW w \in 0..m
    PROVE  w \div d \in 0..(m \div d)
<1>1. /\ w \div d \in Int /\ m \div d \in Int
      /\ w = d * (w \div d) + (w % d) /\ (w % d) \in 0..(d - 1)
      /\ m = d * (m \div d) + (m % d) /\ (m % d) \in 0..(d - 1)
    OBVIOUS
<1> DEFINE p == w \div d
           q == m \div d
<1>2. \A x, y \in Int : x > y => d * x >= d * y + d
    <2> SUFFICES ASSUME NEW x \in Int, NEW y \in Int, x > y PROVE d * x >= d * y + d
        OBVIOUS
    <2>1. d * (x - y - 1) >= 0
        OBVIOUS
    <2>2. d * (x - y - 1) = d * x - d * y - d
        OBVIOUS
    <2> QED
        BY <2>1, <2>2
<1>3. p <= q
    BY <1>1, <1>2
<1>4. 0 <= p
    BY <1>1, <1>2
<1> QED
    BY <1>1, <1>3, <1>4

LEMMA SecondIsStem == TypeOK => Second \in Stems
    BY DivMonotone, CollectorAssumption DEF TypeOK, Second, Stems

\* What the proofs know of the session of a write.
LEMMA SessionKnown ==
    ASSUME NEW s \in Ids
    PROVE  Sessions[s] \in SessionType /\ Sessions[s].maxFrames \in Nat /\ s \in Nat /\ s > 0
<1>1. Sessions \in Seq(SessionType) /\ Ids = 1..Len(Sessions) /\ Len(Sessions) \in Nat
    BY CollectorAssumption DEF Ids
<1>2. Sessions[s] \in SessionType /\ s \in Nat /\ s > 0
    BY <1>1
<1> QED
    BY <1>2 DEF SessionType

LEMMA AfterIsSession == \A s \in Ids : After(s) \in {0} \cup Ids
<1>1. Ids = 1..Len(Sessions) /\ Len(Sessions) \in Nat
    BY CollectorAssumption DEF Ids
<1> QED
    BY <1>1 DEF After

\* Nobody reads while a file is written.
LEMMA IdleIsDone == TypeOK /\ Waits /\ next = 0 => writes = {}
    BY SessionKnown DEF TypeOK, Waits

\* A step that changes no counter keeps what is said of them.
LEMMA CountsStay ==
    ASSUME Counts, UNCHANGED <<counted, saved, frame>>
    PROVE  Counts'
BY DEF Counts

THEOREM InitIInv == Init => IInv
<1> SUFFICES ASSUME Init PROVE IInv
    OBVIOUS
<1> USE CollectorAssumption
<1>1. 0 \in Stems /\ PerSecond \in 0..MaxTime
    BY DivMonotone DEF Stems
<1>2. wall \in 0..MaxTime /\ mono \in 0..MaxTime
    BY <1>1 DEF Init
<1>3. TypeOK
    <2>1. images \in [Ids -> [Stems -> Contents]] /\ labels \in [Ids -> [Stems -> Contents]]
        BY DEF Init, Contents, Nothing
    <2>2. saved \in [Ids -> Nat] /\ last \in [Ids -> 0..MaxTime]
        BY DEF Init
    <2>3. frame \in [n : 0..MaxFrames, stem : Stems, found : SUBSET Classes]
        BY <1>1 DEF Init
    <2>4. next \in {0} \cup Ids /\ writes = {} /\ lastError \in BOOLEAN /\ torn = {}
        BY DEF Init
    <2>5. starts \in 1..MaxStarts /\ faults \in 0..FaultCap
        BY DEF Init
    <2> QED
        BY <1>2, <2>1, <2>2, <2>3, <2>4, <2>5 DEF TypeOK
<1>4. Waits
    BY DEF Init, Waits
<1>5. Counts
    BY SessionKnown, FS_EmptySet DEF Init, Counts
<1>6. Files
    BY DEF Init, Files, Halfway, PairsKept
<1> QED
    BY <1>3, <1>4, <1>5, <1>6 DEF IInv, First, Init

LEMMA FrameReadStep == IInv /\ FrameRead => IInv'
<1> SUFFICES ASSUME IInv, FrameRead PROVE IInv'
    OBVIOUS
<1> USE CollectorAssumption
<1>1. writes = {} /\ writes' = {}
    BY IdleIsDone DEF IInv, FrameRead
<1>2. TypeOK'
    <2>1. 1 \in Ids
        BY DEF Ids
    <2>2. frame' \in [n : 0..MaxFrames, stem : Stems, found : SUBSET Classes] /\ lastError' \in BOOLEAN
        BY SecondIsStem DEF IInv, TypeOK, FrameRead
    <2> QED
        BY <1>1, <2>1, <2>2 DEF IInv, TypeOK, FrameRead, clocks, files
<1>3. Waits' /\ frame'.n > frame.n
    BY <1>1 DEF IInv, TypeOK, FrameRead, Waits
<1>4. Counts'
    <2>1. frame'.n \in Int /\ frame.n \in Int /\ UNCHANGED <<counted, saved>>
        BY DEF IInv, TypeOK, FrameRead
    <2>2. \A s \in Ids : \A w \in counted[s] : w.n \in Int
        BY DEF IInv, Counts, Writes
    <2> QED
        BY <1>3, <2>1, <2>2 DEF IInv, Counts
<1>5. Files'
    BY <1>1 DEF IInv, FrameRead, Files, PairsKept, UnderWay, files
<1> QED
    <2>1. frame.n \in Nat /\ frame'.n \in Nat
        BY <1>2 DEF IInv, TypeOK
    <2> QED
        BY <1>2, <1>3, <1>4, <1>5, <2>1 DEF IInv, First

LEMMA HandleStep == IInv /\ Handle => IInv'
<1> SUFFICES ASSUME IInv, Handle PROVE IInv'
    OBVIOUS
<1>1. next \in Ids /\ next # 0 /\ writes = {} /\ UNCHANGED <<clocks, frame, saved, last, lastError, files, starts, faults, counted, torn>>
    BY DEF IInv, TypeOK, Handle
<1>2. CASE FALSE \in Takes(next) /\ next' = After(next) /\ UNCHANGED writes
    <2>1. TypeOK'
        BY <1>1, <1>2, AfterIsSession DEF IInv, TypeOK, clocks, files
    <2> QED
        BY <1>1, <1>2, <2>1, CountsStay DEF IInv, First, Waits, Files, PairsKept, UnderWay, files
<1>3. CASE TRUE \in Takes(next) /\ writes' = {Begin(next)} /\ UNCHANGED next
    <2> PICK w : w = Begin(next)
        OBVIOUS
    <2>1. HasRoom(next)
        BY <1>3 DEF Takes
    <2>2. w \in Writes /\ w.session = next /\ w.n = frame.n /\ w.count = saved[next] /\ w.at = "image" /\ w.stem = frame.stem
        BY <1>1 DEF IInv, TypeOK, First, Begin, Writes
    <2>3. TypeOK'
        BY <1>1, <1>3, <2>2 DEF IInv, TypeOK, Writes, clocks, files
    <2>4. First' /\ Waits'
        BY <1>1, <1>3, <2>1, <2>2 DEF IInv, First, Waits, HasRoom
    <2>5. Counts'
        BY <1>1 DEF IInv, Counts
    <2>6. <<w.session, w.stem>> \in torn \/ Pair(w.session, w.stem)
        BY <1>1, <2>2 DEF IInv, TypeOK, Files, PairsKept, UnderWay, Pair
    <2>7. Halfway(w)'
        BY <1>1, <2>2, <2>6 DEF Halfway, Pair, files
    <2>8. PairsKept'
        BY <1>1, <1>3 DEF IInv, Files, PairsKept, UnderWay, files
    <2> QED
        BY <1>3, <2>3, <2>4, <2>5, <2>7, <2>8 DEF IInv, Files
<1> QED
    BY <1>1, <1>2, <1>3 DEF Handle

-----------------------------------------------------------------------------
(* The write under way.                                                    *)

\* A file moves on, and so does the one write there is.
LEMMA MoveStays ==
    ASSUME TypeOK, Waits, NEW w \in writes, NEW at \in {"label", "written"},
           Move(w, at), UNCHANGED <<frame, next, saved>>
    PROVE  /\ [w EXCEPT !.at = at] \in Writes
           /\ writes' = {[w EXCEPT !.at = at]}
           /\ Waits'
<1>1. w \in Writes /\ writes = {w}
    BY DEF TypeOK, Waits, Writes
<1>2. [w EXCEPT !.at = at] \in Writes /\ writes' = {[w EXCEPT !.at = at]}
    BY <1>1 DEF Move, Writes
<1>3. /\ [w EXCEPT !.at = at].session = w.session /\ [w EXCEPT !.at = at].n = w.n
      /\ [w EXCEPT !.at = at].count = w.count
    BY <1>1 DEF Writes
<1> QED
    BY <1>2, <1>3 DEF Waits, HasRoom

LEMMA WriteImageStep ==
    ASSUME IInv, NEW w \in writes, WriteImage(w)
    PROVE  IInv'
<1> DEFINE v == [w EXCEPT !.at = "label"]
           s == w.session
           t == w.stem
<1>1. w \in Writes /\ writes = {w} /\ s \in Ids /\ t \in Stems /\ w.n \in Contents
    BY DEF IInv, TypeOK, Waits, Writes, Contents
<1>2. v \in Writes /\ writes' = {v} /\ Waits'
    BY MoveStays DEF IInv, WriteImage
<1>3. v.session = s /\ v.stem = t /\ v.n = w.n /\ v.at = "label"
    BY <1>1 DEF Writes
<1>4. PICK left \in Contents :
          /\ images' = [images EXCEPT ![s][t] = left]
          /\ \/ left = w.n /\ torn' = torn
             \/ torn' = torn \cup {<<s, t>>}
    <2>1. images[s][t] \in Contents /\ Damage \in Contents
        BY <1>1 DEF IInv, TypeOK, Contents
    <2> QED
        BY <1>1, <2>1 DEF WriteImage
<1>5. UNCHANGED <<clocks, frame, next, saved, last, lastError, labels, starts, counted>> /\ faults' \in 0..FaultCap
    BY CollectorAssumption DEF WriteImage, IInv, TypeOK
<1> HIDE DEF v, s, t
<1>6. images' \in [Ids -> [Stems -> Contents]] /\ torn' \subseteq Ids \X Stems
    BY <1>1, <1>4 DEF IInv, TypeOK
<1>7. TypeOK'
    BY <1>2, <1>5, <1>6 DEF IInv, TypeOK, Writes, clocks
<1>8. First' /\ Counts'
    BY <1>5, CountsStay DEF IInv, First
<1>9. \A a \in Ids, b \in Stems : <<a, b>> # <<s, t>> => images'[a][b] = images[a][b]
    BY <1>1, <1>4 DEF IInv, TypeOK
<1>10. Halfway(v)'
    BY <1>1, <1>3, <1>4 DEF Halfway, IInv, TypeOK
<1>11. PairsKept'
    <2> SUFFICES ASSUME NEW a \in Ids, NEW b \in Stems, ~UnderWay(a, b)', <<a, b>> \notin torn'
                 PROVE  Pair(a, b)'
        BY DEF PairsKept, Pair
    <2>1. <<a, b>> # <<s, t>> /\ ~UnderWay(a, b) /\ <<a, b>> \notin torn
        BY <1>1, <1>2, <1>3, <1>4 DEF UnderWay, s, t
    <2> QED
        BY <2>1, <1>5, <1>9 DEF Pair, IInv, Files, PairsKept
<1> QED
    BY <1>2, <1>7, <1>8, <1>10, <1>11 DEF IInv, Files

LEMMA WriteLabelStep ==
    ASSUME IInv, NEW w \in writes, WriteLabel(w)
    PROVE  IInv'
<1> DEFINE v == [w EXCEPT !.at = "written"]
           s == w.session
           t == w.stem
<1>1. w \in Writes /\ writes = {w} /\ s \in Ids /\ t \in Stems /\ w.n \in Contents /\ w.at = "label"
    BY DEF IInv, TypeOK, Waits, Writes, Contents, WriteLabel
<1>2. v \in Writes /\ writes' = {v} /\ Waits'
    BY MoveStays DEF IInv, WriteLabel
<1>3. v.session = s /\ v.stem = t /\ v.n = w.n /\ v.at = "written"
    BY <1>1 DEF Writes
<1>4. /\ labels' = [labels EXCEPT ![s][t] = w.n]
      /\ torn' = IF images[s][t] = w.n THEN torn \ {<<s, t>>} ELSE torn
      /\ UNCHANGED <<clocks, frame, next, saved, last, lastError, images, starts, faults, counted>>
    BY DEF WriteLabel
<1> HIDE DEF v, s, t
<1>5. TypeOK'
    BY <1>1, <1>2, <1>4 DEF IInv, TypeOK, Writes, clocks
<1>6. First' /\ Counts'
    BY <1>4, CountsStay DEF IInv, First
<1>7. \A a \in Ids, b \in Stems : <<a, b>> # <<s, t>> => labels'[a][b] = labels[a][b]
    BY <1>1, <1>4 DEF IInv, TypeOK
<1>8. images[s][t] = w.n \/ <<s, t>> \in torn
    BY <1>1 DEF IInv, Files, Halfway, s, t
<1>9. labels'[s][t] = w.n
    BY <1>1, <1>4 DEF IInv, TypeOK
<1>10. Halfway(v)'
    BY <1>3, <1>4, <1>8, <1>9 DEF Halfway
<1>11. PairsKept'
    <2> SUFFICES ASSUME NEW a \in Ids, NEW b \in Stems, ~UnderWay(a, b)', <<a, b>> \notin torn'
                 PROVE  Pair(a, b)'
        BY DEF PairsKept, Pair
    <2>1. <<a, b>> # <<s, t>> /\ ~UnderWay(a, b)
        BY <1>1, <1>2, <1>3 DEF UnderWay, s, t
    <2>2. <<a, b>> \notin torn
        BY <1>4, <2>1
    <2> QED
        BY <2>1, <2>2, <1>4, <1>7 DEF Pair, IInv, Files, PairsKept
<1> QED
    BY <1>2, <1>5, <1>6, <1>10, <1>11 DEF IInv, Files

LEMMA CountStep ==
    ASSUME IInv, NEW w \in writes, Count(w)
    PROVE  IInv'
<1> DEFINE s == w.session
           t == w.stem
<1>1. /\ w \in Writes /\ writes = {w} /\ s \in Ids /\ t \in Stems /\ w.at = "written"
      /\ s = next /\ w.n = frame.n /\ w.count = saved[s] /\ HasRoom(s) /\ frame.n \in Nat
    BY DEF IInv, TypeOK, Waits, Writes, Count
<1>2. /\ writes' = {} /\ saved' = [saved EXCEPT ![s] = saved[s] + 1]
      /\ last' = [last EXCEPT ![s] = mono]
      /\ counted' = [counted EXCEPT ![s] = counted[s] \cup {w}] /\ next' = After(s)
      /\ UNCHANGED <<clocks, frame, lastError, files, starts, faults, torn>>
    BY <1>1 DEF Count
<1> HIDE DEF s, t
<1>3. TypeOK'
    BY <1>1, <1>2, AfterIsSession DEF IInv, TypeOK, clocks, files
<1>4. First'
    BY <1>1, <1>2, SessionKnown DEF IInv, First
<1>5. Waits'
    BY <1>2 DEF Waits
<1>6. Counts'
    <2> SUFFICES ASSUME NEW a \in Ids
                 PROVE  /\ IsFiniteSet(counted'[a]) /\ Cardinality(counted'[a]) <= saved'[a]
                        /\ Sessions[a].maxFrames # NoLimit => saved'[a] <= Sessions[a].maxFrames
                        /\ \A u \in counted'[a] : u.n <= frame'.n
        <3>1. counted' \in [Ids -> SUBSET Writes]
            BY <1>1, <1>2 DEF IInv, Counts
        <3> QED
            BY <3>1 DEF Counts
    <2>1. CASE a # s
        <3>1. counted'[a] = counted[a] /\ saved'[a] = saved[a]
            BY <1>1, <1>2, <2>1 DEF IInv, TypeOK, Counts
        <3> QED
            BY <1>2, <3>1 DEF IInv, Counts
    <2>2. CASE a = s
        <3>1. saved'[a] = saved[a] + 1 /\ saved[a] \in Nat
            BY <1>1, <1>2, <2>2 DEF IInv, TypeOK
        <3>2. counted'[a] = counted[a] \cup {w}
            BY <1>1, <1>2, <2>2 DEF IInv, Counts
        <3>3. IsFiniteSet(counted[a]) /\ Cardinality(counted[a]) <= saved[a]
            BY DEF IInv, Counts
        <3>4. /\ IsFiniteSet(counted'[a])
              /\ Cardinality(counted'[a]) = Cardinality(counted[a])
                 \/ Cardinality(counted'[a]) = Cardinality(counted[a]) + 1
            BY <3>2, <3>3, FS_AddElement
        <3>5. Cardinality(counted[a]) \in Nat
            BY <3>3, FS_CardinalityType
        <3>6. Sessions[a].maxFrames # NoLimit => saved'[a] <= Sessions[a].maxFrames
            BY <1>1, <2>2, <3>1, SessionKnown DEF HasRoom
        <3>7. \A u \in counted'[a] : u.n <= frame'.n
            BY <1>1, <1>2, <3>2 DEF IInv, Counts
        <3> QED
            BY <3>1, <3>3, <3>4, <3>5, <3>6, <3>7
    <2> QED
        BY <2>1, <2>2
<1>7. PairsKept'
    <2> SUFFICES ASSUME NEW a \in Ids, NEW b \in Stems, <<a, b>> \notin torn'
                 PROVE  Pair(a, b)'
        BY DEF PairsKept, Pair
    <2>1. <<a, b>> \notin torn /\ UNCHANGED <<images, labels>>
        BY <1>2 DEF files
    <2>2. CASE <<a, b>> = <<s, t>>
        <3>1. images[a][b] = w.n /\ labels[a][b] = w.n
            BY <1>1, <2>1, <2>2 DEF IInv, Files, Halfway, s, t
        <3>2. \A u \in counted'[a] : u.n <= frame.n
            BY <1>2, <1>6, <2>2 DEF Counts
        <3>3. \A u \in counted'[a] : images[a][b] >= u.n
            BY <1>1, <1>6, <3>1, <3>2 DEF Counts, Writes
        <3> QED
            BY <2>1, <3>1, <3>3 DEF Pair
    <2>3. CASE <<a, b>> # <<s, t>>
        <3>1. ~UnderWay(a, b)
            BY <1>1, <2>3 DEF UnderWay, s, t
        <3>2. Pair(a, b)
            BY <2>1, <3>1 DEF IInv, Files, PairsKept, Pair
        <3>3. \A u \in counted'[a] : u.stem = b => u \in counted[a]
            BY <1>1, <1>2, <2>3 DEF IInv, Counts, s, t
        <3> QED
            BY <2>1, <3>2, <3>3 DEF Pair
    <2> QED
        BY <2>2, <2>3
<1> QED
    BY <1>2, <1>3, <1>4, <1>5, <1>6, <1>7 DEF IInv, Files

\* What is left of a label file touches no other file.
LEMMA LabelsLeftTouch ==
    ASSUME TypeOK, NEW w \in writes, labels' \in LabelsLeft(w)
    PROVE  /\ labels' \in [Ids -> [Stems -> Contents]]
           /\ \A a \in Ids, b \in Stems :
                 \/ labels'[a][b] = labels[a][b]
                 \/ <<a, b>> = <<w.session, w.stem>> /\ w.at = "label"
<1>1. w.session \in Ids /\ w.stem \in Stems
    BY DEF TypeOK
<1>2. CASE labels' = labels
    BY <1>2 DEF TypeOK
<1>3. CASE /\ w.at = "label"
           /\ \E left \in {Damage, labels[w.session][w.stem]} :
                 labels' = [labels EXCEPT ![w.session][w.stem] = left]
    <2>1. labels[w.session][w.stem] \in Contents /\ Damage \in Contents
        BY <1>1 DEF TypeOK, Contents
    <2>2. PICK left \in Contents : labels' = [labels EXCEPT ![w.session][w.stem] = left]
        BY <1>3, <2>1
    <2> QED
        BY <1>1, <1>3, <2>2 DEF TypeOK
<1> QED
    BY <1>2, <1>3 DEF LabelsLeft

LEMMA WriteRaisesStep ==
    ASSUME IInv, NEW w \in writes, WriteRaises(w)
    PROVE  IInv'
<1>1. /\ w \in Writes /\ writes = {w} /\ w.session \in Ids /\ w.stem \in Stems
      /\ w.at \in {"image", "label"}
    BY DEF IInv, TypeOK, Waits, Writes, WriteRaises
<1>2. /\ writes' = {} /\ next' = 0 /\ lastError' = TRUE /\ faults' \in 0..FaultCap
      /\ torn' = IF w.at = "label" THEN torn \cup {<<w.session, w.stem>>} ELSE torn
      /\ UNCHANGED <<clocks, frame, saved, last, images, starts, counted>>
    BY <1>1, CollectorAssumption DEF WriteRaises, IInv, TypeOK
<1>3. /\ labels' \in [Ids -> [Stems -> Contents]]
      /\ \A a \in Ids, b \in Stems :
            \/ labels'[a][b] = labels[a][b]
            \/ <<a, b>> = <<w.session, w.stem>> /\ w.at = "label"
    BY LabelsLeftTouch DEF IInv, WriteRaises
<1>4. TypeOK'
    BY <1>1, <1>2, <1>3 DEF IInv, TypeOK, clocks
<1>5. First' /\ Waits' /\ Counts'
    BY <1>2, CountsStay DEF IInv, First, Waits
<1>6. PairsKept'
    <2> SUFFICES ASSUME NEW a \in Ids, NEW b \in Stems, <<a, b>> \notin torn'
                 PROVE  Pair(a, b)'
        BY DEF PairsKept, Pair
    <2>1. <<a, b>> \notin torn /\ labels'[a][b] = labels[a][b]
        BY <1>1, <1>2, <1>3
    <2>2. Pair(a, b)
        <3>1. CASE UnderWay(a, b)
            BY <1>1, <1>2, <2>1, <3>1 DEF UnderWay, IInv, Files, Halfway
        <3>2. CASE ~UnderWay(a, b)
            BY <2>1, <3>2 DEF IInv, Files, PairsKept, Pair
        <3> QED
            BY <3>1, <3>2
    <2> QED
        BY <1>2, <2>1, <2>2 DEF Pair
<1> QED
    BY <1>2, <1>4, <1>5, <1>6 DEF IInv, Files

LEMMA RestartStep == IInv /\ Restart => IInv'
<1> SUFFICES ASSUME IInv, Restart PROVE IInv'
    OBVIOUS
<1>1. /\ starts' \in 1..MaxStarts /\ next' = 0 /\ writes' = {} /\ lastError' = FALSE
      /\ saved' = [s \in Ids |-> 0] /\ last' = [s \in Ids |-> 0] /\ counted' = [s \in Ids |-> {}]
      /\ torn' = torn \cup {<<w.session, w.stem>> : w \in {v \in writes : v.at # "written"}}
      /\ UNCHANGED <<clocks, frame, faults>>
    BY CollectorAssumption DEF Restart, IInv, TypeOK
<1>2. /\ labels' \in [Ids -> [Stems -> Contents]]
      /\ \A a \in Ids, b \in Stems :
            \/ labels'[a][b] = labels[a][b]
            \/ \E w \in writes : <<a, b>> = <<w.session, w.stem>> /\ w.at = "label"
    <2>1. CASE labels' = labels
        BY <2>1 DEF IInv, TypeOK
    <2>2. CASE \E w \in writes : labels' \in LabelsLeft(w)
        BY <2>2, LabelsLeftTouch DEF IInv
    <2> QED
        BY <2>1, <2>2 DEF Restart
<1>3. /\ images' \in [Ids -> [Stems -> Contents]]
      /\ \A a \in Ids, b \in Stems :
            \/ images'[a][b] = images[a][b]
            \/ \E w \in writes : <<a, b>> = <<w.session, w.stem>> /\ w.at = "image"
    <2>1. CASE images' = images
        BY <2>1 DEF IInv, TypeOK
    <2>2. CASE \E w \in writes : /\ w.at = "image"
                                 /\ images' = [images EXCEPT ![w.session][w.stem] = Damage]
        <3>1. PICK w \in writes : /\ w.at = "image"
                                  /\ images' = [images EXCEPT ![w.session][w.stem] = Damage]
            BY <2>2
        <3>2. w.session \in Ids /\ w.stem \in Stems /\ Damage \in Contents
            BY DEF IInv, TypeOK, Contents
        <3> QED
            BY <3>1, <3>2 DEF IInv, TypeOK
    <2> QED
        BY <2>1, <2>2 DEF Restart
<1>4. TypeOK'
    <2>1. torn' \subseteq Ids \X Stems
        BY <1>1 DEF IInv, TypeOK
    <2>2. saved' \in [Ids -> Nat] /\ last' \in [Ids -> 0..MaxTime]
        BY <1>1, CollectorAssumption
    <2> QED
        BY <1>1, <1>2, <1>3, <2>1, <2>2 DEF IInv, TypeOK, clocks
<1>5. First' /\ Waits'
    BY <1>1 DEF First, Waits
<1>6. Counts'
    BY <1>1, SessionKnown, FS_EmptySet DEF Counts
<1>7. PairsKept'
    <2> SUFFICES ASSUME NEW a \in Ids, NEW b \in Stems, <<a, b>> \notin torn'
                 PROVE  Pair(a, b)'
        BY DEF PairsKept, Pair
    <2>1. <<a, b>> \notin torn
        BY <1>1
    <2>2. \A w \in writes : <<a, b>> = <<w.session, w.stem>> => w.at = "written"
        BY <1>1
    <2>3. images'[a][b] = images[a][b] /\ labels'[a][b] = labels[a][b]
        BY <1>2, <1>3, <2>2
    <2>4. images[a][b] = labels[a][b]
        <3>1. CASE UnderWay(a, b)
            BY <2>1, <2>2, <3>1 DEF UnderWay, IInv, Files, Halfway
        <3>2. CASE ~UnderWay(a, b)
            BY <2>1, <3>2 DEF IInv, Files, PairsKept
        <3> QED
            BY <3>1, <3>2
    <2> QED
        BY <1>1, <2>3, <2>4 DEF Pair
<1> QED
    BY <1>1, <1>4, <1>5, <1>6, <1>7 DEF IInv, Files

-----------------------------------------------------------------------------

\* Only the clocks move.
LEMMA ClockStep ==
    ASSUME IInv, UNCHANGED <<frame, process, files, starts, counted, torn>>,
           wall' \in 0..MaxTime, mono' \in 0..MaxTime, faults' \in 0..FaultCap
    PROVE  IInv'
<1> USE DEF process, files
<1>1. TypeOK' /\ First' /\ Waits' /\ Counts'
    BY CountsStay DEF IInv, TypeOK, First, Waits, HasRoom
<1>2. PairsKept' /\ (\A w \in writes' : Halfway(w)')
    BY DEF IInv, Files, PairsKept, UnderWay, Halfway, Pair
<1> QED
    BY <1>1, <1>2 DEF IInv, Files

THEOREM NextIInv == IInv /\ [Next]_vars => IInv'
<1> SUFFICES ASSUME IInv, [Next]_vars PROVE IInv'
    OBVIOUS
<1>1. CASE FrameRead
    BY <1>1, FrameReadStep
<1>2. CASE Handle
    BY <1>2, HandleStep
<1>3. ASSUME NEW w \in writes, WriteImage(w) \/ WriteLabel(w) \/ Count(w) \/ WriteRaises(w)
      PROVE  IInv'
    BY <1>3, WriteImageStep, WriteLabelStep, CountStep, WriteRaisesStep
<1>4. CASE Elapse
    <2>1. wall' \in 0..MaxTime /\ mono' \in 0..MaxTime /\ faults' \in 0..FaultCap
        BY <1>4, CollectorAssumption DEF Elapse, IInv, TypeOK
    <2> QED
        BY <1>4, <2>1, ClockStep DEF Elapse
<1>5. CASE SetClock
    <2>1. wall' \in 0..MaxTime /\ mono' \in 0..MaxTime /\ faults' \in 0..FaultCap
        BY <1>5, CollectorAssumption DEF SetClock, IInv, TypeOK
    <2> QED
        BY <1>5, <2>1, ClockStep DEF SetClock
<1>6. CASE Restart
    BY <1>6, RestartStep
<1>7. CASE UNCHANGED vars
    BY <1>7, ClockStep DEF vars, clocks, IInv, TypeOK
<1> QED
    BY <1>1, <1>2, <1>3, <1>4, <1>5, <1>6, <1>7 DEF Next

\* Every variable keeps to its type, and the loop waits for the one write there is.
THEOREM Invariance == Spec => []IInv
BY InitIInv, NextIInv, PTL DEF Spec

\* max_frames is a ceiling of the frames a session counts in one run of the process.
THEOREM QuotaIsKept == Spec => []QuotaKept
<1>1. IInv => QuotaKept
    <2> SUFFICES ASSUME IInv, NEW s \in Ids, Sessions[s].maxFrames # NoLimit
                 PROVE  Cardinality(counted[s]) <= Sessions[s].maxFrames
        BY DEF QuotaKept
    <2>1. Cardinality(counted[s]) \in Nat /\ saved[s] \in Nat
        BY FS_CardinalityType DEF IInv, Counts, TypeOK
    <2> QED
        BY <2>1, SessionKnown DEF IInv, Counts
<1> QED
    BY <1>1, Invariance, PTL

\* Image and label of a name are of one frame, and no counted frame is without.
THEOREM PairsStay == Spec => []PairsKept
<1>1. IInv => PairsKept
    BY DEF IInv, Files
<1> QED
    BY <1>1, Invariance, PTL
=============================================================================
