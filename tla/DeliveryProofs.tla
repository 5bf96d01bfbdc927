--------------------------- MODULE DeliveryProofs ---------------------------
(* Proofs about Delivery, for every value of its constants. *)
EXTENDS Delivery, FiniteSetTheorems, WellFoundedInduction, TLAPS

-----------------------------------------------------------------------------
(* Facts about the operators the steps are built from.                     *)

\* Sets of rows are finite, so that counting them yields a number.
LEMMA RowSets ==
    ASSUME NEW S \in SUBSET Rows
    PROVE  IsFiniteSet(S) /\ Cardinality(S) \in Nat
<1>1. IsFiniteSet(Rows)
    BY FS_Interval, DeliveryAssumption DEF Rows
<1> QED
    BY <1>1, FS_Subset, FS_CardinalityType

\* The larger and the smaller of two numbers are one of the two.
LEMMA MaxOfTwo ==
    ASSUME NEW a \in Nat, NEW b \in Nat
    PROVE  Max({a, b}) \in {a, b}
<1>1. \E x \in {a, b} : \A y \in {a, b} : x >= y
    <2>1. CASE a >= b  BY <2>1
    <2>2. CASE b >= a  BY <2>2
    <2> QED  BY <2>1, <2>2
<1> QED
    BY <1>1 DEF Max

LEMMA MinOfTwo ==
    ASSUME NEW a \in Nat, NEW b \in Nat
    PROVE  Min({a, b}) \in {a, b} /\ Min({a, b}) <= b
<1>1. \E x \in {a, b} : \A y \in {a, b} : x <= y
    <2>1. CASE a >= b  BY <2>1
    <2>2. CASE b >= a  BY <2>2
    <2> QED  BY <2>1, <2>2
<1> QED
    BY <1>1 DEF Min

-----------------------------------------------------------------------------
(* Types.                                                                  *)

\* What a commit leaves: the types of the variables it changes.
LEMMA CommitTypes ==
    ASSUME TypeOK, Commit
    PROVE  /\ disk' \in [Rows -> Status] /\ tx' \in BOOLEAN
           /\ pages' \in Nat /\ file' \in Nat
           /\ stored' \subseteq Rows
           /\ UNCHANGED <<next, db, dropped, delivered, doubt>>
<1>1. Live(db) \subseteq Rows
    BY DEF Live
<1>2. Cardinality(Live(db)) \in Nat
    BY <1>1, RowSets
<1>3. pages' \in Nat
    BY <1>2, MaxOfTwo DEF Commit, TypeOK
<1> QED
    BY <1>1, <1>3 DEF Commit, TypeOK

\* The memory of a process that is gone, or of a new one.
LEMMA MemoryTypes ==
    ASSUME NEW writer \in WriterPC, NEW worker \in IngestPC, Memory(writer, worker)
    PROVE  /\ wpc' \in [Writers -> WriterPC]
           /\ mine' \in [Writers -> SUBSET Rows]
           /\ since' \in [Writers -> Nat]
           /\ trigger' \in BOOLEAN /\ progress' \in BOOLEAN
           /\ ipc' \in IngestPC /\ batch' \subseteq Rows
           /\ failures' \in 0..FailureCap
<1>1. wpc' \in [Writers -> WriterPC]
    BY DEF Memory
<1>2. mine' \in [Writers -> SUBSET Rows]
    <2>1. mine' = [w \in Writers |-> {}]
        BY DEF Memory
    <2> QED
        BY <2>1
<1>3. since' \in [Writers -> Nat]
    BY DEF Memory
<1>4. trigger' \in BOOLEAN /\ progress' \in BOOLEAN
    BY DEF Memory
<1>5. failures' \in 0..FailureCap
    BY DeliveryAssumption DEF Memory
<1>6. ipc' \in IngestPC /\ batch' \subseteq Rows
    BY DEF Memory
<1> QED
    BY <1>1, <1>2, <1>3, <1>4, <1>5, <1>6

\* Every step keeps the types: one step per action.
LEMMA TypingStep ==
    ASSUME TypeOK, [Next]_vars
    PROVE  TypeOK'
<1> USE DEF TypeOK, Phases, DownPhases, IngestPC, FlushPC, WriterPC, Status,
            Live, Pending, Sent
<1>1. ASSUME NEW w \in Writers, Insert(w)  PROVE TypeOK'
    <2>1. PICK n \in 1..FrameRows :
              /\ next + n <= MaxRow
              /\ next' = next + n
              /\ mine' = [mine EXCEPT ![w] = (next + 1)..(next + n)]
              /\ db' = [r \in Rows |-> IF r \in mine'[w] THEN "pending" ELSE db[r]]
        BY <1>1 DEF Insert
    <2>2. (next + 1)..(next + n) \subseteq Rows
        BY <2>1, DeliveryAssumption DEF Rows
    <2>3. next' \in 0..MaxRow
        BY <2>1, DeliveryAssumption
    <2>4. mine' \in [Writers -> SUBSET Rows]
        BY <2>1, <2>2
    <2>5. db' \in [Rows -> Status]
        BY <2>1
    <2> QED
        BY <1>1, <2>3, <2>4, <2>5 DEF Insert, history, ingestVars, procVars
<1>36. ASSUME NEW w \in Writers, Stats(w) \/ StatsOnly(w)  PROVE TypeOK'
    BY <1>36 DEF Stats, StatsOnly, dbVars, history, ingestVars, procVars
<1>2. ASSUME NEW w \in Writers, CommitRows(w)  PROVE TypeOK'
    BY <1>2, CommitTypes DEF CommitRows, dbVars, history, writerVars, ingestVars, procVars
<1>3. ASSUME NEW w \in Writers, Return(w), UNCHANGED <<next, db, disk, tx, pages, history>>, file' \in Nat
      PROVE  TypeOK'
    <2>1. Cardinality(mine[w]) \in Nat
        BY RowSets
    <2> QED
        BY <1>3, <2>1 DEF Return, dbVars, history, writerVars, ingestVars, procVars
<1>4. ASSUME NEW w \in Writers, WithinLimit(w)  PROVE TypeOK'
    BY <1>4, <1>3 DEF WithinLimit, dbVars, history, writerVars, ingestVars, procVars
<1>5. ASSUME NEW w \in Writers, PurgeForSpace(w)  PROVE TypeOK'
    BY <1>5
    DEF PurgeForSpace, dbVars, history, writerVars, ingestVars, procVars, Execute, Delete,
        Oldest
<1>6. ASSUME NEW w \in Writers, DropPending(w)  PROVE TypeOK'
    BY <1>6
    DEF DropPending, dbVars, history, writerVars, ingestVars, procVars, Execute, Delete,
        Oldest
<1>7. ASSUME NEW w \in Writers, CommitDeletes(w)  PROVE TypeOK'
    BY <1>7, CommitTypes DEF CommitDeletes, dbVars, history, writerVars, ingestVars, procVars
<1>8. ASSUME NEW w \in Writers, Checkpoint(w)  PROVE TypeOK'
    BY <1>8, <1>3 DEF Checkpoint, dbVars, history, writerVars, ingestVars, procVars
<1>9. ASSUME NEW w \in Writers, CheckpointRaises(w)  PROVE TypeOK'
    BY <1>9 DEF CheckpointRaises, dbVars, history, writerVars, ingestVars, procVars, Raise
<1>10. ASSUME NEW w \in Writers, RecordFailure(w)  PROVE TypeOK'
    BY <1>10 DEF RecordFailure, dbVars, history, writerVars, ingestVars, procVars
<1>11. ASSUME NEW w \in Writers, WriteRaises(w)  PROVE TypeOK'
    BY <1>11 DEF WriteRaises, dbVars, history, writerVars, ingestVars, procVars, Raise
<1>12. CASE Wake
    BY <1>12 DEF Wake, dbVars, history, writerVars, ingestVars, procVars
<1>13. CASE Select
    BY <1>13 DEF Select, Oldest, Pending, dbVars, history, writerVars, ingestVars, procVars
<1>14. CASE Fetch
    BY <1>14
    DEF Fetch, dbVars, history, writerVars, ingestVars, procVars, After, Oldest, Pending
<1>15. ASSUME NEW t \in Tables, PushAccepted(t)  PROVE TypeOK'
    BY <1>15 DEF PushAccepted, Group, dbVars, history, writerVars, ingestVars, procVars
<1>16. CASE PushRefused
    BY <1>16 DEF PushRefused, dbVars, history, writerVars, ingestVars, procVars
<1>17. CASE PushUnanswered
    BY <1>17
    DEF PushUnanswered, dbVars, history, writerVars, ingestVars, procVars, Group, Unrecorded
<1>18. CASE Mark
    BY <1>18
    DEF Mark, dbVars, history, writerVars, ingestVars, procVars, Execute, SetStatus, Group
<1>19. CASE CommitSent
    BY <1>19, CommitTypes, DeliveryAssumption
    DEF CommitSent, dbVars, history, writerVars, ingestVars, procVars, After, Group
<1>20. CASE CommitFailed
    <2>1. failures' \in 0..FailureCap
        BY <1>20, MinOfTwo, DeliveryAssumption DEF CommitFailed
    <2> QED
        BY <1>20, <2>1, CommitTypes
        DEF CommitFailed, After, Group, dbVars, history, writerVars, ingestVars, procVars
<1>21. CASE Purge
    BY <1>21 DEF Purge, dbVars, history, writerVars, ingestVars, procVars, Execute, Delete
<1>22. CASE CommitPurge
    BY <1>22, CommitTypes DEF CommitPurge, dbVars, history, writerVars, ingestVars, procVars
<1>23. CASE FlushRaises
    BY <1>23 DEF FlushRaises, dbVars, history, writerVars, ingestVars, procVars
<1>24. CASE Signal
    BY <1>24 DEF Signal, dbVars, history, writerVars, ingestVars, procVars
<1>25. ASSUME NEW w \in Writers, PipelineEnds(w)  PROVE TypeOK'
    BY <1>25 DEF PipelineEnds, dbVars, history, writerVars, ingestVars, procVars
<1>26. CASE CancelPipelines
    BY <1>26 DEF CancelPipelines, dbVars, history, writerVars, ingestVars, procVars
<1>27. CASE StopIngest
    BY <1>27 DEF StopIngest, dbVars, history, writerVars, ingestVars, procVars
<1>28. CASE CancelLoop
    BY <1>28
    DEF CancelLoop, dbVars, history, writerVars, ingestVars, procVars, CutFlush, Group,
        Unrecorded
<1>29. CASE StartDrain
    BY <1>29 DEF StartDrain, dbVars, history, writerVars, ingestVars, procVars
<1>30. CASE DrainTimeout
    BY <1>30
    DEF DrainTimeout, dbVars, history, writerVars, ingestVars, procVars, CutFlush, Group,
        Unrecorded
<1>31. CASE StopRaises
    BY <1>31, MemoryTypes
    DEF StopRaises, dbVars, history, writerVars, ingestVars, procVars, Rollback
<1>32. CASE CloseBuffer
    BY <1>32, MemoryTypes
    DEF CloseBuffer, dbVars, history, writerVars, ingestVars, procVars, Rollback
<1>33. CASE Crash
    BY <1>33, MemoryTypes DEF Crash, dbVars, history, writerVars, ingestVars, procVars, Rollback
<1>34. CASE Restart
    <2>1. starts' \in 1..MaxStarts
        BY <1>34, DeliveryAssumption DEF Restart, MayEnd
    <2>2. phase' \in Phases
        BY <1>34 DEF Restart
    <2>3. Memory("idle", "wait")
        BY <1>34 DEF Restart
    <2> QED
        BY <1>34, <2>1, <2>2, <2>3, MemoryTypes DEF Restart, dbVars, history
<1>35. CASE UNCHANGED vars
    BY <1>35 DEF vars, dbVars, history, writerVars, ingestVars, procVars
<1> QED
    BY <1>1, <1>2, <1>4, <1>5, <1>6, <1>7, <1>8, <1>9, <1>10, <1>11, <1>12, <1>13, <1>14,
        <1>15, <1>16, <1>17, <1>18, <1>19, <1>20, <1>21, <1>22, <1>23, <1>24, <1>25, <1>26,
        <1>27, <1>28, <1>29, <1>30, <1>31, <1>32, <1>33, <1>34, <1>35, <1>36
    DEF Next, WriterStep, IngestStep, PushStep, ShutdownStep

\* The initial state is typed.
LEMMA InitTypes == Init => TypeOK
<1>1. SUFFICES ASSUME Init  PROVE TypeOK
    OBVIOUS
<1>2. mine = [w \in Writers |-> {}]
    BY <1>1 DEF Init
<1>3. mine \in [Writers -> SUBSET Rows]
    BY <1>2
<1>4. /\ db \in [Rows -> Status] /\ disk \in [Rows -> Status]
      /\ wpc \in [Writers -> WriterPC] /\ since \in [Writers -> Nat]
    BY <1>1 DEF Init, Status, WriterPC
<1>5. next \in 0..MaxRow /\ failures \in 0..FailureCap /\ starts \in 1..MaxStarts
    BY <1>1, DeliveryAssumption DEF Init
<1>6. tx \in BOOLEAN /\ trigger \in BOOLEAN /\ progress \in BOOLEAN
    BY <1>1 DEF Init
<1>7. phase \in Phases /\ ipc \in IngestPC
    BY <1>1 DEF Init, Phases, IngestPC
<1> QED
    BY <1>1, <1>3, <1>4, <1>5, <1>6, <1>7 DEF Init, TypeOK

\* Type correctness.
THEOREM Typing == Spec => []TypeOK
BY InitTypes, TypingStep, PTL DEF Spec

-----------------------------------------------------------------------------
(* Safety: the inductive invariant IInv of Delivery.                       *)

\* A group is part of the batch it is taken from.
LEMMA GroupInBatch ==
    ASSUME NEW b
    PROVE  Group(b) \subseteq b
BY DEF Group

\* A step that touches neither the rows nor the flush keeps the invariant.
LEMMA QuietStep ==
    ASSUME IInv,
           UNCHANGED <<next, db, disk, tx, stored, dropped, delivered, doubt, ipc, batch>>
    PROVE  /\ SentIsAccepted' /\ NoSilentLoss' /\ Clean' /\ Unborn' /\ KeptInDb'
           /\ OnDiskOnce' /\ AcceptedGroup' /\ UntriedIsNew' /\ UnmarkedBatch'
           /\ AcceptedIsMarked'
BY DEF IInv, SentIsAccepted, NoSilentLoss, Clean, Unborn, KeptInDb, OnDiskOnce,
       AcceptedGroup, Untried, UntriedIsNew, UnmarkedBatch, AcceptedIsMarked,
       Live, Pending, Sent, Group

\* The parts of the invariant that speak of the database and its history only.
DatabaseInv == /\ SentIsAccepted
               /\ NoSilentLoss
               /\ Clean
               /\ KeptInDb
               /\ OnDiskOnce

\* A commit of whatever is in the transaction keeps them.
LEMMA CommitStep ==
    ASSUME TypeOK, DatabaseInv, Commit
    PROVE  DatabaseInv'
BY DEF TypeOK, DatabaseInv, Commit, SentIsAccepted, NoSilentLoss, Clean, KeptInDb,
       OnDiskOnce, Live, Sent

\* So does deleting rows that were accepted or are counted as dropped.
LEMMA DeleteStep ==
    ASSUME TypeOK, DatabaseInv, NEW S \in SUBSET Rows, Execute(Delete(S)),
           UNCHANGED <<stored, delivered>>, dropped \subseteq dropped',
           S \subseteq delivered \cup dropped'
    PROVE  DatabaseInv'
BY DEF TypeOK, DatabaseInv, Execute, Delete, SentIsAccepted, NoSilentLoss, Clean,
       KeptInDb, OnDiskOnce, Live, Sent

\* And so does losing the open transaction.
LEMMA RollbackStep ==
    ASSUME TypeOK, DatabaseInv, Rollback
    PROVE  DatabaseInv'
BY DEF TypeOK, DatabaseInv, Rollback, SentIsAccepted, NoSilentLoss, Clean, KeptInDb,
       OnDiskOnce, Live, Sent

\* The parts that speak of the flush.
FlushInv == /\ Unborn
            /\ AcceptedGroup
            /\ UntriedIsNew
            /\ UnmarkedBatch
            /\ AcceptedIsMarked

\* A commit, and a delete, that leave the flush where it is keep them.
LEMMA StoreKeepsFlush ==
    ASSUME TypeOK, FlushInv, UNCHANGED <<next, delivered, doubt, ipc, batch>>,
           \/ Commit
           \/ \E S \in SUBSET Rows : Execute(Delete(S))
    PROVE  FlushInv'
<1>1. CASE Commit
    BY <1>1 DEF TypeOK, FlushInv, Commit, Unborn, AcceptedGroup, UntriedIsNew, Untried,
                UnmarkedBatch, AcceptedIsMarked, Pending, Sent, Group
<1>2. CASE \E S \in SUBSET Rows : Execute(Delete(S))
    BY <1>2 DEF TypeOK, FlushInv, Execute, Delete, Unborn, AcceptedGroup, UntriedIsNew,
                Untried, UnmarkedBatch, AcceptedIsMarked, Pending, Sent, Group
<1> QED
    BY <1>1, <1>2

\* A process that is gone pushes nothing.
LEMMA RollbackForgetsFlush ==
    ASSUME TypeOK, FlushInv, Rollback, ipc' = "ended", batch' = {}
    PROVE  FlushInv'
BY DEF TypeOK, FlushInv, Rollback, Unborn, AcceptedGroup, UntriedIsNew, Untried,
       UnmarkedBatch, AcceptedIsMarked, Pending, Sent

\* A process goes down only by a step that ends its memory, and does nothing
\* until it is restarted.
LEMMA DownStep ==
    ASSUME TypeOK, DownIsQuiet, [Next]_vars
    PROVE  DownIsQuiet'
<1>1. CASE UNCHANGED <<phase, ipc>>
    BY <1>1 DEF DownIsQuiet, Alive
<1>2. CASE StopRaises \/ CloseBuffer \/ Crash
    BY <1>2 DEF StopRaises, CloseBuffer, Crash, Memory, DownIsQuiet
<1>3. CASE Alive /\ phase' = phase
    BY <1>3 DEF DownIsQuiet, Alive
<1>4. CASE phase' \in {"running", "stopping", "closing", "draining"}
    BY <1>4 DEF DownIsQuiet, Alive, DownPhases
<1>5. CASE /\ Alive
           /\ \/ \E w \in Writers : Stats(w) \/ Insert(w) \/ WriterStep(w) \/ WriteRaises(w)
              \/ IngestStep
              \/ FlushRaises
    <2>1. phase' = phase
        BY <1>5
        DEF Stats, StatsOnly, Insert, WriterStep, CommitRows, WithinLimit, Return,
            PurgeForSpace,
            DropPending, CommitDeletes, Checkpoint, CheckpointRaises, Raise,
            RecordFailure, WriteRaises, IngestStep, Wake, Select, Fetch, PushStep,
            PushAccepted, PushRefused, PushUnanswered, Mark, CommitSent, CommitFailed,
            Purge, CommitPurge, FlushRaises, procVars
    <2> QED
        BY <1>3, <1>5, <2>1
<1>6. CASE ShutdownStep
    BY <1>2, <1>4, <1>6, <1>1
    DEF ShutdownStep, PipelineEnds, StopIngest, StartDrain, Restart, procVars, ingestVars
<1>7. CASE Signal \/ CancelPipelines \/ CancelLoop \/ DrainTimeout
    BY <1>4, <1>7 DEF Signal, CancelPipelines, CancelLoop, DrainTimeout, procVars
<1>8. CASE UNCHANGED vars
    BY <1>1, <1>8 DEF vars, procVars, ingestVars
<1> QED
    BY <1>2, <1>5, <1>6, <1>7, <1>8 DEF Next

\* Every step keeps the invariant: one step per action.
LEMMA InvariantStep ==
    ASSUME IInv, [Next]_vars
    PROVE  IInv'
<1>1. TypeOK /\ TypeOK' /\ DatabaseInv /\ FlushInv
    BY TypingStep DEF IInv, DatabaseInv, FlushInv
<1>2. SUFFICES DatabaseInv' /\ FlushInv'
    BY <1>1, DownStep DEF IInv, DatabaseInv, FlushInv
<1>3. ASSUME UNCHANGED <<next, db, disk, tx, stored, dropped, delivered, doubt, ipc, batch>>
      PROVE  DatabaseInv' /\ FlushInv'
    BY <1>1, <1>3, QuietStep DEF IInv, DatabaseInv, FlushInv
<1>38. ASSUME NEW w \in Writers, Stats(w) \/ StatsOnly(w)  PROVE DatabaseInv' /\ FlushInv'
    BY <1>38, <1>3 DEF Stats, StatsOnly, dbVars, history, ingestVars
<1>4. ASSUME NEW w \in Writers, Insert(w)  PROVE DatabaseInv' /\ FlushInv'
    <2>1. PICK n \in 1..FrameRows :
              /\ next' = next + n
              /\ mine' = [mine EXCEPT ![w] = (next + 1)..(next + n)]
              /\ db' = [r \in Rows |-> IF r \in mine'[w] THEN "pending" ELSE db[r]]
        BY <1>4 DEF Insert
    <2>2. mine'[w] = (next + 1)..(next + n)
        BY <1>1, <2>1 DEF TypeOK
    <2>8. n \in Nat /\ next \in Nat /\ \A r \in Rows : r \in Nat
        BY <1>1, DeliveryAssumption DEF TypeOK, Rows
    <2>3. \A r \in Rows :
              \/ r > next /\ db'[r] \in {db[r], "pending"}
              \/ r <= next /\ db'[r] = db[r]
        <3>1. \A r \in Rows : db'[r] = IF r \in mine'[w] THEN "pending" ELSE db[r]
            BY <2>1
        <3> QED
            BY <2>2, <2>8, <3>1
    <2>4. \A r \in Rows : r > next' => r > next /\ db'[r] = db[r]
        <3>1. \A r \in Rows : r > next' => r > next /\ r \notin mine'[w]
            BY <2>1, <2>2, <2>8
        <3> QED
            BY <2>1, <3>1
    <2>5. /\ tx' = TRUE
          /\ UNCHANGED <<disk, stored, dropped, delivered, doubt, ipc, batch>>
        BY <1>4 DEF Insert, history, ingestVars
    <2>6. DatabaseInv'
        BY <1>1, <2>3, <2>5
        DEF TypeOK, DatabaseInv, SentIsAccepted, NoSilentLoss, Clean, KeptInDb, OnDiskOnce,
            Live, Sent
    <2>7. FlushInv'
        BY <1>1, <2>3, <2>4, <2>5
        DEF TypeOK, Group, FlushInv, Unborn, AcceptedGroup, UntriedIsNew, Untried,
            UnmarkedBatch, AcceptedIsMarked, Pending, Sent
    <2> QED
        BY <2>6, <2>7
<1>5. ASSUME NEW w \in Writers, CommitRows(w)  PROVE DatabaseInv' /\ FlushInv'
    BY <1>5, <1>1, CommitStep, StoreKeepsFlush
    DEF CommitRows, Commit, dbVars, history, writerVars, ingestVars, procVars
<1>6. ASSUME NEW w \in Writers, WithinLimit(w)  PROVE DatabaseInv' /\ FlushInv'
    BY <1>6, <1>3 DEF WithinLimit, dbVars, history, writerVars, ingestVars, procVars, Return
<1>7. ASSUME NEW w \in Writers, PurgeForSpace(w)  PROVE DatabaseInv' /\ FlushInv'
    <2> DEFINE gone == Oldest(Sent(db), DropChunk)
    <2>1. gone \subseteq Rows /\ gone \subseteq delivered
        BY <1>1 DEF Oldest, Sent, DatabaseInv, SentIsAccepted
    <2>2. /\ Execute(Delete(gone))
          /\ UNCHANGED <<next, stored, dropped, delivered, doubt, ipc, batch>>
        BY <1>7 DEF PurgeForSpace, Execute, history, ingestVars
    <2> HIDE DEF gone
    <2> QED
        BY <1>1, <2>1, <2>2, DeleteStep, StoreKeepsFlush
<1>8. ASSUME NEW w \in Writers, DropPending(w)  PROVE DatabaseInv' /\ FlushInv'
    <2> DEFINE gone == Oldest(Pending(db), DropChunk)
    <2>1. gone \subseteq Rows
        BY DEF Oldest, Pending
    <2>2. /\ Execute(Delete(gone))
          /\ dropped' = dropped \cup gone
          /\ UNCHANGED <<next, stored, delivered, doubt, ipc, batch>>
        BY <1>8 DEF DropPending, Execute, ingestVars
    <2> HIDE DEF gone
    <2> QED
        BY <1>1, <2>1, <2>2, DeleteStep, StoreKeepsFlush
<1>9. ASSUME NEW w \in Writers, CommitDeletes(w)  PROVE DatabaseInv' /\ FlushInv'
    BY <1>9, <1>1, CommitStep, StoreKeepsFlush
    DEF CommitDeletes, Commit, dbVars, history, writerVars, ingestVars, procVars
<1>10. ASSUME NEW w \in Writers, Checkpoint(w)  PROVE DatabaseInv' /\ FlushInv'
    <2>1. UNCHANGED <<ipc, batch>>
        BY <1>10 DEF Checkpoint, Return, ingestVars
    <2> QED
        BY <1>10, <1>3, <2>1 DEF Checkpoint, history
<1>11. ASSUME NEW w \in Writers, CheckpointRaises(w)  PROVE DatabaseInv' /\ FlushInv'
    BY <1>11, <1>3
    DEF CheckpointRaises, dbVars, history, writerVars, ingestVars, procVars, Raise
<1>12. ASSUME NEW w \in Writers, RecordFailure(w)  PROVE DatabaseInv' /\ FlushInv'
    BY <1>12, <1>3 DEF RecordFailure, dbVars, history, writerVars, ingestVars, procVars
<1>13. ASSUME NEW w \in Writers, WriteRaises(w)  PROVE DatabaseInv' /\ FlushInv'
    BY <1>13, <1>3 DEF WriteRaises, dbVars, history, writerVars, ingestVars, procVars, Raise
<1>14. CASE Wake
    <2>1. DatabaseInv'
        BY <1>14, <1>1
        DEF Wake, dbVars, history, writerVars, ingestVars, procVars, DatabaseInv,
            SentIsAccepted, NoSilentLoss, Clean, KeptInDb, OnDiskOnce, Live, Sent
    <2>2. FlushInv'
        BY <1>14, <1>1, GroupInBatch
        DEF Wake, dbVars, history, writerVars, ingestVars, procVars, TypeOK, FlushInv,
            Unborn, AcceptedGroup, UntriedIsNew, Untried, UnmarkedBatch, AcceptedIsMarked,
            Pending, Sent
    <2> QED
        BY <2>1, <2>2
<1>15. CASE Select
    <2>1. DatabaseInv'
        BY <1>15, <1>1
        DEF Select, dbVars, history, writerVars, ingestVars, procVars, DatabaseInv,
            SentIsAccepted, NoSilentLoss, Clean, KeptInDb, OnDiskOnce, Live, Sent
    <2>2. FlushInv'
        BY <1>15, <1>1, GroupInBatch
        DEF Select, Oldest, dbVars, history, writerVars, ingestVars, procVars, TypeOK,
            FlushInv, Unborn, AcceptedGroup, UntriedIsNew, Untried, UnmarkedBatch,
            AcceptedIsMarked, Pending, Sent
    <2> QED
        BY <2>1, <2>2
<1>16. CASE Fetch
    <2>1. DatabaseInv'
        BY <1>16, <1>1
        DEF Fetch, After, Oldest, dbVars, history, writerVars, ingestVars, procVars,
            DatabaseInv, SentIsAccepted, NoSilentLoss, Clean, KeptInDb, OnDiskOnce, Live,
            Sent
    <2>2. FlushInv'
        BY <1>16, <1>1, GroupInBatch
        DEF Fetch, After, Oldest, dbVars, history, writerVars, ingestVars, procVars, TypeOK,
            FlushInv, Unborn, AcceptedGroup, UntriedIsNew, Untried, UnmarkedBatch,
            AcceptedIsMarked, Pending, Sent
    <2> QED
        BY <2>1, <2>2
<1>17. ASSUME NEW t \in Tables, PushAccepted(t)  PROVE DatabaseInv' /\ FlushInv'
    <2>1. DatabaseInv'
        BY <1>17, <1>1
        DEF PushAccepted, dbVars, history, writerVars, ingestVars, procVars, DatabaseInv,
            SentIsAccepted, NoSilentLoss, Clean, KeptInDb, OnDiskOnce, Live, Sent
    <2>2. FlushInv'
        BY <1>17, <1>1, GroupInBatch
        DEF PushAccepted, dbVars, history, writerVars, ingestVars, procVars, TypeOK,
            FlushInv, Unborn, AcceptedGroup, UntriedIsNew, Untried, UnmarkedBatch,
            AcceptedIsMarked, Pending, Sent
    <2> QED
        BY <2>1, <2>2
<1>18. CASE PushRefused
    <2>1. DatabaseInv'
        BY <1>18, <1>1
        DEF PushRefused, dbVars, history, writerVars, ingestVars, procVars, DatabaseInv,
            SentIsAccepted, NoSilentLoss, Clean, KeptInDb, OnDiskOnce, Live, Sent
    <2>2. FlushInv'
        BY <1>18, <1>1, GroupInBatch
        DEF PushRefused, dbVars, history, writerVars, ingestVars, procVars, TypeOK,
            FlushInv, Unborn, AcceptedGroup, UntriedIsNew, Untried, UnmarkedBatch,
            AcceptedIsMarked, Pending, Sent
    <2> QED
        BY <2>1, <2>2
<1>19. CASE PushUnanswered
    <2>1. DatabaseInv'
        BY <1>19, <1>1
        DEF PushUnanswered, Unrecorded, dbVars, history, writerVars, ingestVars, procVars,
            DatabaseInv, SentIsAccepted, NoSilentLoss, Clean, KeptInDb, OnDiskOnce, Live,
            Sent
    <2>2. FlushInv'
        BY <1>19, <1>1, GroupInBatch
        DEF PushUnanswered, Unrecorded, dbVars, history, writerVars, ingestVars, procVars,
            TypeOK, FlushInv, Unborn, AcceptedGroup, UntriedIsNew, Untried, UnmarkedBatch,
            AcceptedIsMarked, Pending, Sent
    <2> QED
        BY <2>1, <2>2
<1>20. CASE Mark
    <2>1. /\ ipc \in {"accepted", "refused"}
          /\ db' = SetStatus(Group(batch), IF ipc = "accepted" THEN "sent" ELSE "pending")
          /\ tx' = TRUE
          /\ ipc' = IF ipc = "accepted" THEN "commitSent" ELSE "commitFailed"
          /\ UNCHANGED <<next, disk, stored, dropped, delivered, doubt, batch>>
        BY <1>20 DEF Mark, Execute, history
    <2>2. DatabaseInv'
        BY <1>1, <2>1
        DEF SetStatus, AcceptedGroup, FlushInv, TypeOK, Status, DatabaseInv, SentIsAccepted,
            NoSilentLoss, Clean, KeptInDb, OnDiskOnce, Live, Sent
    <2>3. /\ Group(batch) \subseteq batch
          /\ Group(batch') = Group(batch)
        BY <2>1, GroupInBatch
    <2>4. \A r \in Rows :
              \/ db'[r] = db[r]
              \/ /\ ipc = "accepted" /\ r \in Group(batch)
                 /\ db[r] # "absent" /\ db'[r] = "sent"
        BY <1>1, <2>1, <2>3 DEF SetStatus, TypeOK, Status, FlushInv, UnmarkedBatch, Sent
    <2>5. Unborn' /\ AcceptedGroup'
        BY <1>1, <2>1, <2>4 DEF FlushInv, Unborn, AcceptedGroup
    <2>6. UntriedIsNew' /\ UnmarkedBatch'
        BY <1>1, <2>1, <2>3, <2>4
        DEF FlushInv, UntriedIsNew, UnmarkedBatch, Untried, Sent
    <2>7. AcceptedIsMarked'
        BY <1>1, <2>1, <2>3, <2>4 DEF FlushInv, AcceptedIsMarked, Pending, SetStatus
    <2>8. FlushInv'
        BY <2>5, <2>6, <2>7 DEF FlushInv
    <2> QED
        BY <2>2, <2>8
<1>21. CASE CommitSent
    <2>1. DatabaseInv'
        BY <1>21, <1>1, CommitStep DEF CommitSent
    <2>2. FlushInv'
        BY <1>21, <1>1, GroupInBatch
        DEF CommitSent, Commit, After, TypeOK, FlushInv, Unborn, AcceptedGroup,
            UntriedIsNew, Untried, UnmarkedBatch, AcceptedIsMarked, Pending, Sent
    <2> QED
        BY <2>1, <2>2
<1>22. CASE CommitFailed
    <2>1. DatabaseInv'
        BY <1>22, <1>1, CommitStep DEF CommitFailed
    <2>2. FlushInv'
        BY <1>22, <1>1, GroupInBatch
        DEF CommitFailed, Commit, After, TypeOK, FlushInv, Unborn, AcceptedGroup,
            UntriedIsNew, Untried, UnmarkedBatch, AcceptedIsMarked, Pending, Sent
    <2> QED
        BY <2>1, <2>2
<1>23. CASE Purge
    <2>1. PICK old \in SUBSET Sent(db) : Execute(Delete(old))
        BY <1>23 DEF Purge
    <2>2. old \subseteq Rows /\ old \subseteq delivered
        BY <1>1 DEF Sent, DatabaseInv, SentIsAccepted
    <2>3. /\ ipc = "purge" /\ ipc' = "commitPurge"
          /\ UNCHANGED <<next, disk, stored, dropped, delivered, doubt, batch>>
        BY <1>23, <2>1 DEF Purge, Execute, history
    <2>4. DatabaseInv'
        BY <1>1, <2>1, <2>2, <2>3, DeleteStep
    <2>5. FlushInv'
        BY <1>1, <2>1, <2>2, <2>3
        DEF Execute, Delete, TypeOK, FlushInv, Unborn, AcceptedGroup, UntriedIsNew, Untried,
            UnmarkedBatch, AcceptedIsMarked, Pending, Sent
    <2> QED
        BY <2>4, <2>5
<1>24. CASE CommitPurge
    <2>1. DatabaseInv'
        BY <1>24, <1>1, CommitStep DEF CommitPurge
    <2>2. FlushInv'
        BY <1>24, <1>1
        DEF CommitPurge, Commit, TypeOK, FlushInv, Unborn, AcceptedGroup, UntriedIsNew,
            Untried, UnmarkedBatch, AcceptedIsMarked, Pending, Sent
    <2> QED
        BY <2>1, <2>2
<1>25. CASE FlushRaises
    <2>1. DatabaseInv'
        BY <1>25, <1>1
        DEF FlushRaises, dbVars, history, writerVars, ingestVars, procVars, DatabaseInv,
            SentIsAccepted, NoSilentLoss, Clean, KeptInDb, OnDiskOnce, Live, Sent
    <2>2. FlushInv'
        BY <1>25, <1>1, GroupInBatch
        DEF FlushRaises, dbVars, history, writerVars, ingestVars, procVars, TypeOK,
            FlushInv, Unborn, AcceptedGroup, UntriedIsNew, Untried, UnmarkedBatch,
            AcceptedIsMarked, Pending, Sent
    <2> QED
        BY <2>1, <2>2
<1>26. CASE Signal
    BY <1>26, <1>3 DEF Signal, dbVars, history, writerVars, ingestVars, procVars
<1>27. ASSUME NEW w \in Writers, PipelineEnds(w)  PROVE DatabaseInv' /\ FlushInv'
    BY <1>27, <1>3 DEF PipelineEnds, dbVars, history, writerVars, ingestVars, procVars
<1>28. CASE CancelPipelines
    BY <1>28, <1>3 DEF CancelPipelines, dbVars, history, writerVars, ingestVars, procVars
<1>29. CASE StopIngest
    BY <1>29, <1>3 DEF StopIngest, dbVars, history, writerVars, ingestVars, procVars
<1>30. CASE CancelLoop
    <2>1. DatabaseInv'
        BY <1>30, <1>1
        DEF CancelLoop, CutFlush, Unrecorded, dbVars, history, writerVars, ingestVars,
            procVars, DatabaseInv, SentIsAccepted, NoSilentLoss, Clean, KeptInDb,
            OnDiskOnce, Live, Sent
    <2>2. FlushInv'
        BY <1>30, <1>1, GroupInBatch
        DEF CancelLoop, CutFlush, Unrecorded, dbVars, history, writerVars, ingestVars,
            procVars, TypeOK, FlushInv, Unborn, AcceptedGroup, UntriedIsNew, Untried,
            UnmarkedBatch, AcceptedIsMarked, Pending, Sent
    <2> QED
        BY <2>1, <2>2
<1>31. CASE DrainTimeout
    <2>1. DatabaseInv'
        BY <1>31, <1>1
        DEF DrainTimeout, CutFlush, Unrecorded, dbVars, history, writerVars, ingestVars,
            procVars, DatabaseInv, SentIsAccepted, NoSilentLoss, Clean, KeptInDb,
            OnDiskOnce, Live, Sent
    <2>2. FlushInv'
        BY <1>31, <1>1, GroupInBatch
        DEF DrainTimeout, CutFlush, Unrecorded, dbVars, history, writerVars, ingestVars,
            procVars, TypeOK, FlushInv, Unborn, AcceptedGroup, UntriedIsNew, Untried,
            UnmarkedBatch, AcceptedIsMarked, Pending, Sent
    <2> QED
        BY <2>1, <2>2
<1>32. CASE StartDrain
    <2>1. DatabaseInv'
        BY <1>32, <1>1
        DEF StartDrain, dbVars, history, writerVars, ingestVars, procVars, DatabaseInv,
            SentIsAccepted, NoSilentLoss, Clean, KeptInDb, OnDiskOnce, Live, Sent
    <2>2. FlushInv'
        BY <1>32, <1>1, GroupInBatch
        DEF StartDrain, dbVars, history, writerVars, ingestVars, procVars, TypeOK, FlushInv,
            Unborn, AcceptedGroup, UntriedIsNew, Untried, UnmarkedBatch, AcceptedIsMarked,
            Pending, Sent
    <2> QED
        BY <2>1, <2>2
<1>33. CASE StopRaises
    BY <1>33, <1>1, RollbackStep, RollbackForgetsFlush DEF StopRaises, Memory
<1>34. CASE CloseBuffer
    BY <1>34, <1>1, RollbackStep, RollbackForgetsFlush DEF CloseBuffer, Memory
<1>35. CASE Crash
    BY <1>35, <1>1, RollbackStep, RollbackForgetsFlush DEF Crash, Memory
<1>36. CASE Restart
    <2>1. DatabaseInv'
        BY <1>36, <1>1
        DEF Restart, dbVars, history, writerVars, ingestVars, procVars, DatabaseInv,
            SentIsAccepted, NoSilentLoss, Clean, KeptInDb, OnDiskOnce, Live, Sent
    <2>2. FlushInv'
        <3>1. ipc = "ended"
            BY <1>36 DEF IInv, DownIsQuiet, Restart, Alive
        <3> QED
            BY <1>36, <1>1, <3>1
            DEF Restart, Memory, dbVars, history, writerVars, ingestVars, procVars, TypeOK,
                FlushInv, Unborn, AcceptedGroup, UntriedIsNew, Untried, UnmarkedBatch,
                AcceptedIsMarked, Pending, Sent
    <2> QED
        BY <2>1, <2>2
<1>37. CASE UNCHANGED vars
    BY <1>37, <1>3 DEF vars, dbVars, history, writerVars, ingestVars, procVars
<1> QED
    BY <1>4, <1>5, <1>6, <1>7, <1>8, <1>9, <1>10, <1>11, <1>12, <1>13, <1>14, <1>15, <1>16,
        <1>17, <1>18, <1>19, <1>20, <1>21, <1>22, <1>23, <1>24, <1>25, <1>26, <1>27, <1>28,
        <1>29, <1>30, <1>31, <1>32, <1>33, <1>34, <1>35, <1>36, <1>37, <1>38
    DEF Next, WriterStep, IngestStep, PushStep, ShutdownStep

\* The invariant holds of every reachable state.
THEOREM Invariance == Spec => []IInv
<1>1. Init => IInv
    <2>1. Init => TypeOK
        BY InitTypes
    <2> QED
        BY <2>1
        DEF Init, DownIsQuiet, Alive, DownPhases, IInv, DatabaseInv, SentIsAccepted,
            NoSilentLoss, Clean, KeptInDb, OnDiskOnce, Live, Sent, FlushInv, Unborn,
            AcceptedGroup, UntriedIsNew, Untried, UnmarkedBatch, AcceptedIsMarked, Pending,
            Sent
<1> QED
    BY <1>1, InvariantStep, PTL DEF Spec

\* A row marked sent was accepted by the backend.
THEOREM SentIsTrue == Spec => []SentIsAccepted
<1>1. IInv => SentIsAccepted
    BY DEF IInv
<1> QED
    BY <1>1, Invariance, PTL

\* A committed row is never lost but to the size limit, whatever crashes,
\* cancellations, lost answers and interleaved transactions occur.
THEOREM NothingLost == Spec => []NoSilentLoss
<1>1. IInv => NoSilentLoss
    BY DEF IInv
<1> QED
    BY <1>1, Invariance, PTL

\* An accepted row is pushed again only when its acceptance went unrecorded.
THEOREM ResendNeedsDoubt == Spec => []NoNeedlessResend
<1>1. IInv => NoNeedlessResend
    BY DEF IInv, UntriedIsNew, Untried, NoNeedlessResend
<1> QED
    BY <1>1, Invariance, PTL

-----------------------------------------------------------------------------
(* A write that is past its commit is durable.                             *)

\* The rows that a step may take out of the open transaction.
Accounted == Live(db) \subseteq Live(db') \cup delivered' \cup dropped'

\* What is known of the rows of a write() lasts while the other coroutines go on.
HistoryGrows == /\ stored \subseteq stored'
                /\ delivered \subseteq delivered'
                /\ dropped \subseteq dropped'
                /\ Accounted

\* The history is never rewritten, and a row leaves the transaction of a living
\* process only when accepted or dropped.
LEMMA HistoryStep ==
    ASSUME IInv, [Next]_vars, ~(StopRaises \/ CloseBuffer \/ Crash)
    PROVE  HistoryGrows
<1> USE DEF HistoryGrows, Accounted
<1>1. TypeOK /\ Sent(db) \subseteq delivered
    BY DEF IInv, SentIsAccepted
<1>2. ASSUME UNCHANGED <<db, stored, delivered, dropped>>  PROVE HistoryGrows
    BY <1>2 DEF Live
<1>3. CASE Commit
    BY <1>3 DEF Commit, Live
<1>4. ASSUME NEW S \in SUBSET Rows, Execute(Delete(S)), UNCHANGED <<stored, delivered>>,
             dropped \subseteq dropped', S \subseteq delivered \cup dropped'
      PROVE  HistoryGrows
    BY <1>4 DEF Execute, Delete, Live
<1>5. ASSUME NEW w \in Writers, Insert(w)  PROVE HistoryGrows
    <2>1. \E S : db' = [r \in Rows |-> IF r \in S THEN "pending" ELSE db[r]]
        BY <1>5 DEF Insert
    <2>2. UNCHANGED <<stored, delivered, dropped>>
        BY <1>5 DEF Insert, history
    <2> QED
        BY <2>1, <2>2 DEF Live
<1>6. ASSUME NEW w \in Writers, PurgeForSpace(w)  PROVE HistoryGrows
    <2> DEFINE gone == Oldest(Sent(db), DropChunk)
    <2>1. gone \subseteq Rows /\ gone \subseteq delivered
        BY <1>1 DEF Oldest, Sent
    <2>2. Execute(Delete(gone)) /\ UNCHANGED <<stored, delivered, dropped>>
        BY <1>6 DEF PurgeForSpace, history
    <2> HIDE DEF gone
    <2> QED
        BY <1>4, <2>1, <2>2
<1>7. ASSUME NEW w \in Writers, DropPending(w)  PROVE HistoryGrows
    <2> DEFINE gone == Oldest(Pending(db), DropChunk)
    <2>1. gone \subseteq Rows
        BY DEF Oldest, Pending
    <2>2. /\ Execute(Delete(gone))
          /\ dropped' = dropped \cup gone /\ UNCHANGED <<stored, delivered>>
        BY <1>7 DEF DropPending
    <2> HIDE DEF gone
    <2> QED
        BY <1>4, <2>1, <2>2
<1>8. ASSUME NEW w \in Writers, WriterStep(w) \/ Stats(w) \/ WriteRaises(w)
      PROVE  HistoryGrows
    <2>1. CASE CommitRows(w) \/ CommitDeletes(w)
        BY <1>3, <2>1 DEF CommitRows, CommitDeletes
    <2>2. CASE \/ Stats(w) \/ StatsOnly(w) \/ WithinLimit(w) \/ Checkpoint(w)
               \/ CheckpointRaises(w) \/ RecordFailure(w) \/ WriteRaises(w)
        BY <1>2, <2>2 DEF Stats, StatsOnly, WithinLimit, Checkpoint, CheckpointRaises,
            RecordFailure, WriteRaises, dbVars, history
    <2> QED
        BY <1>6, <1>7, <1>8, <2>1, <2>2 DEF WriterStep
<1>9. CASE IngestStep \/ FlushRaises
    <2>1. CASE CommitSent \/ CommitFailed \/ CommitPurge
        BY <1>3, <2>1 DEF CommitSent, CommitFailed, CommitPurge
    <2>2. CASE Wake \/ Select \/ Fetch \/ PushRefused \/ FlushRaises
        BY <1>2, <2>2 DEF Wake, Select, Fetch, PushRefused, FlushRaises, dbVars, history
    <2>3. CASE PushUnanswered \/ \E t \in Tables : PushAccepted(t)
        BY <2>3 DEF PushUnanswered, PushAccepted, dbVars, Live
    <2>4. CASE Mark
        BY <1>1, <2>4 DEF Mark, Execute, SetStatus, history, Live, TypeOK
    <2>5. CASE Purge
        <3>1. PICK old \in SUBSET Sent(db) : Execute(Delete(old))
            BY <2>5 DEF Purge
        <3>2. old \subseteq Rows /\ old \subseteq delivered
            BY <1>1 DEF Sent
        <3> QED
            BY <1>4, <2>5, <3>1, <3>2 DEF Purge, history
    <2> QED
        BY <1>9, <2>1, <2>2, <2>3, <2>4, <2>5 DEF IngestStep, PushStep
<1>10. CASE CancelLoop \/ DrainTimeout
    BY <1>10 DEF CancelLoop, DrainTimeout, CutFlush, dbVars, Live
<1>11. CASE \/ \E w \in Writers : PipelineEnds(w)
            \/ StopIngest \/ StartDrain \/ Restart \/ Signal \/ CancelPipelines
            \/ UNCHANGED vars
    BY <1>2, <1>11 DEF PipelineEnds, StopIngest, StartDrain, Restart, Signal,
        CancelPipelines, vars, dbVars, history
<1> QED
    BY <1>5, <1>8, <1>9, <1>10, <1>11 DEF Next, ShutdownStep

\* Every step keeps what write() can promise: one step per kind of action.
LEMMA WriteStep ==
    ASSUME IInv, WriteInv, [Next]_vars
    PROVE  WriteInv'
<1> USE DEF WriteInv, WaitingIsInDb, WriteIsDurable
<1>1. TypeOK /\ TypeOK' /\ wpc \in [Writers -> WriterPC] /\ mine \in [Writers -> SUBSET Rows]
    BY TypingStep DEF IInv, TypeOK
<1> DEFINE Early == {"idle", "stats", "noStats", "commit", "raised", "ended"}
<1>2. ASSUME HistoryGrows,
             \A w \in Writers :
                \/ wpc'[w] \in Early \ {"commit"}
                \/ /\ mine'[w] = mine[w]
                   /\ \/ wpc'[w] = wpc[w]
                      \/ wpc[w] \notin Early /\ wpc'[w] \notin Early
      PROVE  WriteInv'
    BY <1>2 DEF HistoryGrows, Accounted
<1>3. CASE StopRaises \/ CloseBuffer \/ Crash
    BY <1>3 DEF StopRaises, CloseBuffer, Crash, Memory
<1>4. HistoryGrows \/ StopRaises \/ CloseBuffer \/ Crash
    BY HistoryStep
<1>5. ASSUME NEW w \in Writers, Insert(w)  PROVE WriteInv'
    <2>1. /\ wpc' = [wpc EXCEPT ![w] = "commit"]
          /\ \A v \in Writers \ {w} : mine'[v] = mine[v]
        BY <1>1, <1>5 DEF Insert
    <2>2. mine'[w] \subseteq Live(db')
        <3>1. db' = [r \in Rows |-> IF r \in mine'[w] THEN "pending" ELSE db[r]]
            BY <1>5 DEF Insert
        <3>2. mine'[w] \subseteq Rows
            BY <1>1 DEF TypeOK
        <3> QED
            BY <3>1, <3>2 DEF Live
    <2>3. HistoryGrows
        BY <1>5, HistoryStep DEF Insert, StopRaises, CloseBuffer, Crash, history, Memory
    <2> QED
        BY <1>1, <2>1, <2>2, <2>3 DEF HistoryGrows, Accounted
<1>6. ASSUME NEW w \in Writers, CommitRows(w)  PROVE WriteInv'
    <2>1. /\ wpc[w] = "commit" /\ wpc' = [wpc EXCEPT ![w] = "size"] /\ mine' = mine
          /\ stored' = stored \cup Live(db)
          /\ UNCHANGED <<db, delivered, dropped>>
        BY <1>6 DEF CommitRows, Commit
    <2> QED
        BY <1>1, <2>1 DEF Live
<1> HIDE DEF WriteInv, WaitingIsInDb, WriteIsDurable
<1>16. ASSUME NEW w \in Writers, NEW x, wpc' = [wpc EXCEPT ![w] = x], HistoryGrows,
              \/ x \in Early \ {"commit"}
              \/ wpc[w] \notin Early /\ x \notin Early /\ mine'[w] = mine[w],
              \A v \in Writers \ {w} : mine'[v] = mine[v]
       PROVE  WriteInv'
    <2>1. wpc'[w] = x /\ \A v \in Writers \ {w} : wpc'[v] = wpc[v]
        BY <1>1, <1>16
    <2> QED
        BY <1>2, <1>16, <2>1
<1>7. ASSUME NEW w \in Writers, Return(w), HistoryGrows  PROVE WriteInv'
    <2>1. wpc' = [wpc EXCEPT ![w] = "idle"] /\ mine' = [mine EXCEPT ![w] = {}]
        BY <1>7 DEF Return
    <2> QED
        BY <1>1, <1>7, <1>16, <2>1
<1>8. ASSUME NEW w \in Writers, Raise(w), HistoryGrows  PROVE WriteInv'
    <2>1. wpc' = [wpc EXCEPT ![w] = "raised"] /\ mine' = [mine EXCEPT ![w] = {}]
        BY <1>8 DEF Raise
    <2> QED
        BY <1>1, <1>8, <1>16, <2>1
<1>9. ASSUME NEW w \in Writers, HistoryGrows,
             \/ Stats(w) \/ StatsOnly(w) \/ PurgeForSpace(w) \/ DropPending(w)
             \/ CommitDeletes(w) \/ RecordFailure(w) \/ PipelineEnds(w)
      PROVE  WriteInv'
    <2>1. mine' = mine
        BY <1>9 DEF Stats, StatsOnly, PurgeForSpace, DropPending, CommitDeletes,
            RecordFailure, PipelineEnds
    <2>2. CASE Stats(w) \/ StatsOnly(w) \/ RecordFailure(w) \/ PipelineEnds(w)
        <3>1. PICK x \in {"idle", "stats", "noStats", "ended"} : wpc' = [wpc EXCEPT ![w] = x]
            BY <2>2 DEF Stats, StatsOnly, RecordFailure, PipelineEnds
        <3> QED
            BY <1>9, <1>16, <2>1, <3>1
    <2>3. CASE PurgeForSpace(w) \/ DropPending(w) \/ CommitDeletes(w)
        <3>1. PICK x \in {"commitPurged", "commitDropped", "checkpoint", "lastCheckpoint"} :
                  wpc' = [wpc EXCEPT ![w] = x]
            BY <2>3 DEF PurgeForSpace, DropPending, CommitDeletes
        <3>2. wpc[w] \notin Early
            BY <2>3 DEF PurgeForSpace, DropPending, CommitDeletes
        <3> QED
            BY <1>9, <1>16, <2>1, <3>1, <3>2
    <2> QED
        BY <1>9, <2>2, <2>3
<1>10. ASSUME NEW w \in Writers, HistoryGrows, WriterStep(w) \/ Stats(w) \/ WriteRaises(w)
       PROVE  WriteInv'
    <2>1. CASE Checkpoint(w)
        <3>1. CASE wpc[w] = "checkpoint"
            BY <1>10, <1>16, <2>1, <3>1 DEF Checkpoint
        <3>2. CASE wpc[w] # "checkpoint"
            BY <1>7, <1>10, <2>1, <3>2 DEF Checkpoint
        <3> QED
            BY <3>1, <3>2
    <2>2. CASE WithinLimit(w)
        BY <1>7, <1>10, <2>2 DEF WithinLimit
    <2>3. CASE CheckpointRaises(w) \/ WriteRaises(w)
        BY <1>8, <1>10, <2>3 DEF CheckpointRaises, WriteRaises
    <2> QED
        BY <1>6, <1>9, <1>10, <2>1, <2>2, <2>3 DEF WriterStep
<1>11. ASSUME HistoryGrows, UNCHANGED <<wpc, mine>>  PROVE WriteInv'
    BY <1>2, <1>11
<1>12. CASE IngestStep \/ FlushRaises \/ CancelLoop \/ DrainTimeout \/ StopIngest \/ StartDrain
    <2>1. UNCHANGED <<wpc, mine>>
        BY <1>12 DEF IngestStep, FlushRaises, CancelLoop, DrainTimeout, CutFlush, StopIngest,
            StartDrain, Wake, Select, Fetch, PushStep, PushAccepted, PushRefused,
            PushUnanswered, Mark, CommitSent, CommitFailed, Purge, CommitPurge, writerVars
    <2> QED
        BY <1>3, <1>4, <1>11, <2>1
<1>13. CASE Signal
    <2>1. \A w \in Writers :
              wpc'[w] = "ended" \/ (wpc'[w] = wpc[w] /\ mine'[w] = mine[w])
        <3>1. /\ wpc' = [w \in Writers |-> IF w \in Heartbeats THEN "ended" ELSE wpc[w]]
              /\ mine' = [w \in Writers |-> IF w \in Heartbeats THEN {} ELSE mine[w]]
            BY <1>13 DEF Signal
        <3> QED
            BY <3>1
    <2> QED
        BY <1>2, <1>3, <1>4, <2>1
<1>14. CASE CancelPipelines \/ Restart
    BY <1>2, <1>3, <1>4, <1>14 DEF CancelPipelines, Restart, Memory
<1>15. CASE UNCHANGED vars
    BY <1>3, <1>4, <1>11, <1>15 DEF vars, writerVars
<1> QED
    BY <1>3, <1>4, <1>5, <1>9, <1>10, <1>12, <1>13, <1>14, <1>15 DEF Next, ShutdownStep

\* Past its commit a write() has its rows on disk, accepted, or dropped by the size limit,
\* however the transactions of the other coroutines fall around it.
THEOREM WritesAreDurable == Spec => []WriteIsDurable
<1>1. Init => WriteInv
    BY DEF Init, WriteInv, WaitingIsInDb, WriteIsDurable
<1>2. IInv /\ WriteInv /\ [Next]_vars => WriteInv'
    BY WriteStep
<1>3. WriteInv => WriteIsDurable
    BY DEF WriteInv
<1> QED
    BY <1>1, <1>2, <1>3, Invariance, PTL DEF Spec

-----------------------------------------------------------------------------
(* A drain that ends by itself leaves no row behind.                       *)

\* Rows are numbered by natural numbers, whose order is well-founded.
Below == {pair \in Nat \X Nat : pair[1] < pair[2]}

LEMMA BelowIsWellFounded == IsWellFoundedOn(Below, Nat)
BY NatLessThanWellFounded DEF OpToRel, Below

\* A set of rows that is not empty has an oldest one.
LEMMA OldestOfRows ==
    ASSUME NEW S \in SUBSET Rows, S # {}
    PROVE  \E r \in S : \A q \in S : ~(q < r)
<1>1. S \subseteq Nat
    BY DeliveryAssumption DEF Rows
<1>2. PICK r \in S : \A q \in S : <<q, r>> \notin Below
    BY <1>1, BelowIsWellFounded, WFMin
<1>3. \A q \in S : q < r => <<q, r>> \in Below
    BY <1>1 DEF Below
<1> QED
    BY <1>2, <1>3

\* So a SELECT with a LIMIT returns a row whenever there is one.
LEMMA SelectFinds ==
    ASSUME NEW S \in SUBSET Rows, NEW n \in Nat \ {0}, Oldest(S, n) = {}
    PROVE  S = {}
<1>1. SUFFICES ASSUME S # {}  PROVE FALSE
    OBVIOUS
<1>2. PICK r \in S : \A q \in S : ~(q < r)
    BY <1>1, OldestOfRows
<1>3. {q \in S : q < r} = {}
    BY <1>2
<1>4. Cardinality({q \in S : q < r}) = 0
    BY <1>3, FS_EmptySet
<1>5. r \in Oldest(S, n)
    BY <1>4 DEF Oldest
<1> QED
    BY <1>5

\* A writer that has ended takes no step.
LEMMA EndedIsEnded ==
    ASSUME NEW w \in Writers, wpc[w] = "ended"
    PROVE  ~(Stats(w) \/ Insert(w) \/ WriterStep(w) \/ WriteRaises(w) \/ PipelineEnds(w))
BY DEF Stats, Insert, Ready, WriterStep, StatsOnly, CommitRows, WithinLimit, PurgeForSpace,
       DropPending, CommitDeletes, Checkpoint, CheckpointRaises, RecordFailure, WriteRaises,
       PipelineEnds

\* Every step keeps the invariant of the drain: one step per kind of action.
LEMMA DrainStep ==
    ASSUME IInv, DrainInv, [Next]_vars
    PROVE  DrainInv'
<1> USE DEF DrainInv, LastWriter, DrainSelect, DrainEmpties
<1>1. TypeOK /\ DeliveryAssumption /\ Pending(db) \subseteq Rows
    BY DeliveryAssumption DEF IInv, Pending
<1>2. ASSUME phase' \notin {"closing", "draining"}  PROVE DrainInv'
    BY <1>2
<1>3. ASSUME UNCHANGED <<phase, wpc>>, ipc' \notin {"fetch", "drained"}  PROVE DrainInv'
    BY <1>3
<1>4. ASSUME UNCHANGED <<phase, wpc, db, ipc, batch, failures>>  PROVE DrainInv'
    BY <1>4 DEF Pending
<1>5. CASE Select
    <2>1. UNCHANGED <<phase, wpc, db>> /\ ipc' = "fetch" /\ batch' = Oldest(Pending(db), 1)
        BY <1>5 DEF Select, procVars, writerVars, dbVars
    <2>2. batch' = {} => Pending(db) = {}
        BY <1>1, <2>1, SelectFinds
    <2> QED
        BY <2>1, <2>2 DEF Pending
<1>6. CASE Fetch
    <2>1. /\ UNCHANGED <<phase, wpc, db>> /\ ipc = "fetch"
          /\ batch' = IF batch = {} THEN {} ELSE Oldest(batch \cup Pending(db), BatchSize)
          /\ ipc' = After(batch', FALSE)
        BY <1>6 DEF Fetch, procVars, writerVars, dbVars
    <2>2. phase = "draining" /\ batch' = {} => Pending(db) = {}
        <3>1. batch \cup Pending(db) \subseteq Rows
            BY <1>1 DEF TypeOK
        <3>2. BatchSize \in Nat \ {0}
            BY DeliveryAssumption
        <3>3. Oldest(batch \cup Pending(db), BatchSize) = {} => batch \cup Pending(db) = {}
            BY <3>1, <3>2, SelectFinds
        <3> QED
            BY <2>1, <3>3
    <2>3. ipc' # "fetch" /\ (ipc' = "drained" => batch' = {})
        BY <2>1 DEF After
    <2> QED
        BY <2>1, <2>2, <2>3 DEF Pending
<1>7. CASE CommitSent
    BY <1>3, <1>7 DEF CommitSent, After, writerVars, procVars
<1>8. CASE CommitFailed
    <2>1. failures' \in {failures + 1, FailureCap}
        BY <1>8, MinOfTwo, DeliveryAssumption DEF CommitFailed, IInv, TypeOK
    <2>2. failures' # 0
        BY <2>1, DeliveryAssumption DEF IInv, TypeOK
    <2>3. UNCHANGED <<phase, wpc>> /\ ipc' # "fetch"
        BY <1>8 DEF CommitFailed, After, writerVars, procVars
    <2> QED
        BY <2>2, <2>3
<1>9. CASE Wake \/ PushStep \/ Mark \/ Purge \/ CommitPurge \/ FlushRaises
    BY <1>3, <1>9 DEF Wake, PushStep, PushAccepted, PushRefused, PushUnanswered, Mark, Purge,
        CommitPurge, FlushRaises, writerVars, procVars
<1>10. CASE IngestStep
    BY <1>5, <1>6, <1>7, <1>8, <1>9, <1>10 DEF IngestStep
<1>11. CASE CancelLoop \/ DrainTimeout
    BY <1>3, <1>11 DEF CancelLoop, DrainTimeout, CutFlush, writerVars, procVars
<1>12. ASSUME NEW w \in Writers,
              Stats(w) \/ Insert(w) \/ WriterStep(w) \/ WriteRaises(w) \/ PipelineEnds(w)
       PROVE  DrainInv'
    <2>1. phase' = phase
        BY <1>12
        DEF Stats, StatsOnly, Insert, WriterStep, CommitRows, WithinLimit, Return,
            PurgeForSpace, DropPending, CommitDeletes, Checkpoint, CheckpointRaises, Raise,
            RecordFailure, WriteRaises, PipelineEnds, procVars
    <2>2. wpc[w] # "ended"
        BY <1>12, EndedIsEnded
    <2> QED
        BY <1>2, <2>1, <2>2
<1>13. CASE StopIngest
    BY <1>13 DEF StopIngest, writerVars
<1>14. CASE StartDrain
    BY <1>14 DEF StartDrain, writerVars
<1>15. CASE StopRaises \/ CloseBuffer \/ Crash \/ Restart \/ Signal \/ CancelPipelines
    BY <1>2, <1>15 DEF StopRaises, CloseBuffer, Crash, Restart, Signal, CancelPipelines,
        procVars
<1>16. CASE UNCHANGED vars
    BY <1>4, <1>16 DEF vars, dbVars, writerVars, ingestVars, procVars
<1> QED
    BY <1>9, <1>10, <1>11, <1>12, <1>13, <1>14, <1>15, <1>16 DEF Next, ShutdownStep

\* When the drain ends by itself and its last push did not fail, no row is pending,
\* whatever the batch size, the tables and the interruptions before it.
THEOREM DrainIsComplete == Spec => []DrainEmpties
<1>1. Init => DrainInv
    BY DEF Init, DrainInv, LastWriter, DrainSelect, DrainEmpties
<1>2. IInv /\ DrainInv /\ [Next]_vars => DrainInv'
    BY DrainStep
<1>3. DrainInv => DrainEmpties
    BY DEF DrainInv
<1> QED
    BY <1>1, <1>2, <1>3, Invariance, PTL DEF Spec

-----------------------------------------------------------------------------
(* Refinement: the delivery path implements the at-least-once outbox.      *)

\* A commit settles the disk.
LEMMA CommitSettles ==
    ASSUME IInv, Commit
    PROVE  Box!Settle
<1>1. Live(disk') \subseteq 1..next
    BY DEF IInv, TypeOK, Commit, Unborn, Live, Rows
<1>2. Live(disk) \ Live(disk') \subseteq delivered \cup dropped
    BY DEF IInv, Commit, OnDiskOnce, KeptInDb, Live
<1> QED
    BY <1>1, <1>2 DEF Box!Settle, Commit, Live

\* A step that leaves the disk and the history alone is a stutter.
LEMMA OutboxStutters ==
    ASSUME UNCHANGED <<next, disk, delivered, dropped>>
    PROVE  UNCHANGED Box!boxVars
BY DEF Box!boxVars, Live

\* Pushing rows of the batch only delivers rows that were offered.
LEMMA BatchIsOffered ==
    ASSUME IInv
    PROVE  batch \subseteq 1..next /\ Group(batch) \subseteq 1..next
<1>1. batch \subseteq 1..next
    BY DEF IInv, TypeOK, Unborn, Rows
<1> QED
    BY <1>1, GroupInBatch

\* Every step is a step of the outbox or a stutter: one step per kind of action.
LEMMA OutboxStep ==
    ASSUME IInv, [Next]_vars
    PROVE  [Box!Next]_(Box!boxVars)
<1>1. ASSUME NEW w \in Writers, Insert(w)  PROVE Box!Next
    <2>1. PICK n \in 1..FrameRows : next + n <= MaxRow /\ next' = next + n
        BY <1>1 DEF Insert
    <2>2. n \in Nat /\ next \in Nat /\ MaxRow \in Nat
        BY DeliveryAssumption DEF IInv, TypeOK
    <2>3. 1..next \subseteq 1..next' /\ 1..next' \in SUBSET Rows
        BY <2>1, <2>2 DEF Rows
    <2>4. UNCHANGED <<Live(disk), delivered, dropped>>
        BY <1>1 DEF Insert, history, Live
    <2> QED
        BY <2>3, <2>4 DEF Box!Next, Box!Offer
<1>2. ASSUME NEW w \in Writers, DropPending(w)  PROVE Box!Next
    <2>1. PICK gone \in SUBSET Pending(db) : dropped' = dropped \cup gone
        BY <1>2 DEF DropPending, Oldest
    <2>2. Pending(db) \subseteq 1..next
        BY DEF IInv, TypeOK, Unborn, Pending, Rows
    <2>3. UNCHANGED <<next, Live(disk), delivered>>
        BY <1>2 DEF DropPending, Execute, Live
    <2> QED
        BY <2>1, <2>2, <2>3 DEF Box!Next, Box!Drop
<1>3. CASE Commit
    BY <1>3, CommitSettles DEF Box!Next
<1>4. ASSUME NEW S \in SUBSET batch, delivered' = delivered \cup S,
             UNCHANGED <<next, disk, dropped>>
      PROVE  Box!Next
    <2>1. S \subseteq 1..next
        BY BatchIsOffered
    <2> QED
        BY <1>4, <2>1 DEF Box!Next, Box!Deliver, Live
<1>5. CASE PushStep
    <2>1. ASSUME NEW t \in Tables, PushAccepted(t)  PROVE Box!Next
        BY <1>4, <2>1, GroupInBatch DEF PushAccepted, dbVars
    <2>2. CASE PushUnanswered
        BY <1>4, <2>2, GroupInBatch DEF PushUnanswered, dbVars
    <2>3. CASE PushRefused
        BY <2>3, OutboxStutters DEF PushRefused, dbVars, history
    <2> QED
        BY <1>5, <2>1, <2>2, <2>3 DEF PushStep
<1>6. CASE CancelLoop \/ DrainTimeout
    <2>1. UNCHANGED <<next, disk, dropped>>
        BY <1>6 DEF CancelLoop, DrainTimeout, CutFlush, dbVars
    <2>2. delivered' = delivered \/ delivered' = delivered \cup Group(batch)
        BY <1>6 DEF CancelLoop, DrainTimeout, CutFlush
    <2> QED
        BY <1>4, <2>1, <2>2, OutboxStutters, GroupInBatch
<1>7. ASSUME NEW w \in Writers, WriterStep(w)  PROVE [Box!Next]_(Box!boxVars)
    <2>1. CASE CommitRows(w) \/ CommitDeletes(w)
        BY <1>3, <2>1 DEF CommitRows, CommitDeletes
    <2>2. CASE WithinLimit(w) \/ PurgeForSpace(w) \/ Checkpoint(w)
                 \/ CheckpointRaises(w) \/ RecordFailure(w) \/ StatsOnly(w)
        BY <2>2, OutboxStutters DEF StatsOnly, WithinLimit, PurgeForSpace, Execute, Checkpoint,
            CheckpointRaises, RecordFailure, dbVars, history
    <2> QED
        BY <1>2, <1>7, <2>1, <2>2 DEF WriterStep
<1>8. CASE IngestStep
    <2>1. CASE CommitSent \/ CommitFailed \/ CommitPurge
        BY <1>3, <2>1 DEF CommitSent, CommitFailed, CommitPurge
    <2>2. CASE Wake \/ Select \/ Fetch \/ Mark \/ Purge
        BY <2>2, OutboxStutters DEF Wake, Select, Fetch, Mark, Purge, Execute, dbVars, history
    <2> QED
        BY <1>5, <1>8, <2>1, <2>2 DEF IngestStep
<1>9. CASE ShutdownStep \/ Crash \/ Signal \/ CancelPipelines \/ FlushRaises
    BY <1>9, OutboxStutters
    DEF ShutdownStep, PipelineEnds, StopIngest, StartDrain, StopRaises, CloseBuffer,
        Restart, Crash, Signal, CancelPipelines, FlushRaises, Rollback, dbVars, history
<1>10. ASSUME NEW w \in Writers, Stats(w) \/ WriteRaises(w)
       PROVE  [Box!Next]_(Box!boxVars)
    BY <1>10, OutboxStutters DEF Stats, WriteRaises, dbVars, history
<1>11. CASE UNCHANGED vars
    BY <1>11, OutboxStutters DEF vars, dbVars, history
<1> QED
    BY <1>1, <1>6, <1>7, <1>8, <1>9, <1>10, <1>11 DEF Next

\* The delivery path implements the outbox.
THEOREM ImplementsOutbox == Spec => OutboxSpec
<1>1. Init => Box!Init
    <2>1. ASSUME Init  PROVE 1..next = {} /\ Live(disk) = {}
        BY <2>1 DEF Init, Live
    <2> QED
        BY <2>1 DEF Init, Box!Init
<1> QED
    BY <1>1, Invariance, OutboxStep, PTL DEF Spec, OutboxSpec, Box!Spec
=============================================================================
