SPECIFICATION Spec
CONSTANTS
    w1 = w1
    w2 = w2
    t1 = t1
    t2 = t2
    Writers <- TwoWriters
    Heartbeats <- Reporter
    Tables <- TwoTables
    MaxRow = 2
    TableOf <- Alternating
    FrameRows = 2
    BatchSize = 2
    Limit = 1
    DropChunk = 1
    FailureCap = 1
    MaxStarts = 2
    Rejected <- Nothing
    Faults <- All
CHECK_DEADLOCK FALSE
INVARIANTS
    SentIsAccepted
    NoSilentLoss
    NoNeedlessResend
    WriteIsDurable
    DrainEmpties
PROPERTIES
    OutboxSpec
