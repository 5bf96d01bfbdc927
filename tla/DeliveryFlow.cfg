SPECIFICATION FairSpec
CONSTANTS
    w1 = w1
    w2 = w2
    t1 = t1
    t2 = t2
    Writers <- OneWriter
    Heartbeats <- Nothing
    Tables <- TwoTables
    MaxRow = 4
    TableOf <- Alternating
    FrameRows = 1
    BatchSize = 2
    Limit = 0
    DropChunk = 1
    FailureCap = 1
    MaxStarts = 2
    Rejected <- RejectsOne
    Faults <- Restarts
PROPERTIES
    AcceptedTablesFlow
