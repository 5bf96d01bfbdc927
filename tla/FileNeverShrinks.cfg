SPECIFICATION Spec
CONSTANTS
    w1 = w1
    w2 = w2
    t1 = t1
    t2 = t2
    Writers <- OneWriter
    Heartbeats <- Nothing
    Tables <- TwoTables
    MaxRow = 4
    TableOf <- OneTable
    FrameRows = 1
    BatchSize = 1
    Limit = 1
    DropChunk = 1
    FailureCap = 1
    MaxStarts = 1
    Rejected <- Nothing
    Faults <- Nothing
PROPERTIES
    DropsOnlyOverLimit
