SPECIFICATION Spec
CONSTANTS
    c1 = c1
    c2 = c2
    c3 = c3
    car = car
    person = person
    Cameras <- AllCameras
    Runtime <- Models
    Things <- TwoThings
    Pools <- TwoThings
    PoolOf <- PerClass
    Buffer = 1
    MaxUpdates = 5
    MaxStarts = 2
CHECK_DEADLOCK FALSE
INVARIANTS
    PruneIsInvisible
    IdentityIsOne
