SPECIFICATION LiveSpec
CONSTANTS
    d1 = d1
    Devices = {d1}
    Paired = {d1}
    MaxOps = 2
    BatchMax = 1
    MaxNested = 1
    ShelfStock = 1
    StoreStock = 1
    MaxStock = 1
    ServerMayFail = FALSE
    MaxForgotten = 1
    NoJob = NoJob
INVARIANTS TypeOK NothingLost
PROPERTIES ImplementsExactlyOnce EverythingSettles
