SPECIFICATION Spec
CONSTANTS
    d1 = d1
    d2 = d2
    Devices = {d1, d2}
    Paired = {d1}
    MaxOps = 1
    BatchMax = 1
    MaxNested = 2
    ShelfStock = 0
    StoreStock = 0
    MaxStock = 0
    ServerMayFail = TRUE
    MaxForgotten = 2
    NoJob = NoJob
INVARIANTS OnceUnlessForgotten AppliedIsOnServer WrongKeyKeepsAll
PROPERTIES NeverRequeued VerdictsStand
