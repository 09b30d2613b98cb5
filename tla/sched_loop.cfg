\* Two rows in batches of one, drains inside drains, a server that comes and goes.
SPECIFICATION LiveSpec
CONSTANTS
    MaxRows = 2
    BatchMax = 1
    MaxNested = 3
    MaxAsked = 2
    BaseDefault = 1
    MaxDefault = 4
    Intervals <- SomeIntervals
INVARIANTS LoopAlive DrainsAskedFor
PROPERTIES CatchesUpIfAnswered BacksOff
