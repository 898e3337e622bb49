SPECIFICATION Spec
CONSTANTS
    Bits = 4
    Half = 8
    StackLimit = 60
    Programs <- Unpromised
    BoundedPrograms = {}
    NumberCapacity = 2
    MaxCapacity = 7
    WordBytes = 2
    FixedScratch = 4
    FrameLimit = 100
    TextRecords <- SomeRecords
    StrictRecords <- SomeNumbers
    Arguments <- SomeArguments
    Streams <- SomeStreams
    Batches <- SomeBatches
    Lists <- SomeLists
INVARIANT PromiseKept
CHECK_DEADLOCK FALSE
