SPECIFICATION Spec
CONSTANTS
    Names <- MCNames
    Version <- MCVersion
    Segments <- MCSegments
    Streams <- MCStreams
    MaxMethod = 2
    MaxTarget = 2
    Capacity = 25
    RequestTime = 2
    ResponseTime = 1
INVARIANTS
    TypeOK
    FramedAsReference
    ResponseIsExact
PROPERTIES
    ConnectionEnds
