SPECIFICATION MCSpec
CONSTANTS
    NumPhases = 3
    MaxInFlight = 2
    Batches = {1, 2}
    MaxRecords = 3
    Units = 1
    MaxFalse = 1
INVARIANTS
    BufferExclusive
    NoLostWakeup
    JoinBeforeReuse
    PartialWavePublishesNothing
PROPERTIES
    CancelIsFinal
    RefinesPublication
    Termination
