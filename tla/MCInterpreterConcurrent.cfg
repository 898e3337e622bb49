SPECIFICATION Spec
CONSTANTS
    NumPhases = 3
    MaxInFlight = 2
    Batches = {1, 2}
    MaxRecords = 2
    Units = 2
INVARIANTS
    ResultsBounded
PROPERTIES
    PublishesOnlyWholeWaves
    RefinesPublication
    Termination
