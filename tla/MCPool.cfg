SPECIFICATION Spec
CONSTANTS
    Pids = {1, 2, 3}
    Workers = 2
    Inherited = {3}
    MaxStops = 1
    Grace = 2
INVARIANTS
    TableNamesChildren
    OrphanNeverServes
    LiveIsExact
    CleanExitMeansDrained
PROPERTIES
    ExitLeavesNoService
    NoEarlyKill
    OrphansVanish
    ShutdownCompletes
    WorkerDeathEndsPool
