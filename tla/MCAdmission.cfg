SPECIFICATION FairSpec
CONSTANTS
    Pids = {p1, p2, p3}
    Inherited = {}
    Limit = 2
INVARIANTS
    AdmittedWithinLimit
    CountIsExact
    NoClientLeak
PROPERTIES
    RefusedOnlyWhenFull
    SlotRecovered
