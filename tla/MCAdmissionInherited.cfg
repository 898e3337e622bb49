SPECIFICATION Spec
CONSTANTS
    Pids = {p1, p2, p3, p4}
    Inherited = {p1}
    Limit = 2
INVARIANT AdmittedWithinLimit
