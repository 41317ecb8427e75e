CONSTANTS
    Employees = {e1, e2}
    Requests = {q1, q2}
    None = None
    ClientCap = 2
    MaxId = 2
    Faults <- FaultKinds
    FaultBudget = 1
SPECIFICATION Spec
SYMMETRY Symmetry
INVARIANTS TypeOK MatcherMatchesStorage EnrollmentRetained DeviceCatchesUp
