CONSTANTS
    Employees = {e1}
    Requests = {q1, q2}
    None = None
    ClientCap = 2
    MaxId = 2
    Faults = {}
    FaultBudget = 1
SPECIFICATION Spec
INVARIANTS MirrorsCatalog
