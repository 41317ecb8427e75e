CONSTANTS
    Employees = {e1}
    Unknown = Unknown
    Health = Health
    None = None
    MaxEmit = 2
    BatchSize = 2
    Faults <- FaultPairs
    FaultBudget = 2
SPECIFICATION Spec
INVARIANTS TypeOK NoLossOnNetworkFailure StoredOnce
PROPERTIES DrainInOrder
