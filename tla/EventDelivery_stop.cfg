CONSTANTS
    Employees = {e1}
    Unknown = Unknown
    Health = Health
    None = None
    MaxEmit = 2
    BatchSize = 2
    Faults = {"stop"}
    FaultBudget = 1
SPECIFICATION Spec
INVARIANTS NoEventLost
