CONSTANTS
    Employees = {e1}
    Unknown = Unknown
    Health = Health
    None = None
    MaxEmit = 2
    BatchSize = 2
    Faults <- DeviceFaults
    FaultBudget = 1
SPECIFICATION FairSpec
PROPERTIES BacklogDrains EventuallyStored
