CONSTANTS
    Employees = {e1}
    Requests = {q1, q2}
    None = None
    ClientCap = 1
    MaxId = 2
    Faults <- RecoverableFaults
    FaultBudget = 1
SPECIFICATION FairSpec
PROPERTIES RequestsFinish RevocationArrives EnrollmentArrives
