CONSTANTS
    Staff = {e1, e2}
    Photos = 2
    MaxId = 4
    MaxSynced = 2
    Nobody = Nobody
    p = p
    q = q
    Events <- SomeEvents
    Targets <- SomeTargets
    ShiftStart <- Shift
    Limits = {1, 3}
    PageSize = 2
    MaxPages = 3
    Day = 8
    Requests = {r1, r2}
    Names = {n1, n2}
    Shifts = {s1}
    Absent = Absent
    Null = Null
    Empty = Empty
    Shots = {c1, c2, c3}
    MaxAttempts = 2
SYMMETRY Symmetry
SPECIFICATION AdministrationSpec
INVARIANTS
    AdministrationTypeOK TwoWritersApart ExportKeepsNewest DelayFromNearestStart
    UpdatesKept UploadsAddUp
