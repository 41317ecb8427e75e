CONSTANTS
    Employees = {a1, a2}
    Strangers = {s1}
    Nobody = Nobody
    Unknown = Unknown
    Grace = 2
    Stab = 3
    Cooldown = 4
    Beep = 2
    Throttle = 14
    Patience = 25
    Settings <- BothSettings
SPECIFICATION Spec
SYMMETRY Symmetry
INVARIANTS TypeOK DecidesOnSteadyFace ServedInTime OneGrantIfIdleIsLong
PROPERTY UnknownThrottled
