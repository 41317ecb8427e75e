CONSTANTS
    Employees = {a1, a2}
    Strangers = {s1}
    Nobody = Nobody
    Unknown = Unknown
    Grace = 2
    Stab = 3
    Cooldown = 4
    Beep = 2
    Throttle = 14
    Patience = 16
    Settings <- DefaultsWithoutGlitches
SPECIFICATION Spec
SYMMETRY Symmetry
INVARIANTS OneGrantPerStay
