CONSTANTS
    o1 = o1
    o2 = o2
    n1 = n1
    r1 = r1
    r2 = r2
    None = None
    Old = {o1, o2}
    New = {n1}
    Request = {r1, r2}
    MaxCrash = 1
    MaxCareless = 1
SPECIFICATION Spec
INVARIANTS RowsTellTheTruth HealthyServes
PROPERTIES CutoverVerified OnlyMigratingTouched
SYMMETRY HostSymmetry
