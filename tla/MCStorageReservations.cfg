SPECIFICATION Spec
CONSTANTS
    CasUploads = {c1, c2}
    LegacyUploads = {t1}
    Lapsing = {c1, c2, t1}
    Sizes = {1, 2}
    Capacity = 3
    None = None
    MaxGeneration = 2
CHECK_DEADLOCK FALSE
SYMMETRY Symmetry
INVARIANTS
    TypeOK
    TotalIsSum
    SnapshotsAreFenced
PROPERTY CleanGrantsFit
