SPECIFICATION Spec
CONSTANTS
    CasUploads = {c1, c2}
    LegacyUploads = {t1}
    Lapsing = {}
    Sizes = {1, 2}
    Capacity = 3
    None = None
    MaxGeneration = 2
CHECK_DEADLOCK FALSE
SYMMETRY Symmetry
PROPERTY GrantsFit
