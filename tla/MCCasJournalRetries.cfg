SPECIFICATION SpecWithRetries
CONSTANTS
    Actors = {a1, a2}
    Keys = {k1, k2}
    Sizes = {1}
    Totals = {0, 1, 2}
    None = None
    Orphan = Orphan
    Ttl = 1
    Leads = {0, 1}
    FenceMargin = 1
    IoTimeout = 1
    Grace = 0
    Durability = 0
    Settle = 1
    MaxMutations = 1
    MaxFaults = 2
SYMMETRY Symmetry
VIEW Relative
INVARIANT EveryRequestIsJournaled
