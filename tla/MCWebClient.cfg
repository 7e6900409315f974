SPECIFICATION Spec
CONSTANTS
    Tabs = {t1, t2}
    MaxLogins = 1
    MaxRenewals = 1
    MaxMessages = 1
    MaxCalls = 1
    Failures = {"unavailable"}
    MaxHops = 4
    Topics = {m1, m2}
    Plain = notifications
    MaxTopics = 1
    MaxOwn = 2
    MaxMail = 2
    Parts = {p1, p2, p3}
    Concurrency = 2
    MaxRetries = 2
    MaxBreaks = 2
    Files = {f1, f2, f3}
    MaxConcurrent = 2
    MaxFiles = 3
    MaxQueue = 3
    MaxOps = 3
    MaxTemp = 2
    MaxDraftFiles = 1
    MaxRequests = 2
    MaxPulls = 2
    MaxQueries = 2
    MaxSheet = 2
    Clients = {c1, c2}
    Keys = {k1}
    Materials = {m1, m2}
    Buttons = {b1}
    MaxPublished = 2
    MaxDrops = 2
    MaxActive = 2
    Items = {i1, i2}
    MaxPresses = 3
    WithAttachments = {i1}
    MaxChores = 1
    MaxParts = 3
    MaxVisits = 2
    Rows = {r1, r2}
    MaxPages = 2
    MaxLoads = 2
    MaxActs = 1
    Objects = {o1, o2}
    Featured = {f1, f2}
    MaxSaves = 2
    MaxKept = 1
    MaxFetches = 2
    Chapters = {c1, c2}
    Images = {g1, g2}
    MaxImages = 1
    MaxQuestions = 1
    Subjects = {p1, p2}
    MaxRoots = 2
    PageLimit = 1
    MaxWritten = 1
    MaxErased = 1
    MaxWire = 1
    MaxListed = 2
    PageSize = 1
    Shelves = {s1}
    SavedFirst = {i1}
    Narrow = {}
    MaxCodes = 2
    MaxResets = 1
    MaxSent = 2
    Panels = {"materials", "prs"}
    Boards = {"month", "semester"}
    MaxEdits = 1
    MaxProfileFetches = 1
    Contents = {x1, x2}
    Texts = {x1}
    MaxReads = 1
    Submissions = {q1}
    Members = {u1, u2}
    FormKinds = {"folder"}
    MaxAsks = 2
    Subfolders = {d1}
    Leaves = {m1}
    Drafted = {g1}
    MaxStaged = 1
    MaxArchives = 2
    MaxDepth = 1
    MaxHeld = 2
    MaxSends = 1
INVARIANTS
    TypeOK
    TokenIsTended
    RedirectsSettle
    RestIsAllowed
    QuietMeansCurrent
    CommittedIsKept
    NoSlotIsLost
    FollowedIsCurrent
    CachedIsPostEvent
    ShownIsDecided
    OnlyPastTheEndIsCorrected
    ServedAsAsked
    NoneOlderThanTold
    
    NoStaleGhost
    WhatIsShownIsAsked
    CopiesAgree
    CredentialsAreUsedOnce
    WaitingEnds
PROPERTIES
    RemovalTakesContents
    ZipStopsWithItem
    AnswersAreKept
CHECK_DEADLOCK FALSE
