CONSTANTS
    Previews = {p1}
    Parts = {"name", "volume", "other"}
    TitleOf <- OneTitle
    Handlers = {h1, h2, h3}
    Prints = {form, changed}
    PreviewTTL = 1
    MaxTime = 2
    Readers = {r1, r2}
    Targets = {q1}
    MaxReads = 2
    ScombzTabs = {t1, t2}
    ScombzConvs = {c1}
    FileHits <- CourseFiles
    MaxFiles = 1
    MaxHits = 2
    QuoteHits = 1
    MaxLoads = 3
    Panel = panel
    Workspace = workspace
    MaxConversations = 2
    MaxSends = 2
    MaxTools = 1
    MaxHandlers = 1
    StoreOutcomes = {TRUE}
    Calls = {k1, k2, k3}
    Words = {w1, w2}
    Records = {b1}
    MinInterval = 2
    SearchTTL = 3
    DetailTTL = 1
    CacheLimit = 1
    MaxClock = 6
SPECIFICATION SitesSpec
INVARIANTS SubmittingIsHeld VerifiedMeansReserved ReadsAsAsked AskedInTurn
PROPERTIES ConsumedIsFinal AbortedStaySilent
CHECK_DEADLOCK FALSE
