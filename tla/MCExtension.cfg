CONSTANTS
    Opens = 1
    Closes = 3
    MaxPages = 2
    PageSize = 1
    MaxEvents = 2
    Files = {f1, f2}
    DriveCalls = {k1, k2}
    MaxTokens = 2
    MaxDriveCalls = 3
    Kinds = {job, company}
    Totals = {3, 7}
    CastPageSize = 2
    CastPages = 3
    MaxItems = 4
    MaxChanges = 1
    Companies = {c1, c2}
    NoCompany = none
    Limits = {1, 9}
    AuditConvs = {c1}
    SourceRefs = {s1, s2}
    MaxCommands = 2
    MaxConnections = 2
    MaxSent = 1
    OpenSites = {{"scombz", "sitrus", "cast", "moodle", "my_library"}}
    MaxTurns = 2
    MaxCalls = 2
    MaxOdd = 1
    MaxUses = 3
    MissionIds = {m1, m2}
    MaxPreviews = 2
    Records = {e1, e2, e3}
    MaxIndex = 2
    Callers = {b1, b2}
    MaxVaults = 2
    MaxVaultCalls = 3
    Sources = {t1, t2}
    Panels = {q1}
    Workers = {w1, w2}
    MaxTabs = 2
    MaxTasks = 4
    Stoppable = TRUE
    Pages = {g1, g2}
    ApiRequests = {r1, r2}
    MaxIssued = 2
    MaxStarted = 2
SPECIFICATION ExtensionSpec
INVARIANTS GoogleAsRead NothingLeftOut CareerAsRead OneSource ScopeHeld ArgumentsAgree OptionsOfTheOneShown TestedAsRun
    ResultsAccepted HoldingsOfRow StepsInOrder CreatedIsListed WorkspaceKeepsSource
PROPERTIES OneEffect
CHECK_DEADLOCK FALSE
