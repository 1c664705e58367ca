CONSTANTS
    Opens = 1
    Closes = 3
    MaxPages = 2
    PageSize = 1
    MaxEvents = 2
    Files = {f1, f2}
    DriveCalls = {k1, k2}
    MaxTokens = 2
    MaxDriveCalls = 3
    Kinds = {job, company}
    Totals = {3, 7}
    CastPageSize = 2
    CastPages = 3
    MaxItems = 4
    MaxChanges = 1
    Companies = {c1, c2}
    NoCompany = none
    Limits = {1, 9}
    AuditConvs = {c1}
    SourceRefs = {s1, s2}
    MaxCommands = 2
    MaxConnections = 2
    MaxSent = 1
    OpenSites = {{"scombz", "sitrus", "cast", "moodle", "my_library"}}
    MaxTurns = 2
    MaxCalls = 2
    MaxOdd = 1
    MaxUses = 3
SPECIFICATION ConnectorsSpec
INVARIANT UnavailableIsSaid
CHECK_DEADLOCK FALSE
