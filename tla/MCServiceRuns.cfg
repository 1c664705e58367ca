CONSTANTS
    RunIds = {r1, r2}
    Tools = {calendar, scombz}
    CallIds = {c1, c2}
    Conversations = {k1}
    RunTTL = 2
    ActionIds = {a1, a2}
    Places = {home}
    Notes = {n1}
    ActionTTL = 3
    MaxRecords = 1
    Handlers = {h1, h2}
    MaxTime = 3
    MaxEvents = 1
    ChatRunIds = {q1}
    ChatCallIds = {d1, d2, d3}
    Refs = {b1}
    ChatHandlers = {g1, g2}
    MaxToolCalls = 3
    ChatRunTTL = 2
    ChatMaxTime = 3
    RecordIds = {e1, e2, e3}
    RecordPlaces = {home, away}
    RecordNotes = {n1}
    RecordTTL = 2
    RecordLimit = 2
    RecordMaxTime = 4
    RecordEvents = 2
SYMMETRY Symmetry
SPECIFICATION PartsSpec
INVARIANTS FreshCall NoOrphanClaim ProposalOfCompletedRun BudgetKept OperationBacked ReceiptOfClaimant ActionsHeld
PROPERTIES ResumesOnce NoLateProgress ChatResumesOnce
