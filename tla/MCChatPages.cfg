CONSTANTS
    Panel = panel
    Workspace = workspace
    MaxConversations = 3
    MaxSends = 1
    MaxTools = 1
    MaxHandlers = 1
    StoreOutcomes = {TRUE, FALSE}
    RunIds = {r1, r2}
    Streams = {s1}
    TTL = 1
    MaxEvents = 1
    MaxTombs = 1
    LastStart = 1
    MaxTime = 3
SPECIFICATION ChatsSpec
INVARIANTS OneReply NoLostWakeup
PROPERTIES BusyEnds BackgroundEnds AnswersMoveForward
CHECK_DEADLOCK FALSE
