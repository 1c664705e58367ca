CONSTANTS
    Panel = panel
    Workspace = workspace
    MaxConversations = 3
    MaxSends = 1
    MaxTools = 0
    MaxHandlers = 1
    StoreOutcomes = {TRUE}
SPECIFICATION PagesSpec
INVARIANTS DeletedStayDeleted
CHECK_DEADLOCK FALSE
