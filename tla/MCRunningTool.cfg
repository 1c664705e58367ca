CONSTANTS
    Panel = panel
    Workspace = workspace
    MaxConversations = 2
    MaxSends = 2
    MaxTools = 1
    MaxHandlers = 1
    StoreOutcomes = {TRUE}
SPECIFICATION PagesSpec
INVARIANTS NoRunningToolStored
CHECK_DEADLOCK FALSE
