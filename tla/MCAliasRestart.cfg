CONSTANTS
    Convs = {c1}
    People = {p1}
    Turns = {p, q, w}
    Panel = {p, q}
    MaxAliasCalls = 3
    MaxRestarts = 1
SPECIFICATION AliasSpec
INVARIANTS RestartForgets
CHECK_DEADLOCK FALSE
