CONSTANTS
    ChatRunIds = {r1}
    ChatCallIds = {c1, c2}
    Refs = {b1}
    ChatHandlers = {h1}
    MaxToolCalls = 2
    ClientToolCalls = 2
    ChatRunTTL = 2
    ChatMaxTime = 3
SPECIFICATION TurnSpec
INVARIANTS NoFalseRefusal ReadsAreFresh DoneMeansDone
PROPERTIES TurnEnds
CHECK_DEADLOCK FALSE
