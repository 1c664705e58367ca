CONSTANTS
    ChatRunIds = {r1}
    ChatCallIds = {c1, c2, c3}
    Refs = {b1}
    ChatHandlers = {h1, h2}
    MaxToolCalls = 3
    ChatRunTTL = 2
    ChatMaxTime = 3
SPECIFICATION ChatSpec
INVARIANT ProvenanceAgrees
