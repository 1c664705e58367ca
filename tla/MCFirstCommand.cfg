CONSTANTS
    AuditConvs = {c1}
    SourceRefs = {s1, s2}
    MaxCommands = 2
    MaxConnections = 2
    MaxSent = 1
SPECIFICATION AuditSpec
PROPERTIES ReadyIsServed
CHECK_DEADLOCK FALSE
