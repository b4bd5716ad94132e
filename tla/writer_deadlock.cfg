CONSTANTS
    Connections = {c1, c2}
    Sessions = {s1, s2}
    Transactions = {x1}
    NoSession = NoSession
    NoTx = NoTx
    Pooling = TRUE
    StatementsMayFail = FALSE
SPECIFICATION FairSpec
PROPERTIES
    GateWaitEnds
