CONSTANTS
    Connections = {c1, c2}
    Sessions = {s1, s2}
    Transactions = {x1, x2}
    NoSession = NoSession
    NoTx = NoTx
    Pooling = FALSE
    StatementsMayFail = TRUE
SPECIFICATION FairSpec
INVARIANTS
    TypeOK
    GateHasOneHolder
    HolderCanRelease
    OneWriterInNative
    OrphanHasStatement
    WriteLockHasHolder
PROPERTIES
    GateWaitEnds
    WriteLockIsFreed
