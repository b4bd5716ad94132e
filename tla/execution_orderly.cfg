CONSTANTS
    Commands = {k1, k2}
    Connections = {c1, c2}
    Sessions = {s1, s2}
    NoSession = NoSession
    Nobody = Nobody
    SharedWrites = FALSE
    OrderlyClose = TRUE
SYMMETRY Symmetry
SPECIFICATION Spec
INVARIANTS
    TypeOK
    OneStepPerSession
    
    StatementRunsOnItsConnection
    PermitHasHolder
    NoWaitForOwnPermit
    GateHeldOnlyInNative
