CONSTANTS
    Commands = {k1, k2}
    Connections = {c1}
    Sessions = {s1}
    NoSession = NoSession
    Nobody = Nobody
    SharedWrites = TRUE
    OrderlyClose = TRUE
SPECIFICATION Spec
INVARIANTS
    PermitHasHolder
