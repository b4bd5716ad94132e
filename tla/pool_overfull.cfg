CONSTANTS
    Threads = {t1, t2, t3}
    AsyncThreads = {t1, t2, t3}
    Sessions = {s1, s2, s3}
    NoSession = NoSession
    MaxPoolSize = 1
    SemaphoreMax = 4
    MaxPools = 2
    MaxAbandoned = 0
SYMMETRY Symmetry
SPECIFICATION Spec
INVARIANTS
    IdleWithinLimit
