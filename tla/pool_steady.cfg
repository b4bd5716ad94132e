CONSTANTS
    Threads = {t1, t2, t3}
    AsyncThreads = {t3}
    Sessions = {s1, s2}
    NoSession = NoSession
    MaxPoolSize = 2
    SemaphoreMax = 7
    MaxPools = 1
    MaxAbandoned = 2
SPECIFICATION FairSpec
INVARIANTS
    TypeOK
    SessionHasOneHolder
    HeldSessionsAreOpen
    CountIsExact
    NoLostWakeup
PROPERTIES
    SomeoneIsServed
    ImplementsBoundedPool
CHECK_DEADLOCK FALSE
