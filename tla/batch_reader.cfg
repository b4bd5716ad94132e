CONSTANTS
    Batches <- MCBatches
    ParameterLists <- MCParameterLists
    Behaviors <- MCBehaviors
    StepsMayFail = TRUE
    MaxAgain = 1
SPECIFICATION FairSpec
INVARIANTS
    TypeOK
    WritesOnceInOrder
    RecordsAffectedIsExact
    ForwardOnly
    BindingsMatch
PROPERTIES
    CallsEnd
    CallsShorten
    ImplementsBatchExecution
