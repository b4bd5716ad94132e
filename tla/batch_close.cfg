CONSTANTS
    Batches <- WritesOnly
    ParameterLists <- NoParameters
    Behaviors <- DefaultBehavior
    StepsMayFail = TRUE
    MaxAgain = 1
SPECIFICATION Spec
INVARIANTS
    ClosedReaderHasNoScope
