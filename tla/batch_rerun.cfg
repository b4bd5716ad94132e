CONSTANTS
    Batches <- ReturningOnly
    ParameterLists <- NoParameters
    Behaviors <- DefaultBehavior
    StepsMayFail = FALSE
    MaxAgain = 1
SPECIFICATION Spec
INVARIANTS
    NoStatementRunsTwice
