SPECIFICATION SafetySpec
CONSTANTS
    a = a
    b = b
    Names <- MCNames
    Order <- MCOrder
    DependsOn <- MCChain
    MaxItems = 3
    MaxGen = 2
    MaxEvents = 2
    Events = {"ensure", "alter", "force", "delete", "retryItem", "pickupTimeout", "fail", "apiError", "crash"}
    Lag = {}
INVARIANTS
    OrderedCreation
    RecordedGenerationApplied
    SucceededIsComplete
    FinalizerProtectsItems
PROPERTIES
    OrderedDeletion
CHECK_DEADLOCK FALSE
