SPECIFICATION SafetySpec
CONSTANTS
    MaxGen = 2
    MaxEvents = 2
    Events = {"trigger", "alter", "delete", "reconcile", "abort", "force", "due", "workFails", "apiError", "crash"}
    Timeouts = {"pickup", "abort", "progress"}
    Exports = {1}
INVARIANTS
    TypeOK
    SucceededIsDeployed
PROPERTIES
    RecordedResourcesGoFirst
    FinalUntilTriggered
    ImplementsContract
CHECK_DEADLOCK FALSE
