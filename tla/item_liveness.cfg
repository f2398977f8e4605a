SPECIFICATION UnattendedSpec
CONSTANTS
    MaxGen = 2
    MaxEvents = 2
    Events = {"alter", "delete", "reconcile", "abort", "workFails", "crash"}
    Timeouts = {"pickup", "abort", "progress"}
    Exports = {1}
PROPERTIES
    WorkEnds
    RequestServed
    DeletionEnds
CHECK_DEADLOCK FALSE
