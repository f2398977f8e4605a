SPECIFICATION SafetySpec
CONSTANTS
    a = a
    b = b
    Names <- MCNames
    Order <- MCOrder
    DependsOn <- MCChain
    MaxItems = 2
    MaxGen = 2
    MaxEvents = 1
    Events = {"ensure", "alter", "remove", "delete", "deleteItem", "fail", "crash"}
    Lag = {"items"}
INVARIANTS
    OrderedCreation
    BookkeepingSound
CHECK_DEADLOCK FALSE
