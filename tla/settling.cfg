SPECIFICATION Spec
CONSTANTS
    a = a
    b = b
    Names <- MCNames
    Order <- MCOrder
    DependsOn <- MCChain
    MaxItems = 2
    MaxGen = 2
    MaxEvents = 2
    Events = {"ensure", "alter", "force", "fail", "delete"}
    Lag = {}
PROPERTIES
    Settles
    DeletionCompletes
CHECK_DEADLOCK FALSE
