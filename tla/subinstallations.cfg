SPECIFICATION Spec
CONSTANTS
    Root = "root"
    Keys = {"u", "y"}
    Targets = {}
    Insts <- PairInsts
    Parent <- PairParent
    Rank <- PairRank
    Imports <- PairImports
    Exports <- PairExports
    Deploys = {"s"}
    Workers = 1
    MaxVersion = 2
    MaxEvents = 2
    Events = {"alter", "delete", "drop"}
INVARIANTS
    GoneIsClean
    RecordedIsEnsured
PROPERTIES
    DeletionEnds
CHECK_DEADLOCK FALSE
