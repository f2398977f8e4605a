SPECIFICATION SafetySpec
CONSTANTS
    Root = "root"
    Keys = {"u", "y"}
    Targets = {}
    Insts <- ChainInsts
    Parent <- ChainParent
    Rank <- ChainRank
    Imports <- ChainImports
    Exports <- ChainExports
    Deploys = {"a", "b"}
    Workers = 2
    MaxVersion = 2
    MaxEvents = 2
    Events = {"delete", "force", "abort", "drift", "fail", "lasting", "apiError", "crash"}
INVARIANTS
    TypeOK
    GoneIsClean
PROPERTIES
    ImportedIsKept
CHECK_DEADLOCK FALSE
