SPECIFICATION SafetySpec
CONSTANTS
    Root = "root"
    Keys = {"u", "y"}
    Targets = {}
    Insts <- TreeInsts
    Parent <- TreeParent
    Rank <- TreeRank
    Imports <- TreeImports
    Exports <- TreeExports
    Deploys = {"s", "d"}
    Workers = 1
    MaxVersion = 2
    MaxEvents = 1
    Events = {"data"}
INVARIANTS
    CurrentIsDeployed
CHECK_DEADLOCK FALSE
