SPECIFICATION Spec
CONSTANTS
    Root = "root"
    Keys = {"u", "y"}
    Targets = {}
    Insts <- ChainInsts
    Parent <- ChainParent
    Rank <- ChainRank
    Imports <- ChainImports
    Exports <- ChainExports
    Deploys = {"a", "b"}
    Workers = 1
    MaxVersion = 2
    MaxEvents = 2
    Events = {"alter", "data", "reconcile", "drift", "force"}
INVARIANTS
    CurrentIsDeployed
PROPERTIES
    SourcesFinishFirst
    Converges
CHECK_DEADLOCK FALSE
