SPECIFICATION Spec
INVARIANTS
    LoopCombines
    AccumulationCombines
