SPECIFICATION FairSpec
CONSTANTS
    a = a
    b = b
    x = x
    y = y
    z = z
    None = None
    Target = {a, b, x, y, z}
    Graphs <- MCGraphs
INVARIANTS TypeOK MutualExclusion DepsFirst SuccessMeansBuilt
INVARIANTS PoolLimit NoHoldAndWait NoAncestorWait CyclesFail
PROPERTIES BuiltOnce Termination
