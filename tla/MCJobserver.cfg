SPECIFICATION Spec
CONSTANTS
    top = top
    j1 = j1
    j2 = j2
    j3 = j3
    Proc = {top, j1, j2, j3}
    Top = top
    NoProc = NoProc
    MaxJobs = 2
    Logged = {}
    Failing = {}
    MaxTargets = 2
    MaxCalls = 1
SYMMETRY JobSymmetry
INVARIANTS TypeOK TokenConservation WorkBound DebtOnlyWhenAlone AccountingHolds
PROPERTY ImplementsPool
