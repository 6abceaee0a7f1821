SPECIFICATION FairSpec
CONSTANTS
    top = top
    j1 = j1
    j2 = j2
    Proc = {top, j1, j2}
    Top = top
    NoProc = NoProc
    MaxJobs = 2
    Logged = {j1, j2}
    Failing = {top, j1, j2}
    MaxTargets = 2
    MaxCalls = 1
INVARIANT NoTokenLost
PROPERTY Termination
