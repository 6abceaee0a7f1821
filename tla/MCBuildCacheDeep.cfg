SPECIFICATION Spec
CONSTANTS
    Trees <- DeepTrees
    Data = {0, 1}
    Hand = Hand
    None = None
    MaxRuns = 3
    MaxEdits = 2
INVARIANT UpToDate
