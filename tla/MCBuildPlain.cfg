SPECIFICATION Spec
CONSTANTS
    Trees <- PlainTrees
    Data = {0, 1}
    Hand = Hand
    None = None
    MaxRuns = 3
    MaxEdits = 2
INVARIANTS TypeOK UpToDate NotMistaken NothingTwice
PROPERTY HandWorkKept
