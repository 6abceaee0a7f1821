SPECIFICATION Spec
CONSTANTS
    Trees <- StampTrees
    Data = {0, 1, 2}
    Hand = Hand
    None = None
    MaxRuns = 3
    MaxEdits = 2
INVARIANTS UpToDate NotMistaken NothingTwice
PROPERTY ChecksumStops
