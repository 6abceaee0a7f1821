SPECIFICATION Spec
CONSTANTS
    Trees <- WindowTrees
    Data = {0, 1}
    Hand = Hand
    None = None
    MaxRuns = 3
    MaxEdits = 2
INVARIANT NotMistaken
