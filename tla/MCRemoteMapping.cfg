SPECIFICATION FairSpec
CONSTANTS
    None = None
    Bad = Bad
    c1 = c1
    c2 = c2
    i1 = i1
    i2 = i2
    Handler = {1, 2}
    Blob <- MCBlob
    Key <- MCKey
    Result <- MCResult
    Perishable <- MCPerishable
    Client = {c1, c2}
    Input = {i1, i2}
    Tag = {1, 2}
    Setups <- RaceSetups
    MaxCrashes = 1
    MaxRot = 1
CHECK_DEADLOCK FALSE
PROPERTY MappingKept
