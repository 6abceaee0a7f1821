SPECIFICATION FairSpec
CONSTANTS
    a = a
    b = b
    x = x
    y = y
    z = z
    None = None
    Target = {a, b, x, y, z}
    Graphs <- ChainGraph
PROPERTY Termination
CHECK_DEADLOCK FALSE
