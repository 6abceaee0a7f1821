SPECIFICATION Spec
CONSTANTS
    a = a
    b = b
    c = c
    Top = Top
    Reader = Reader
    None = None
    Target = {a, b, c}
    Setups <- MCSetups
CHECK_DEADLOCK FALSE
INVARIANTS ShownInOrder NoLoss
PROPERTY BothEnd
