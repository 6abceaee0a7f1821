SPECIFICATION Spec
CONSTANTS
    Proc = {p1, p2}
    Target = {t1, t2}
    Version = {1, 2}
    Size = {1, 2}
    None = None
    Setups <- MCSetups
CHECK_DEADLOCK FALSE
INVARIANTS TypeOK HitOfKey GcBound
