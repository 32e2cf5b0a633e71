SPECIFICATION Spec
CONSTANTS
    k1 = k1
    k2 = k2
    t1 = t1
    t2 = t2
    Key = {k1, k2}
    Thread = {t1, t2}
    None = None
    max = 2
    window = 2
    MaxTime = 4
    MaxCount = 3
SYMMETRY Alike
INVARIANTS
    BurstBound
    RefusedOnlyWhenSpent
CHECK_DEADLOCK FALSE
