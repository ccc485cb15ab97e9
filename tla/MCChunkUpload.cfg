CONSTANTS
    None = None
    Req = {r1, r2, r3, r4}
    Tokens = {t1}
    Files = {a, b}
    MaxList = 2
    MaxTime = 1
SPECIFICATION Spec
SYMMETRY Symmetry
INVARIANTS TypeOK StoredHasAcknowledged StoredOnce
PROPERTIES UsesContract
CHECK_DEADLOCK FALSE
