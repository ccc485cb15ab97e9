CONSTANTS
    Req = {r1, r2, r3}
    Tokens = {t1, t2}
    Transitions = {open, upload}
    None = None
SYMMETRY Symmetry
SPECIFICATION Spec
INVARIANTS TypeOK ConsumedOnce FinalizesVetted
PROPERTIES PromiseKept KeepsContract
CHECK_DEADLOCK FALSE
