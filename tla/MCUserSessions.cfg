CONSTANTS
    None = None
    Req = {r1, r2, r3, r4}
    Users = {u1, u2}
SPECIFICATION Spec
SYMMETRY Symmetry
INVARIANTS TypeOK SessionsAreEarned LogoutIsFinal TokenIsGood DataReachesClient
PROPERTIES KeepsContract
CHECK_DEADLOCK FALSE
