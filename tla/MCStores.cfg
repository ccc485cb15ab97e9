CONSTANTS
    None = None
    Parts = {"session", "mapper", "relay", "static"}
    SessionKeys = {s1, s2, s3}
    SessionTime = 1
    Crowd = 3
    MinCull = 2
    SessionMaxTime = 3
    MaxLru = 5
    MapperWrites = 2
    Ids = {i1, i2}
    Vals = {v1, v2}
    Callers = {c1, c2}
    Keys = {k1}
    Owner <- MCOwner
    LargeIds = {i1, i2}
    AgeOut = 0
    MaxTime = 1
    MaxWrites = 1
    MaxOps = 3
    MaxPending = 2
    MaxRestarts = 1
SPECIFICATION Spec
SYMMETRY Symmetry
INVARIANTS TypeOK ListFollowsTable CleanIsOnDisk AgeingLosesNothing ReadsLastSet NothingLeadsNowhere
CHECK_DEADLOCK FALSE
