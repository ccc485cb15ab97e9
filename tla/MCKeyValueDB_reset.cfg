CONSTANTS
    k1 = k1
    k2 = k2
    k3 = k3
    f1 = f1
    f2 = f2
    None = None
    NoFile = NoFile
    Stopper = stop
    Keys <- MCKeys
    Files <- MCFiles
    FileOf <- MCFileOf
    FilesAtStart <- MCFiles
    Vals = {v1}
    Setups = {{"cull", "remove"}}
    Cullers = {c1}
    Removers = {r1}
    Getters = {g1}
    MaxInMem = 1
    ReleaseSize = 1
    MaxOps = 4
    MaxRestarts = 0
SPECIFICATION Spec
INVARIANTS EvictedIsOnDisk
CHECK_DEADLOCK FALSE
