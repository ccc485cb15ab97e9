CONSTANTS
    k1 = k1
    k2 = k2
    k3 = k3
    f1 = f1
    f2 = f2
    None = None
    NoFile = NoFile
    Stopper = stop
    Keys <- MCKeys
    Files <- MCFiles
    FileOf <- MCFileOf
    FilesAtStart <- MCFilesAtStart
    Vals = {v1, v2}
    Setups = {{"cull", "remove", "get", "shutdown", "fresh"}, {"cull", "remove", "get", "shutdown"}}
    Cullers = {c1, c2}
    Removers = {r1}
    Getters = {g1}
    MaxInMem = 1
    ReleaseSize = 2
    MaxOps = 4
    MaxRestarts = 1
SPECIFICATION Spec
INVARIANTS TypeOK EvictedIsKept
PROPERTIES GetNeverStale
CHECK_DEADLOCK FALSE
SYMMETRY MCSymmetry
