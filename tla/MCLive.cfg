CONSTANTS
    None = None
    Parts = {"transition", "kv", "mapper", "relay"}
    Req = {r1, r2}
    Tokens = {t1, t2}
    Transitions = {open, upload}
    k1 = k1
    k2 = k2
    k3 = k3
    f1 = f1
    f2 = f2
    Files <- MCFiles
    FilesAtStart = {}
    NoFile = NoFile
    Setups = {{"cull", "get"}, {"remove"}, {"remove", "shutdown"}}
    Stopper = stop
    Cullers = {c1}
    Removers = {rm1}
    Getters = {g1}
    MaxInMem = 1
    ReleaseSize = 1
    Vals = {v1}
    Ids = {i1}
    Callers = {c1}
    AgeOut = 0
    MaxTime = 1
    MaxWrites = 2
    MaxOps = 3
    MaxPending = 2
    MaxRestarts = 1
SPECIFICATION FairSpec
PROPERTIES EveryRequestAnswered MemoryRecedes  MapReachesFile
CHECK_DEADLOCK FALSE
