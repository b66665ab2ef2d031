CONSTANTS
    k1 = k1
    k2 = k2
    v1 = v1
    v2 = v2
    NoVal = NoVal
    Keys = {k1, k2}
    Values = {v1}
    Modes = {"Manual"}
    Sizes = {"small", "medium", "large"}
    Reputs = {}
    MaxInlined = 1
    SegCap = 1
    MaxSegId = 3
    MaxLog = 2
    MaxDrift = 1
SPECIFICATION Spec
SYMMETRY Sym
VIEW Ram
INVARIANTS
    TypeOK
    PointersResolve
    ReadsLatest
    MergeConsistent
    LogRebuildsIndex
    ViewCoversLive
