CONSTANTS
    k1 = k1
    k2 = k2
    v1 = v1
    v2 = v2
    NoVal = NoVal
    Garbage = Garbage
    Keys = {k1, k2}
    Values = {v1}
    Modes = {"Always"}
    Sizes = {"small", "medium", "large"}
    Reputs = {k1, k2}
    MaxInlined = 1
    SegCap = 1
    MaxSegId = 2
    MaxLog = 2
    MaxDrift = 1
    MaxCommits = 3
    MaxEpochs = 1
    MaxCrash = 1
SPECIFICATION CrashSpec
SYMMETRY Sym
VIEW Disk
INVARIANT
    MediumPutSurvives
