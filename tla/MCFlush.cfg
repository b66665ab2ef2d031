CONSTANTS
    k1 = k1
    k2 = k2
    v1 = v1
    v2 = v2
    NoVal = NoVal
    Keys = {k1}
    Values = {v1, v2}
    Modes = {"Manual"}
    Sizes = {"small", "medium", "large"}
    Reputs = {k1}
    MaxInlined = 1
    SegCap = 1
    MaxSegId = 4
    MaxLog = 2
    MaxDrift = 1
SPECIFICATION Spec
PROPERTY
    FlushSyncs
