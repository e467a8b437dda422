\* Liveness under fairness, one power loss, an NVS partition that is too small.
CONSTANTS
    a = a  b = b  c = c  d = d
    Events = {a, b}
    Expiration <- NoTag
    Ttl = 1
    U32 = 16
    IndexSizes = {2}
    ChunkSize = 2
    MaxChunks = 1
    SaveEvery = 2
    CompactEvery = 2
    NvsCapacity = 1
    QueryLimits = {1}
    NoValue = NoValue
    MaxTime = 2
    MaxFileIndex = 2
    MaxPowerLosses = 1
    MaxNvsErrors = 0
SPECIFICATION LiveSpec
PROPERTIES ExpiredAreRemoved SlotsAreReclaimed DestroyTerminates
