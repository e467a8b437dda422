\* An NVS partition smaller than the index.
CONSTANTS
    a = a  b = b  c = c  d = d
    Events = {a, b, c, d}
    Expiration <- NoTag
    Ttl = 1
    U32 = 16
    IndexSizes = {4}
    ChunkSize = 2
    MaxChunks = 2
    SaveEvery = 2
    CompactEvery = 1
    NvsCapacity = 2
    QueryLimits = {1}
    NoValue = NoValue
    MaxTime = 0
    MaxFileIndex = 4
    MaxPowerLosses = 0
    MaxNvsErrors = 0
SPECIFICATION Spec
INVARIANTS QuiescentLossBounded
