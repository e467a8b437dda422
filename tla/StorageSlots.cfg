\* A deletion in a full index.
CONSTANTS
    a = a  b = b  c = c  d = d
    Events = {a, b}
    Expiration <- NoTag
    Ttl = 1
    U32 = 16
    IndexSizes = {2}
    ChunkSize = 2
    MaxChunks = 1
    SaveEvery = 2
    CompactEvery = 1
    NvsCapacity = 4
    QueryLimits = {1}
    NoValue = NoValue
    MaxTime = 2
    MaxFileIndex = 3
    MaxPowerLosses = 0
    MaxNvsErrors = 0
SPECIFICATION Spec
INVARIANTS DeletedSlotIsReusable
