\* A power loss before the index is saved.
CONSTANTS
    a = a  b = b  c = c  d = d
    Events = {a}
    Expiration <- NoTag
    Ttl = 1
    U32 = 16
    IndexSizes = {2}
    ChunkSize = 2
    MaxChunks = 1
    SaveEvery = 2
    CompactEvery = 1
    NvsCapacity = 4
    QueryLimits = {1}
    NoValue = NoValue
    MaxTime = 3
    MaxFileIndex = 2
    MaxPowerLosses = 1
    MaxNvsErrors = 0
SPECIFICATION LiveSpec
PROPERTIES DataDisappears
