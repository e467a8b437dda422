\* Two power losses, each between any two flash writes, an NVS call that fails
\* and two index sizes; nothing expires.
CONSTANTS
    a = a  b = b  c = c  d = d
    Events = {a, b}
    Expiration <- NoTag
    Ttl = 1
    U32 = 16
    IndexSizes = {2, 4}
    ChunkSize = 2
    MaxChunks = 2
    SaveEvery = 2
    CompactEvery = 1
    NvsCapacity = 4
    QueryLimits = {1}
    NoValue = NoValue
    MaxTime = 0
    MaxFileIndex = 4
    MaxPowerLosses = 2
    MaxNvsErrors = 1
SYMMETRY Symmetric
SPECIFICATION Spec
INVARIANTS TypeOK ConsistentUntilPowerLoss QuiescentLossBounded
PROPERTY CallsKeepAgreement
