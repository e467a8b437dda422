\* Expiry, queries and one power loss.
CONSTANTS
    a = a  b = b  c = c  d = d
    Events = {a, b}
    Expiration <- TagOnA
    Ttl = 1
    U32 = 16
    IndexSizes = {3}
    ChunkSize = 2
    MaxChunks = 2
    SaveEvery = 2
    CompactEvery = 1
    NvsCapacity = 4
    QueryLimits = {0, 1, 2}
    NoValue = NoValue
    MaxTime = 3
    MaxFileIndex = 4
    MaxPowerLosses = 1
    MaxNvsErrors = 0
SPECIFICATION Spec
INVARIANTS ConsistentUntilPowerLoss QuiescentLossBounded
PROPERTIES CallsKeepAgreement ImplementsStore UnexpiredStay
