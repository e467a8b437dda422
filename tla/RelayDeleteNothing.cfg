\* A deletion request that names no event there is, and a kind.
CONSTANTS
    p = p  q = q
    note = note  other = other  page = page  draft = draft
    wipe = wipe  kill = kill  flash = flash  forged = forged
    Events = {note, kill}
    Authors = {p, q}
    Data <- MCData
    Shared <- MCShared
    HexDigits = 64
    IndexDigits = 8
    U32 = 16
    U16 = 8
    DefaultLimit = 5
    MaxLimit = 4
    c1 = c1  c2 = c2
    Conns = {c1, c2}
    SubIds = {"s"}
    Reqs <- NoReqs
    Absent = Absent
    NoEvent = NoEvent
    Times = {2, 4}
    MaxAge = 2
    MaxFuture = 1
    MaxTotal = 2
    MaxPerConn = 1
    MaxFilters = 2
    MaxSentIds = 1
    AddressLimit = 1
    KindLimit = 2
    MaxKinds = 2
    MaxExpired = 1
    Atoi <- MCAtoi
    ScanD <- MCScanD
    QueueLimit = 1
    MaxFailures = 0
SPECIFICATION Spec
INVARIANT OnlyNamedRemoved
