\* Four descriptors, two connections at a time, a bucket more than that, windows that renew twice.
CONSTANTS
    EVENT = EVENT  REQ = REQ
    Fds = {d1, d2, d3, d4}
    NoFd = NoFd
    Types = {EVENT, REQ}
    Limit <- OneEach
    MaxBuckets = 3
    MaxConns = 2
    Window = 2
    MaxTime = 4
\* Without a descriptor left and at the last second nothing more happens.
CHECK_DEADLOCK FALSE
SYMMETRY Symmetric
SPECIFICATION Spec
INVARIANTS TypeOK BucketsAreOwned RefusedOnlyIfSpent TwiceTheLimit
