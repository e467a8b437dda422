\* Three connections with three names each compete for four slots.
CONSTANTS
    f = f  g = g
    Conns = {c1, c2, c3}
    SubIds = {s1, s2, s3}
    Filters = {f, g}
    Requests <- ShortAndLong
    MaxTotal = 4
    MaxPerConn = 2
    MaxFilters = 1
    Nobody = Nobody
SYMMETRY Symmetric
SPECIFICATION Spec
INVARIANTS TypeOK UniqueKey CountIsExact SharesKept
PROPERTY ImplementsTable
