\* Two connections at a time and three descriptors, one client more than there are descriptors.
CONSTANTS
    MaxConns = 2
    MaxSockets = 3
    QueueLimit = 1
    MaxPeers = 4
SPECIFICATION LiveSpec
PROPERTY ClientsGetIn
CHECK_DEADLOCK FALSE
