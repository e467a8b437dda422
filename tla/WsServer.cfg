\* Three connections at a time, five descriptors, a start that may fail at every step.
CONSTANTS
    MaxConns = 3
    MaxSockets = 5
    QueueLimit = 2
    MaxPeers = 5
SPECIFICATION LiveSpec
INVARIANTS TypeOK SlotsMirrorSessions HandlersFindTheirContext StartIsAllOrNothing OnlyEarlyResidue NoForeignDelivery
PROPERTY ClientsGetInWhileSocketsLast
CHECK_DEADLOCK FALSE
