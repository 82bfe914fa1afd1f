\* One connection that its peer resets before it is answered.
CONSTANTS
    p1 = p1
    p2 = p2
    NULL = NULL
    Peer <- Peers
    Handler <- Handlers
    Data <- Peers
    FD_SETSIZE = 4
    OPEN_MAX = 5
    MaxConnections = 1
    Width = 4
SPECIFICATION Spec
PROPERTY BytesSent
CHECK_DEADLOCK FALSE
