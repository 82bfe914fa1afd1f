\* Two peers, three connections; one descriptor more than pselect can handle.
CONSTANTS
    p1 = p1
    p2 = p2
    NULL = NULL
    Peer <- Peers
    Handler <- Handlers
    Data <- Peers
    FD_SETSIZE = 4
    OPEN_MAX = 5
    MaxConnections = 3
    Width = 3
SPECIFICATION FairSpec
INVARIANTS TypeOK TableAgrees DescriptorsAccounted
PROPERTIES DeadWriterStays GoneReaderClosed WaitingServed StopEnds
CHECK_DEADLOCK FALSE
