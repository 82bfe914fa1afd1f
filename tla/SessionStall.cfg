\* Two commands in flight: one that follows RETR in the same segment waits.
CONSTANTS
    c1 = c1
    c2 = c2
    u1 = u1
    u2 = u2
    m1 = m1
    m2 = m2
    m3 = m3
    NULL = NULL
    Client <- OneClient
    User <- OneUser
    HasDir <- MCHasDir
    Msg <- OneMsg
    Octets <- MCOctets
    MAX_EMAILS = 4
    Lines <- MailOnly
    Ahead <- Pipelines
    Room = 3
    MaxBlock = 2
    MaxBlocks = 2
SPECIFICATION FairSessionSpec
PROPERTY PipelinedExecuted
CHECK_DEADLOCK FALSE
