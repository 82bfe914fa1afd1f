\* A QUIT that answers +OK, against its own error text for messages that are
\* left.
CONSTANTS
    c1 = c1
    c2 = c2
    u1 = u1
    u2 = u2
    m1 = m1
    m2 = m2
    m3 = m3
    NULL = NULL
    Client <- OneClient
    User <- OneUser
    HasDir <- MCHasDir
    Msg <- TwoMsg
    Octets <- MCOctets
    MAX_EMAILS = 4
SPECIFICATION Spec
PROPERTY QuitRemovesMarked
