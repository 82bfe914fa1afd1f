\* Two connections of one user with one message: what one session is reading
\* may be removed by the QUIT of the other.  The reader has two commands in
\* flight, so the server may abort, and then nothing happens any more.
CONSTANTS
    c1 = c1
    c2 = c2
    u1 = u1
    u2 = u2
    m1 = m1
    m2 = m2
    m3 = m3
    NULL = NULL
    Client <- MCClient
    User <- OneUser
    HasDir <- MCHasDir
    Msg <- OneMsg
    Octets <- MCOctets
    MAX_EMAILS = 4
    Lines <- PairLines
    Ahead <- PairAhead
    Room = 3
    MaxBlock = 3
    MaxBlocks = 1
SPECIFICATION SessionSpec
INVARIANTS AnswersConserved AnswerInProgress ListingProgress LockstepHandled
PROPERTY OverrunOnlyByFile
CHECK_DEADLOCK FALSE
