\* One connection whose peer waits for each answer; every command.
CONSTANTS
    c1 = c1
    c2 = c2
    u1 = u1
    u2 = u2
    m1 = m1
    m2 = m2
    m3 = m3
    NULL = NULL
    Client <- OneClient
    User <- OneUser
    HasDir <- MCHasDir
    Msg <- TwoMsg
    Octets <- MCOctets
    MAX_EMAILS = 4
    Lines <- AllLines
    Ahead <- Waits
    Room = 3
    MaxBlock = 2
    MaxBlocks = 2
SPECIFICATION FairSessionSpec
INVARIANTS SessionTypeOK AnswersConserved ListingProgress AnswerInProgress
PROPERTIES Answered ClosedInTheEnd
