\* Four names for a table of three, fields of two bytes; the server stops
\* after STOP.
CONSTANTS
    n1 = n1
    n2 = n2
    n3 = n3
    n4 = n4
    q1 = q1
    NUL = NUL
    Byte <- Bytes
    Name <- Names
    Pass <- Passes
    OtherName <- OtherNames
    OtherPass <- OtherPasses
    MAX_USERS = 3
    MAX_USER_LENGTH = 2
    MAX_PASS_LENGTH = 2
    Datagram <- Datagrams
    PAGE = 2
SPECIFICATION ManagerSpec
INVARIANTS UsersTypeOK NamesUnique PagesCoverTable
PROPERTIES ImplementsTable ObeysFirstWords
VIEW WithoutAnswer
SYMMETRY Symmetry
CHECK_DEADLOCK FALSE
