\* Two sessions on one maildir of up to three messages of one size, and a
\* user without a directory; mail arrives and SIGTERM comes at any time.
\* Three messages let a removal fail after another one has succeeded.
CONSTANTS
    c1 = c1
    c2 = c2
    u1 = u1
    u2 = u2
    m1 = m1
    m2 = m2
    m3 = m3
    NULL = NULL
    Client <- MCClient
    User <- MCUser
    HasDir <- MCHasDir
    Msg <- MCMsg
    Octets <- CountOctets
    MAX_EMAILS = 4
SPECIFICATION Spec
INVARIANTS TypeOK Accounting StatAgreesWithList RemovedIsTheLoop
PROPERTIES ImplementsMaildrop QuitCountsWhatItRemoved
SYMMETRY TwoSymmetries
VIEW WithoutReply
