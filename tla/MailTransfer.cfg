\* Every mail of one block, and mails of two blocks, sent one after the other.
CONSTANTS
    BUFFER_SIZE = 6
    Mailbox <- Mails
SPECIFICATION FairSpec
INVARIANTS TypeOK MailArrivesWhole NoEarlyEnd SlimMailsAreSafe
PROPERTY TransferEnds
CHECK_DEADLOCK FALSE
