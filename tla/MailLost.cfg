\* Text files whose lines end in LF only, of up to two blocks.
CONSTANTS
    BUFFER_SIZE = 6
    Mailbox <- TextFiles
SPECIFICATION Spec
INVARIANT FileArrives
CHECK_DEADLOCK FALSE
