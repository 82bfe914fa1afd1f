\* Every line of at most nine bytes, cut in every way a buffer of three allows.
CONSTANTS
    BUFFER_SIZE = 3
    Verbs <- OneVerb
    MaxLine = 9
SPECIFICATION Spec
INVARIANTS TypeOK CommandIsTheLine EndOfLineSeen
PROPERTY BytesKept
CHECK_DEADLOCK FALSE
