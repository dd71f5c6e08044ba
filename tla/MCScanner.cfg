CONSTANTS
    YY_BUF_SIZE = 2
    YY_READ_BUF_SIZE = 3
    MAX_ERROR_SIZE = 3
    MaxPending = 5
SPECIFICATION Spec
INVARIANTS
    NoNeedlessWait
    WithinBuffers
PROPERTIES
    ImplementsRules
    EndsAtEof
