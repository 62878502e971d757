\* Backend handles that are never closed: a failed Open, or a Release that returns early.
CONSTANTS
    h1 = h1
    h2 = h2
    Handles = {h1}
    NoHandle = NoHandle
    OpenFlags = {0, 1}
    MaxWrites = 1
    Offsets = {0}
    TruncSizes = {0}
    BlockSize = 2
    InitLen = 0
    ReadOnlyMapping = FALSE
    Faults = TRUE
SPECIFICATION Spec
PROPERTY BackendHandlesReclaimed
CHECK_DEADLOCK FALSE
