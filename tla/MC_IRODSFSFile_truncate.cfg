\* One write-only handle: File.Truncate racing the handle's queued writes and its Release.
CONSTANTS
    h1 = h1
    h2 = h2
    Handles = {h1}
    NoHandle = NoHandle
    OpenFlags = {1}
    MaxWrites = 1
    Offsets = {0}
    TruncSizes = {0}
    BlockSize = 2
    InitLen = 0
    ReadOnlyMapping = FALSE
    Faults = FALSE
SPECIFICATION Spec
PROPERTY TruncateTakesEffect
CHECK_DEADLOCK FALSE
