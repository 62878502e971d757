\* Two handles, two writes, every open mode, backend faults: safety.
CONSTANTS
    h1 = h1
    h2 = h2
    Handles = {h1, h2}
    NoHandle = NoHandle
    OpenFlags <- MCOpenFlags
    MaxWrites = 2
    Offsets = {0, 1}
    TruncSizes = {0}
    BlockSize = 2
    InitLen = 1
    ReadOnlyMapping = FALSE
    Faults = TRUE
SPECIFICATION Spec
SYMMETRY HandleSymmetry
INVARIANT TypeOK
INVARIANT CleanCloseIsDurable
INVARIANT SameOffsetWritesLandInOrder
PROPERTY FlushPersistsAcknowledgedWrites
CHECK_DEADLOCK FALSE
