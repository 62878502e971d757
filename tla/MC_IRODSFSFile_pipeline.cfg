\* One write-only handle, three writes, a three-unit block: every path of
\* the AsyncWriter/SyncBufferedWriter pipeline, with backend faults.
CONSTANTS
    h1 = h1
    h2 = h2
    Handles = {h1}
    NoHandle = NoHandle
    OpenFlags = {1}
    MaxWrites = 3
    Offsets = {0, 1}
    TruncSizes = {0}
    BlockSize = 3
    InitLen = 1
    ReadOnlyMapping = FALSE
    Faults = TRUE
SPECIFICATION Spec
INVARIANT CleanCloseIsDurable
INVARIANT SameOffsetWritesLandInOrder
PROPERTY FlushPersistsAcknowledgedWrites
PROPERTY OperationsReturn
CHECK_DEADLOCK FALSE
PROPERTY WritePipelineRefined
