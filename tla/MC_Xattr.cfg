\* Two threads, two names and one unhandled name, values of 1 and 2 bytes,
\* buffers below and at each value size, backend faults.
CONSTANTS
    t1 = t1
    t2 = t2
    a = a
    b = b
    u = u
    Threads = {t1, t2}
    Attrs = {a, b, u}
    Unhandled = {u}
    AttrLen <- MCAttrLen
    Values = {1, 2}
    DestLens = {1, 2}
    Faults = TRUE
SPECIFICATION Spec
INVARIANT TypeOK
INVARIANT OwnSetVisible
PROPERTY ListSizeExact
CHECK_DEADLOCK FALSE
SYMMETRY ThreadSymmetry
