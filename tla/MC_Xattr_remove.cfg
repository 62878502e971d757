\* Two threads removing the same name concurrently, no backend faults.
CONSTANTS
    t1 = t1
    t2 = t2
    a = a
    b = b
    u = u
    Threads = {t1, t2}
    Attrs = {a, b, u}
    Unhandled = {u}
    AttrLen <- MCAttrLen
    Values = {1, 2}
    DestLens = {1, 2}
    Faults = FALSE
SPECIFICATION Spec
INVARIANT RemoveAbsentIsNoData
CHECK_DEADLOCK FALSE
