\* Two processes sharing a handle, three ranges, three lock ids.
CONSTANTS
    p1 = p1
    p2 = p2
    Pids = {p1, p2}
    Ranges <- MCRanges
    MaxLocks = 3
SPECIFICATION Spec
INVARIANT TypeOK
 
 
CHECK_DEADLOCK FALSE
SYMMETRY PidSymmetry
