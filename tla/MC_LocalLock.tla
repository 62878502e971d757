---------------------------- MODULE MC_LocalLock ----------------------------
(* Model-checking instance of LocalLock. *)
EXTENDS LocalLock, TLC

CONSTANTS p1, p2

\* [0,0] and [1,1] are disjoint; [0,1] overlaps both at a boundary byte
MCRanges == {[start |-> 0, end |-> 0], [start |-> 1, end |-> 1], [start |-> 0, end |-> 1]}

\* processes are interchangeable: no definition names one of them
PidSymmetry == Permutations({p1, p2})
=============================================================================
