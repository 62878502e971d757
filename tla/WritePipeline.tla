---------------------------- MODULE WritePipeline ----------------------------
(***************************************************************************)
(* What the write pipeline of a handle promises (spec.md 4.3), without the *)
(* task queue, the worker or the buffer: every handle has a FIFO of writes *)
(* it acknowledged and has not yet committed. The object changes only by   *)
(* committing a prefix of one handle's FIFO, in order, by a write that     *)
(* goes straight through when nothing is pending, or by a truncate. A      *)
(* backend failure loses what was pending and makes the error sticky: the  *)
(* handle accepts no more writes.                                          *)
(*                                                                         *)
(* IRODSFSFile implements this specification under the mapping given      *)
(* there (WritePipelineRefined).                                           *)
(***************************************************************************)
EXTENDS Naturals, Sequences, SequencesExt

CONSTANTS
    Handles,    \* handles that may write to the object
    Writes,     \* one-unit writes [off, stamp] a handle may issue
    Sizes,      \* sizes a truncate may set
    InitLen     \* length of the object at the start, all unwritten

VARIABLES
    pending,    \* per handle: acknowledged writes [off, stamp] not yet committed
    failed,     \* per handle: the sticky error is set
    object      \* the data object, a sequence of stamps (0 = never written)

vars == <<pending, failed, object>>

\* Writing data at off (0-based) into object c, zero-filling any gap
Overlay(c, off, data) ==
    LET n == IF off + Len(data) > Len(c) THEN off + Len(data) ELSE Len(c)
    IN [i \in 1..n |-> IF i > off /\ i <= off + Len(data) THEN data[i - off]
                       ELSE IF i <= Len(c) THEN c[i] ELSE 0]

\* The object after the one-unit writes ws, applied in their order
Commit(c, ws) == FoldLeft(LAMBDA x, w : Overlay(x, w.off, <<w.stamp>>), c, ws)

Init ==
    /\ pending = [h \in Handles |-> <<>>]
    /\ failed = [h \in Handles |-> FALSE]
    /\ object = [i \in 1..InitLen |-> 0]

\* A write is acknowledged and queued; a handle with a sticky error
\* fails it fast instead.
Accept(h, w) ==
    /\ ~failed[h]
    /\ pending' = [pending EXCEPT ![h] = Append(@, w)]
    /\ UNCHANGED <<failed, object>>

\* A write that goes straight to the object, behind nothing pending
WriteThrough(h, w) ==
    /\ pending[h] = <<>>
    /\ object' = Overlay(object, w.off, <<w.stamp>>)
    /\ UNCHANGED <<pending, failed>>

\* The k oldest pending writes of h reach the object, in order
CommitPrefix(h, k) ==
    /\ k \in 1..Len(pending[h])
    /\ object' = Commit(object, SubSeq(pending[h], 1, k))
    /\ pending' = [pending EXCEPT ![h] = SubSeq(@, k + 1, Len(@))]
    /\ UNCHANGED failed

\* A backend write fails: what h had pending is lost and the error sticks
Fail(h) ==
    /\ ~failed[h]
    /\ pending[h] # <<>>
    /\ pending' = [pending EXCEPT ![h] = <<>>]
    /\ failed' = [failed EXCEPT ![h] = TRUE]
    /\ UNCHANGED object

\* The object is truncated (or extended with zeros) to n units
Truncate(n) ==
    /\ object' = [i \in 1..n |-> IF i <= Len(object) THEN object[i] ELSE 0]
    /\ UNCHANGED <<pending, failed>>

Next ==
    \/ \E h \in Handles :
         \/ \E w \in Writes : Accept(h, w) \/ WriteThrough(h, w)
         \/ \E k \in 1..Len(pending[h]) : CommitPrefix(h, k)
         \/ Fail(h)
    \/ \E n \in Sizes : Truncate(n)

Spec == Init /\ [][Next]_vars
=============================================================================
