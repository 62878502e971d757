----------------------------- MODULE LocalLock -----------------------------
(***************************************************************************)
(* Advisory byte-range locks of one FileHandle: File.Getlk/Setlk dispatch  *)
(* to FileHandle.GetLocalLock/SetLocalLock (src/irodsfs/file.go,           *)
(* src/irodsfs/filehandle.go), which consult the handle's                  *)
(* FileHandleLocalLockManager (spec.md 4.5). Each handle has its own       *)
(* table, so one handle is modelled; the processes sharing it (after fork  *)
(* or through one open file description) are Pids. File.Setlkw and         *)
(* SetLocalLockW return ENOTSUP and change nothing.                        *)
(***************************************************************************)
EXTENDS Naturals, FiniteSets

CONSTANTS
    Pids,       \* processes issuing lock requests through the handle
    Ranges,     \* byte ranges [start, end] (end inclusive, as fuse.FileLock)
    MaxLocks    \* bound on the xid ids SetLocalLock hands out

ASSUME /\ Ranges \subseteq [start: Nat, end: Nat]
       /\ \A r \in Ranges : r.start <= r.end
       /\ MaxLocks \in Nat \ {0}

\* syscall lock types on Linux
F_RDLCK == 0
F_WRLCK == 1
F_UNLCK == 2

\* FileHandleLocalLock {ID, LockType, Pid, Start, End}
LockRecords == [id: 1..MaxLocks, typ: {F_RDLCK, F_WRLCK}, pid: Pids,
                start: Nat, end: Nat]

VARIABLES
    terminated, \* IRODSFS.terminated
    locks,      \* the handle's lock table
    nextId,     \* next lock id
    reply,      \* last GetLocalLock answer given to each process
    held        \* history: locks each process was granted and has not unlocked

vars == <<terminated, locks, nextId, reply, held>>

-----------------------------------------------------------------------------
(* FileHandleLocalLockManager *)

Intersects(a, b) == a.start <= b.end /\ b.start <= a.end

\* a new lock of type t on r may not coexist with record l
Conflicts(l, t, r) == Intersects(l, r) /\ ~(l.typ = F_RDLCK /\ t = F_RDLCK)

Intersecting(r) == {l \in locks : Intersects(l, r)}

-----------------------------------------------------------------------------
TypeOK ==
    /\ terminated \in BOOLEAN
    /\ locks \subseteq LockRecords
    /\ \A l \in locks : l.start <= l.end
    /\ nextId \in 1..(MaxLocks + 1)
    /\ reply \in [Pids -> [typ: {F_RDLCK, F_WRLCK, F_UNLCK}, pid: Pids,
                           start: Nat, end: Nat]]
    /\ held \in [Pids -> SUBSET LockRecords]

Init ==
    /\ terminated = FALSE
    /\ locks = {}
    /\ nextId = 1
    /\ reply = [p \in Pids |-> [typ |-> F_UNLCK, pid |-> p, start |-> 0, end |-> 0]]
    /\ held = [p \in Pids |-> {}]

\* File.Getlk -> FileHandle.GetLocalLock: the first intersecting record (map
\* order), or the request echoed back with type F_UNLCK.
Getlk(p, t, r) ==
    /\ ~terminated
    /\ reply' = [reply EXCEPT ![p] =
                   IF Intersecting(r) = {}
                   THEN [typ |-> F_UNLCK, pid |-> p, start |-> r.start, end |-> r.end]
                   ELSE LET l == CHOOSE x \in Intersecting(r) : TRUE
                        IN [typ |-> l.typ, pid |-> l.pid, start |-> l.start, end |-> l.end]]
    /\ UNCHANGED <<terminated, locks, nextId, held>>

\* (mutant) the lock record is built with Start and End swapped
SetlkSwapped(p, t, r) ==
    LET rec == [id |-> nextId, typ |-> t, pid |-> p, start |-> r.end, end |-> r.start]
    IN
    /\ ~terminated
    /\ nextId <= MaxLocks
    /\ \A l \in locks : ~Conflicts(l, t, r)
    /\ locks' = locks \cup {rec}
    /\ nextId' = nextId + 1
    /\ held' = [held EXCEPT ![p] = @ \cup {rec}]
    /\ UNCHANGED <<terminated, reply>>

\* File.Setlk -> FileHandle.SetLocalLock with F_RDLCK or F_WRLCK: Lock
\* fails (EAGAIN) when a record conflicts, else the record is inserted.
Setlk(p, t, r) ==
    LET rec == [id |-> nextId, typ |-> t, pid |-> p, start |-> r.start, end |-> r.end]
    IN
    /\ ~terminated
    /\ nextId <= MaxLocks
    /\ \A l \in locks : ~Conflicts(l, t, r)
    /\ locks' = locks \cup {rec}
    /\ nextId' = nextId + 1
    /\ held' = [held EXCEPT ![p] = @ \cup {rec}]
    /\ UNCHANGED <<terminated, reply>>

\* File.Setlk -> FileHandle.SetLocalLock with F_UNLCK: Unlock removes every
\* intersecting record, whoever set it, and fails (ENOENT) if there is none.
Unlock(p, r) ==
    /\ ~terminated
    /\ Intersecting(r) # {}
    /\ locks' = locks \ Intersecting(r)
    /\ held' = [held EXCEPT ![p] = {l \in @ : ~Intersects(l, r)}]
    /\ UNCHANGED <<terminated, nextId, reply>>

Terminate ==
    /\ ~terminated
    /\ terminated' = TRUE
    /\ UNCHANGED <<locks, nextId, reply, held>>

\* One FUSE lock request of process p on range r, through File.Getlk or
\* File.Setlk (FileHandle.Getlk/Setlk delegate to them). File.Setlkw and
\* SetLocalLockW answer ENOTSUP and change nothing, so they are stuttering.
LockRequest(p, r) ==
    \/ Unlock(p, r)
    \/ \E t \in {F_RDLCK, F_WRLCK} : Setlk(p, t, r) \/ Getlk(p, t, r)

Next ==
    \/ \E p \in Pids, r \in Ranges : LockRequest(p, r)
    \/ Terminate

Spec == Init /\ [][Next]_vars

-----------------------------------------------------------------------------
(* Properties *)

\* The bytes a lock record or a FUSE lock request covers: fuse.FileLock's
\* End is inclusive. The properties below are stated over bytes, not over
\* the manager's range test, so an off-by-one at a shared boundary byte in
\* that test (spec.md 4.5: "intersects") shows up.
Span(x) == x.start..x.end

GrantedLocksStayUntilOwnerUnlocks ==
    \A p \in Pids : held[p] \subseteq locks
=============================================================================
