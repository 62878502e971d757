------------------------------ MODULE FileNode ------------------------------
(***************************************************************************)
(* One File node of src/irodsfs/file.go with both of its faces: the data  *)
(* object, its handles and File.Truncate (IRODSFSFile), and its extended  *)
(* attributes (Xattr). The two share IRODSFS.terminated and file.mutex:   *)
(* File.Truncate holds the write lock from listing the handles to sending *)
(* the truncate; File.Open, Listxattr, Getxattr, Setxattr and Removexattr *)
(* hold the read lock for their whole body, Removexattr across its two    *)
(* backend calls. Handle operations (filehandle.go) take no file lock.    *)
(***************************************************************************)
EXTENDS Naturals

CONSTANTS
    Handles, NoHandle, OpenFlags, MaxWrites, Offsets, TruncSizes, BlockSize,
    InitLen, ReadOnlyMapping, Faults,
    Threads, Attrs, Unhandled, AttrLen, Values, DestLens

VARIABLES
    terminated,
    mode, hop, registry, wq, buf, werr, rerr, ftr, content, nextStamp, acked,
    landed, cut, flushWant,
    xattrs, pc, rmAttr, reply, own

fileVars  == <<mode, hop, registry, wq, buf, werr, rerr, ftr, content, nextStamp,
               acked, landed, cut, flushWant>>
xattrVars == <<xattrs, pc, rmAttr, reply, own>>
vars      == <<terminated, fileVars, xattrVars>>

File == INSTANCE IRODSFSFile
Attr == INSTANCE Xattr

\* file.mutex: File.Truncate's Lock waits for every reader to unlock, and a
\* reader's RLock waits while Truncate holds the lock.
RemoveInProgress == \E t \in Threads : pc[t] = "removing"
TruncateInProgress == ftr.pc = "listed"

Init == File!Init /\ Attr!Init

\* A step of the data side; the attributes are untouched.
FileStep ==
    /\ \/ \E h \in Handles, f \in OpenFlags : File!Open(h, f)
       \/ \E h \in Handles, o \in Offsets : File!Write(h, o)
       \/ \E n \in TruncSizes : ~RemoveInProgress /\ File!FileTruncate(n)
       \/ File!TruncateApply
       \/ \E h \in Handles :
            \/ File!Read(h) \/ File!Flush(h) \/ File!FlushDone(h)
            \/ File!Release(h) \/ File!ReleaseDone(h) \/ File!CloseFunc(h)
            \/ File!AsyncWriterTask(h)
    /\ UNCHANGED xattrVars

\* A step of an xattr operation; one that starts needs the read lock.
XattrStep ==
    /\ \/ \E t \in Threads :
            /\ ~TruncateInProgress
            /\ \/ \E d \in DestLens : Attr!Listxattr(t, d)
               \/ \E k \in Attrs, d \in DestLens : Attr!Getxattr(t, k, d)
               \/ \E k \in Attrs, v \in Values : Attr!Setxattr(t, k, v)
               \/ \E k \in Attrs : Attr!RemovexattrCheck(t, k)
       \/ \E t \in Threads : Attr!RemovexattrApply(t)
    /\ UNCHANGED fileVars

\* IRODSFS termination sets the one flag both sides check.
Terminate == File!Terminate /\ Attr!Terminate

Next == FileStep \/ XattrStep \/ Terminate

Spec == Init /\ [][Next]_vars /\ File!Fairness

-----------------------------------------------------------------------------
(* Properties *)

=============================================================================
