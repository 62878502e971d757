---------------------------- MODULE IRODSFSFile ----------------------------
(***************************************************************************)
(* One file of an iRODS FUSE mount, the FileHandles opened on it, the      *)
(* process-wide handle registry and the termination flag.                  *)
(*                                                                         *)
(*  - File.Open / File.Truncate            (src/irodsfs/file.go)           *)
(*  - FileHandle.Read/Write/Flush/Fsync/Truncate/Setattr/Release           *)
(*                                          (src/irodsfs/filehandle.go)    *)
(*  - the write pipeline of a write-only handle, AsyncWriter over          *)
(*    SyncBufferedWriter over SyncWriter (irodsfs-common, from spec.md     *)
(*    section 4.3): a task queue drained by one worker goroutine into a    *)
(*    single contiguous buffer of BlockSize units;                         *)
(*  - the FileHandleMap registry (spec.md section 4.4).                    *)
(*                                                                         *)
(* Data is abstracted to "stamps": the k-th acknowledged write carries     *)
(* stamp k, one unit long; 0 is a byte nobody wrote through the mount.     *)
(* The backend object is the sequence of stamps it holds.                  *)
(***************************************************************************)
EXTENDS Naturals, Sequences, FiniteSets, Bitwise

CONSTANTS
    Handles,        \* handle ids the FUSE layer may hand out
    NoHandle,       \* model value: no handle
    OpenFlags,      \* POSIX open flags FUSE may pass to File.Open
    MaxWrites,      \* bound on acknowledged writes (stamps 1..MaxWrites)
    Offsets,        \* offsets (in units) a write may target
    TruncSizes,     \* sizes a truncate may request
    BlockSize,      \* capacity of the SyncBufferedWriter buffer, in units
    InitLen,        \* length of the object when the mount starts
    ReadOnlyMapping,\* the VPath mapping of the file is read-only
    Faults          \* backend calls may fail

ASSUME /\ NoHandle \notin Handles
       /\ MaxWrites \in Nat \ {0}
       /\ Offsets \subseteq Nat /\ TruncSizes \subseteq Nat
       /\ BlockSize \in Nat \ {0, 1}
       /\ InitLen \in Nat
       /\ ReadOnlyMapping \in BOOLEAN /\ Faults \in BOOLEAN

\* os.O_* values on Linux
O_RDONLY == 0
O_WRONLY == 1
O_RDWR   == 2
O_TRUNC  == 512
O_APPEND == 1024

\* irodsclient_types.FileOpenMode (src/unnamed/part_000)
OpenModes  == {"r", "r+", "w", "w+", "a"}
NoMode     == "none"
Stamps     == 1..MaxWrites
Outcomes   == IF Faults THEN BOOLEAN ELSE {TRUE}
NoCut      == 1000     \* larger than any object length of the model

\* Life of a FileHandle, from the FUSE layer's point of view
\*   unused   never opened
\*   idle     open, no Flush/Release in progress
\*   flush    Flush or Fsync waiting for the writer to drain
\*   release  Release waiting for the writer to drain
\*   closing  Release returned; closeFunc runs in its own goroutine
\*   leaked   Release returned EREMOTEIO before closeFunc
\*   orphan   Open returned EREMOTEIO after fsClient.OpenFile succeeded
\*   closed   removed from the registry, backend handle closed
HandleStates == {"unused", "idle", "flush", "release", "closing", "leaked", "orphan", "closed"}

VARIABLES
    terminated,     \* IRODSFS.terminated
    mode,           \* open mode of each handle's backend handle
    hop,            \* life of each handle, see HandleStates
    registry,       \* fileHandleMap: handles registered for the file
    wq,             \* AsyncWriter task queue: writes not yet given to the buffer
    buf,            \* SyncBufferedWriter buffer [off, data]
    werr,           \* writer sticky error
    rerr,           \* reader sticky error (AsyncCacheThroughReader.GetError)
    ftr,            \* File.Truncate in progress (holds file.mutex)
    content,        \* the iRODS data object
    nextStamp,      \* stamp of the next acknowledged write
    acked,          \* history: handle and offset of each acknowledged write
    landed,         \* history: stamps that reached the data object
    cut,            \* history: least size truncated to after each write
    flushWant       \* history: stamps acknowledged on h when its Flush began

vars == <<terminated, mode, hop, registry, wq, buf, werr, rerr, ftr, content,
          nextStamp, acked, landed, cut, flushWant>>

-----------------------------------------------------------------------------
(* Helpers *)

EmptyBuf == [off |-> 0, data |-> <<>>]
NoWrite  == [h |-> NoHandle, off |-> 0]

\* openMode computation at the top of File.Open
OpenModeOf(flags) ==
    IF (flags & O_WRONLY) = O_WRONLY
    THEN IF (flags & O_APPEND) = O_APPEND THEN "a"
         ELSE IF (flags & O_TRUNC) = O_TRUNC THEN "w+"
         ELSE "w"
    ELSE IF (flags & O_RDWR) = O_RDWR THEN "r+"
    ELSE "r"

\* IRODSFSFileHandle.IsReadMode / IsWriteMode
IsReadMode(m)  == m \in {"r", "r+"}
IsWriteMode(m) == m \in {"r+", "w", "w+", "a"}
\* NewFileHandle: write-only modes get AsyncWriter(SyncBufferedWriter(SyncWriter))
IsAsyncWriter(m) == m \in {"w", "w+", "a"}

\* The backend handle is open (fileHandle.Close has not run)
BackendOpen(h) == hop[h] \in {"idle", "flush", "release", "closing", "leaked", "orphan"}

\* Writing data at off (0-based) into object c, zero-filling any gap
Overlay(c, off, data) ==
    LET n == IF off + Len(data) > Len(c) THEN off + Len(data) ELSE Len(c)
    IN [i \in 1..n |-> IF i > off /\ i <= off + Len(data) THEN data[i - off]
                       ELSE IF i <= Len(c) THEN c[i] ELSE 0]

\* Truncating object c to n units (extending with zeros)
Resize(c, n) == [i \in 1..n |-> IF i <= Len(c) THEN c[i] ELSE 0]

\* A truncate to n caps the visible extent of every write acknowledged so far
CutAt(n) == [s \in Stamps |-> IF s < nextStamp /\ n < cut[s] THEN n ELSE cut[s]]

\* The stamps of buffer b
StampsOf(data) == {data[i] : i \in DOMAIN data}

-----------------------------------------------------------------------------
TypeOK ==
    /\ terminated \in BOOLEAN
    /\ mode \in [Handles -> OpenModes \cup {NoMode}]
    /\ hop \in [Handles -> HandleStates]
    /\ registry \subseteq Handles
    /\ wq \in [Handles -> Seq([off: Offsets, stamp: Stamps])]
    /\ buf \in [Handles -> [off: Nat, data: Seq(Stamps)]]
    /\ werr \in [Handles -> BOOLEAN] /\ rerr \in [Handles -> BOOLEAN]
    /\ ftr \in [pc: {"idle", "listed"}, size: Nat, target: Handles \cup {NoHandle},
                statSize: Nat]
    /\ content \in Seq(0..MaxWrites)
    /\ nextStamp \in 1..(MaxWrites + 1)
    /\ acked \in [Stamps -> [h: Handles \cup {NoHandle}, off: Nat]]
    /\ landed \subseteq Stamps
    /\ cut \in [Stamps -> Nat]
    /\ flushWant \in [Handles -> SUBSET Stamps]

Init ==
    /\ terminated = FALSE
    /\ mode = [h \in Handles |-> NoMode]
    /\ hop = [h \in Handles |-> "unused"]
    /\ registry = {}
    /\ wq = [h \in Handles |-> <<>>]
    /\ buf = [h \in Handles |-> EmptyBuf]
    /\ werr = [h \in Handles |-> FALSE]
    /\ rerr = [h \in Handles |-> FALSE]
    /\ ftr = [pc |-> "idle", size |-> 0, target |-> NoHandle, statSize |-> 0]
    /\ content = [i \in 1..InitLen |-> 0]
    /\ nextStamp = 1
    /\ acked = [s \in Stamps |-> NoWrite]
    /\ landed = {}
    /\ cut = [s \in Stamps |-> NoCut]
    /\ flushWant = [h \in Handles |-> {}]

-----------------------------------------------------------------------------
(* Operations *)

\* Outcomes of NewFileHandle: for a read-only handle it fails when the
\* AsyncCacheThroughReader cannot be built, a library error.
NewFileHandleOutcomes(m) == IF m = "r" /\ Faults THEN {"idle", "orphan"} ELSE {"idle"}

\* File.Open: the open mode from the flags, the read-only mapping check,
\* fsClient.OpenFile ("w+" truncates the object), NewFileHandle and
\* fileHandleMap.Add, all under file.mutex.RLock. When NewFileHandle fails,
\* Open returns EREMOTEIO and the backend handle stays open, unregistered.
Open(h, flags) ==
    LET m == OpenModeOf(flags) IN
    /\ ~terminated
    /\ hop[h] = "unused"
    /\ ftr.pc = "idle"
    /\ ~(ReadOnlyMapping /\ m # "r")
    /\ mode' = [mode EXCEPT ![h] = m]
    /\ \E o \in NewFileHandleOutcomes(m) :
        /\ hop' = [hop EXCEPT ![h] = o]
        /\ registry' = IF o = "idle" THEN registry \cup {h} ELSE registry
    /\ content' = IF m = "w+" THEN <<>> ELSE content
    /\ cut' = IF m = "w+" THEN CutAt(0) ELSE cut
    /\ UNCHANGED <<terminated, wq, buf, werr, rerr, ftr, nextStamp, acked, landed,
                   flushWant>>

\* Mutant of Write: the queued write is recorded one unit further on.
WriteOffByOne(h, off) ==
    /\ ~terminated
    /\ hop[h] \in {"idle", "flush"}
    /\ IsWriteMode(mode[h])
    /\ nextStamp <= MaxWrites
    /\ IF IsAsyncWriter(mode[h])
       THEN /\ ~werr[h]
            /\ wq' = [wq EXCEPT ![h] = Append(@, [off |-> off + 1, stamp |-> nextStamp])]
            /\ UNCHANGED <<content, landed>>
       ELSE /\ content' = Overlay(content, off, <<nextStamp>>)
            /\ landed' = landed \cup {nextStamp}
            /\ UNCHANGED wq
    /\ acked' = [acked EXCEPT ![nextStamp] = [h |-> h, off |-> off]]
    /\ nextStamp' = nextStamp + 1
    /\ UNCHANGED <<terminated, mode, hop, registry, buf, werr, rerr, ftr, cut,
                   flushWant>>

\* FileHandle.Write of one unit at off. The AsyncWriter queues the write
\* (failing fast on a sticky error); the SyncWriter of a read-write handle
\* writes through to the object. A write that returns an error changes no
\* modelled state.
Write(h, off) ==
    /\ ~terminated
    /\ hop[h] \in {"idle", "flush"}
    /\ IsWriteMode(mode[h])
    /\ nextStamp <= MaxWrites
    /\ IF IsAsyncWriter(mode[h])
       THEN /\ ~werr[h]
            /\ wq' = [wq EXCEPT ![h] = Append(@, [off |-> off, stamp |-> nextStamp])]
            /\ UNCHANGED <<content, landed>>
       ELSE /\ content' = Overlay(content, off, <<nextStamp>>)
            /\ landed' = landed \cup {nextStamp}
            /\ UNCHANGED wq
    /\ acked' = [acked EXCEPT ![nextStamp] = [h |-> h, off |-> off]]
    /\ nextStamp' = nextStamp + 1
    /\ UNCHANGED <<terminated, mode, hop, registry, buf, werr, rerr, ftr, cut,
                   flushWant>>

\* FileHandle.Read. A read that succeeds changes no modelled state; a failed
\* backend read of the AsyncCacheThroughReader is recorded as its sticky error.
Read(h) ==
    /\ ~terminated
    /\ hop[h] \in {"idle", "flush"}
    /\ IsReadMode(mode[h])
    /\ mode[h] = "r"
    /\ Faults
    /\ rerr' = [rerr EXCEPT ![h] = TRUE]
    /\ UNCHANGED <<terminated, mode, hop, registry, wq, buf, werr, ftr, content,
                   nextStamp, acked, landed, cut, flushWant>>

\* SyncBufferedWriter writing the buffered run out through the SyncWriter,
\* keeping rest as the new buffer. A failure records the sticky error and
\* drops the buffer.
WriteOut(h, out, rest) ==
    \E ok \in IF out.data = <<>> THEN {TRUE} ELSE Outcomes :
        IF ok
        THEN /\ content' = IF out.data = <<>> THEN content
                           ELSE Overlay(content, out.off, out.data)
             /\ landed' = landed \cup StampsOf(out.data)
             /\ buf' = [buf EXCEPT ![h] = rest]
             /\ werr' = werr
        ELSE /\ werr' = [werr EXCEPT ![h] = TRUE]
             /\ buf' = [buf EXCEPT ![h] = EmptyBuf]
             /\ UNCHANGED <<content, landed>>

\* Mutant of AsyncWriterTask: a write that does not extend the buffer is sent
\* straight out, and the old buffer kept for later (swapped order).
AsyncWriterTaskSwapped(h) ==
    /\ wq[h] # <<>>
    /\ wq' = [wq EXCEPT ![h] = Tail(@)]
    /\ LET r   == Head(wq[h])
           b   == buf[h]
           seq == r.off = b.off + Len(b.data)
           one == [off |-> r.off, data |-> <<r.stamp>>]
       IN IF werr[h]
          THEN UNCHANGED <<buf, werr, content, landed>>
          ELSE IF b.data = <<>>
          THEN /\ buf' = [buf EXCEPT ![h] = one]
               /\ UNCHANGED <<werr, content, landed>>
          ELSE IF seq /\ Len(b.data) + 1 < BlockSize
          THEN /\ buf' = [buf EXCEPT ![h].data = Append(@, r.stamp)]
               /\ UNCHANGED <<werr, content, landed>>
          ELSE IF seq
          THEN WriteOut(h, [off |-> b.off, data |-> Append(b.data, r.stamp)], EmptyBuf)
          ELSE WriteOut(h, one, b)
    /\ UNCHANGED <<terminated, mode, hop, registry, rerr, ftr, nextStamp, acked, cut,
                   flushWant>>

\* Mutant of AsyncWriterTask: after a sticky error the worker stops taking
\* tasks instead of dropping them.
AsyncWriterTaskStalls(h) ==
    /\ ~werr[h]
    /\ wq[h] # <<>>
    /\ wq' = [wq EXCEPT ![h] = Tail(@)]
    /\ LET r   == Head(wq[h])
           b   == buf[h]
           seq == r.off = b.off + Len(b.data)
           one == [off |-> r.off, data |-> <<r.stamp>>]
       IN IF b.data = <<>>
          THEN /\ buf' = [buf EXCEPT ![h] = one]
               /\ UNCHANGED <<werr, content, landed>>
          ELSE IF seq /\ Len(b.data) + 1 < BlockSize
          THEN /\ buf' = [buf EXCEPT ![h].data = Append(@, r.stamp)]
               /\ UNCHANGED <<werr, content, landed>>
          ELSE IF seq
          THEN WriteOut(h, [off |-> b.off, data |-> Append(b.data, r.stamp)], EmptyBuf)
          ELSE WriteOut(h, b, one)
    /\ UNCHANGED <<terminated, mode, hop, registry, rerr, ftr, nextStamp, acked, cut,
                   flushWant>>

\* The AsyncWriter worker goroutine of h hands the oldest queued write to the
\* SyncBufferedWriter: a write extending the buffer is absorbed, and the
\* buffer goes out when it fills; any other write sends the buffer out first
\* and starts a new one. After a sticky error, queued writes are dropped.
AsyncWriterTask(h) ==
    /\ wq[h] # <<>>
    /\ wq' = [wq EXCEPT ![h] = Tail(@)]
    /\ LET r   == Head(wq[h])
           b   == buf[h]
           seq == r.off = b.off + Len(b.data)
           one == [off |-> r.off, data |-> <<r.stamp>>]
       IN IF werr[h]
          THEN UNCHANGED <<buf, werr, content, landed>>
          ELSE IF b.data = <<>>
          THEN /\ buf' = [buf EXCEPT ![h] = one]
               /\ UNCHANGED <<werr, content, landed>>
          ELSE IF seq /\ Len(b.data) + 1 < BlockSize
          THEN /\ buf' = [buf EXCEPT ![h].data = Append(@, r.stamp)]
               /\ UNCHANGED <<werr, content, landed>>
          ELSE IF seq
          THEN WriteOut(h, [off |-> b.off, data |-> Append(b.data, r.stamp)], EmptyBuf)
          ELSE WriteOut(h, b, one)
    /\ UNCHANGED <<terminated, mode, hop, registry, rerr, ftr, nextStamp, acked, cut,
                   flushWant>>

\* FileHandle.Flush and FileHandle.Fsync call writer.Flush, which first
\* waits for the task queue to drain (FlushDone).
Flush(h) ==
    /\ ~terminated
    /\ hop[h] = "idle"
    /\ hop' = [hop EXCEPT ![h] = "flush"]
    /\ flushWant' = [flushWant EXCEPT ![h] = {s \in Stamps : s < nextStamp /\ acked[s].h = h}]
    /\ UNCHANGED <<terminated, mode, registry, wq, buf, werr, rerr, ftr, content,
                   nextStamp, acked, landed, cut>>

\* Mutant of FlushDone: waits for the queue but leaves the buffer unwritten.
FlushDoneKeepsBuffer(h) ==
    /\ hop[h] = "flush"
    /\ wq[h] = <<>>
    /\ hop' = [hop EXCEPT ![h] = "idle"]
    /\ UNCHANGED <<terminated, mode, registry, wq, buf, werr, rerr, ftr, content,
                   nextStamp, acked, landed, cut, flushWant>>

\* Mutant of FlushDone: the buffer is written out but not reset.
FlushDoneNoReset(h) ==
    /\ hop[h] = "flush"
    /\ wq[h] = <<>>
    /\ WriteOut(h, buf[h], buf[h])
    /\ hop' = [hop EXCEPT ![h] = "idle"]
    /\ UNCHANGED <<terminated, mode, registry, wq, rerr, ftr, nextStamp, acked, cut,
                   flushWant>>

\* writer.Flush returns once the queue is empty and the buffer is written.
FlushDone(h) ==
    /\ hop[h] = "flush"
    /\ wq[h] = <<>>
    /\ WriteOut(h, buf[h], EmptyBuf)
    /\ hop' = [hop EXCEPT ![h] = "idle"]
    /\ UNCHANGED <<terminated, mode, registry, wq, rerr, ftr, nextStamp, acked, cut,
                   flushWant>>

\* FileHandle.Release: reader.Release and reader.GetError; a sticky reader
\* error returns EREMOTEIO at once. Otherwise writer.Release waits for the
\* queue (ReleaseDone).
Release(h) ==
    /\ ~terminated
    /\ hop[h] = "idle"
    /\ hop' = [hop EXCEPT ![h] = IF rerr[h] THEN "leaked" ELSE "release"]
    /\ UNCHANGED <<terminated, mode, registry, wq, buf, werr, rerr, ftr, content,
                   nextStamp, acked, landed, cut, flushWant>>

\* Mutant of ReleaseDone: does not wait for the task queue to drain.
ReleaseDoneNoDrain(h) ==
    /\ hop[h] = "release"
    /\ WriteOut(h, buf[h], EmptyBuf)
    /\ hop' = [hop EXCEPT ![h] = IF werr'[h] THEN "leaked"
                                 ELSE IF mode[h] = "r" THEN "closing" ELSE "closed"]
    /\ registry' = IF ~werr'[h] /\ mode[h] # "r" THEN registry \ {h} ELSE registry
    /\ UNCHANGED <<terminated, mode, wq, rerr, ftr, nextStamp, acked, cut, flushWant>>

\* writer.Release writes the buffer out; on a sticky writer error Release
\* returns EREMOTEIO before closeFunc. Otherwise closeFunc (fileHandleMap.Remove,
\* fileHandle.Close) runs inline, or in a goroutine for a read-only handle.
ReleaseDone(h) ==
    /\ hop[h] = "release"
    /\ wq[h] = <<>>
    /\ WriteOut(h, buf[h], EmptyBuf)
    /\ hop' = [hop EXCEPT ![h] = IF werr'[h] THEN "leaked"
                                 ELSE IF mode[h] = "r" THEN "closing" ELSE "closed"]
    /\ registry' = IF ~werr'[h] /\ mode[h] # "r" THEN registry \ {h} ELSE registry
    /\ UNCHANGED <<terminated, mode, wq, rerr, ftr, nextStamp, acked, cut, flushWant>>

\* closeFunc of a read-only handle, in its goroutine
CloseFunc(h) ==
    /\ hop[h] = "closing"
    /\ hop' = [hop EXCEPT ![h] = "closed"]
    /\ registry' = registry \ {h}
    /\ UNCHANGED <<terminated, mode, wq, buf, werr, rerr, ftr, content, nextStamp,
                   acked, landed, cut, flushWant>>

\* FileHandle.Truncate, called by File.Truncate on the handle it chose:
\* ECONNABORTED once terminated, EBADFD for a read-only handle, and the
\* backend truncate fails with EREMOTEIO once the backend handle is closed.
TruncateSucceeds(h) == ~terminated /\ IsWriteMode(mode[h]) /\ BackendOpen(h)

\* File.Truncate (and File.Setattr with a size), under file.mutex.Lock:
\* stat the object and list the registered handles of its path, choosing the
\* first write-mode one (map order) ...
FileTruncate(size) ==
    LET writers == {h \in registry : IsWriteMode(mode[h])} IN
    /\ ~terminated
    /\ ftr.pc = "idle"
    /\ \E t \in IF writers = {} THEN {NoHandle} ELSE writers :
          ftr' = [pc |-> "listed", size |-> size, target |-> t, statSize |-> Len(content)]
    /\ UNCHANGED <<terminated, mode, hop, registry, wq, buf, werr, rerr, content,
                   nextStamp, acked, landed, cut, flushWant>>

\* ... then truncate through that handle (FileHandle.Truncate) or, without
\* one, through fsClient.TruncateFile unless the stat size already matches.
TruncateApply ==
    LET t     == ftr.target
        apply == IF t # NoHandle THEN TruncateSucceeds(t)
                 ELSE ftr.statSize # ftr.size
    IN
    /\ ftr.pc = "listed"
    /\ ftr' = [ftr EXCEPT !.pc = "idle"]
    /\ content' = IF apply THEN Resize(content, ftr.size) ELSE content
    /\ cut' = IF apply THEN CutAt(ftr.size) ELSE cut
    /\ UNCHANGED <<terminated, mode, hop, registry, wq, buf, werr, rerr, nextStamp,
                   acked, landed, flushWant>>

\* The shutdown path sets IRODSFS.terminated; operations check it on entry.
Terminate ==
    /\ ~terminated
    /\ terminated' = TRUE
    /\ UNCHANGED <<mode, hop, registry, wq, buf, werr, rerr, ftr, content, nextStamp,
                   acked, landed, cut, flushWant>>

Next ==
    \/ \E h \in Handles, f \in OpenFlags : Open(h, f)
    \/ \E h \in Handles, o \in Offsets : Write(h, o)
    \/ \E n \in TruncSizes : FileTruncate(n)
    \/ TruncateApply
    \/ \E h \in Handles :
         \/ Read(h) \/ Flush(h) \/ FlushDone(h) \/ Release(h) \/ ReleaseDone(h)
         \/ CloseFunc(h) \/ AsyncWriterTask(h)
    \/ Terminate

\* Threads already inside an operation, and the worker and close goroutines,
\* keep running; the FUSE client issuing new operations need not.
Fairness ==
    /\ WF_vars(TruncateApply)
    /\ \A h \in Handles :
         /\ WF_vars(AsyncWriterTask(h))
         /\ WF_vars(FlushDone(h))
         /\ WF_vars(ReleaseDone(h))
         /\ WF_vars(CloseFunc(h))

Spec == Init /\ [][Next]_vars /\ Fairness
-----------------------------------------------------------------------------
(* Properties *)

\* Flush and Fsync (writer.Flush) return success only once every write
\* acknowledged on the handle before the call has reached the data object
\* (spec.md 4.3: Flush blocks until the queue drains and the SyncWriter has
\* acknowledged every write), concurrent writes and truncates notwithstanding.
FlushPersistsAcknowledgedWrites ==
    [][\A h \in Handles :
          (hop[h] = "flush" /\ hop'[h] = "idle" /\ ~werr'[h])
             => flushWant[h] \subseteq landed']_vars

\* Every write acknowledged through a handle that Release closed cleanly has
\* reached the data object: nothing is stranded in the AsyncWriter queue or
\* the SyncBufferedWriter buffer of a closed handle.
CleanCloseIsDurable ==
    \A s \in Stamps :
        (acked[s].h # NoHandle /\ hop[acked[s].h] = "closed") => s \in landed

\* Two writes through one handle at the same offset reach the data object in
\* the order FileHandle.Write acknowledged them, so the later one wins
\* (spec.md 5: writes on a handle are committed in submission order).
SameOffsetWritesLandInOrder ==
    \A s1, s2 \in Stamps :
        (/\ s1 < s2
         /\ acked[s2].h # NoHandle
         /\ acked[s1].h = acked[s2].h
         /\ acked[s1].off = acked[s2].off
         /\ s2 \in landed) => s1 \in landed

\* A Flush, Fsync or Release that got past its entry checks returns, and the
\* close goroutine of a read-only handle runs: the writer queue always drains.
OperationsReturn ==
    \A h \in Handles :
        /\ hop[h] = "flush" ~> hop[h] = "idle"
        /\ hop[h] \in {"release", "closing"} ~> hop[h] \in {"closed", "leaked"}

\* spec.md 8, property 4 (and scenario 4: write, truncate, then Flush and
\* Release leave the object at the truncated size): a File.Truncate with
\* write handles open takes effect. The truncate is sent through a handle
\* that is still open, so it is applied rather than failing with EREMOTEIO,
\* and no byte written before it reappears beyond the truncated size.
TruncateTakesEffect ==
    /\ [][(/\ ftr.pc = "listed" /\ ftr'.pc = "idle"
           /\ ftr.target # NoHandle /\ ~terminated) => BackendOpen(ftr.target)]_vars
    /\ [](\A i \in 1..Len(content) : content[i] # 0 => i <= cut[content[i]])

\* Every backend handle the kernel can no longer release is eventually
\* closed and out of the registry: one whose Release was called (spec.md 8,
\* property 6; BackendHandle.Close happens inside Release, spec.md 3), and
\* one whose File.Open failed after fsClient.OpenFile had opened it.
BackendHandlesReclaimed ==
    \A h \in Handles :
        hop[h] \in {"release", "leaked", "closing", "orphan"} ~> hop[h] = "closed"

-----------------------------------------------------------------------------
(* Refinement of WritePipeline *)

\* The writes held in a SyncBufferedWriter buffer, one unit each
BufWrites(b) == [i \in 1..Len(b.data) |-> [off |-> b.off + i - 1, stamp |-> b.data[i]]]

\* What a handle has acknowledged and not committed: its buffer, then its
\* task queue; after a sticky error the worker only drops what is left.
PendingWrites(h) == IF werr[h] THEN <<>> ELSE BufWrites(buf[h]) \o wq[h]

Pipeline == INSTANCE WritePipeline
                WITH pending <- [h \in Handles |-> PendingWrites(h)],
                     failed  <- werr,
                     object  <- content,
                     Writes  <- [off: Offsets, stamp: Stamps],
                     Sizes   <- TruncSizes \cup {0}

\* The queue, the worker and the buffer of the AsyncWriter stack implement
\* the FIFO of spec.md 4.3: the object only ever receives, in order, a
\* prefix of each handle's acknowledged writes (buffer merging and
\* non-sequential flushes included), a write-through, or a truncate
\* (File.Truncate, directly or through a handle, and open with O_TRUNC).
WritePipelineRefined == Pipeline!Spec

=============================================================================
