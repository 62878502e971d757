------------------------------ MODULE WorkDirs ------------------------------
(***************************************************************************)
(* The per-instance directories of src/commons/config.go: MakeLogDir,     *)
(* MakeWorkDirs and CleanWorkDirs, with makeDir and removeDir, for several *)
(* mount processes that share a data root (the default data root is the   *)
(* working directory, GetDefaultDataRootDirPath). Each process names its  *)
(* directories after getInstanceID, a fresh xid per process, so a restart *)
(* gets a new id. spec.md 6: the instance directory <data_root>/<id>/ and *)
(* its temp/ are created at start and removed at clean shutdown; a crash  *)
(* removes nothing.                                                       *)
(*                                                                        *)
(* A path is a sequence of names. A directory entry is "none", a writable *)
(* "dir", a "rodir" without the owner write bit, or a "file".             *)
(***************************************************************************)
EXTENDS Naturals, SequencesExt, FiniteSets, TLC

CONSTANTS
    Instances,      \* mount processes
    Ids,            \* xid instance ids, as strings; one per process start
    DataRoot,       \* the data root all instances share, a path
    LogPaths,       \* log_path settings; <<>> is the default
    LogName(_)      \* the default log file name of an id, "<id>.log"

Kinds == {"none", "dir", "rodir", "file"}
NoId  == "none"

VARIABLES
    fs,         \* the local file system: path -> kind, "none" outside DOMAIN
    id,         \* the xid of the last process started as each instance
    logPath,    \* each instance's log_path setting
    xst         \* what became of the process with each xid: "unused",
                \* "up", "stopped", "crashed" or "failed" (at start)

vars == <<fs, id, logPath, xst>>

\* xid never hands out an id twice
Unused == {x \in Ids : xst[x] = "unused"}

Running(i) == id[i] # NoId /\ xst[id[i]] = "up"

Kind(p) == IF p \in DOMAIN fs THEN fs[p] ELSE "none"

\* the proper ancestors of p, "/" (<<>>) included
Ancestors(p) == {SubSeq(p, 1, k) : k \in 0..Len(p) - 1}

-----------------------------------------------------------------------------
(* Paths (config.go) *)

\* GetLogFilePath: log_path if set, else <data_root>/<id>.log
GetLogFilePath(i, ids) ==
    IF logPath[i] # <<>> THEN logPath[i] ELSE Append(DataRoot, LogName(ids[i]))

\* Mutant of GetTempRootDirPath: the temp dir is not named after the id.
GetTempRootDirPathShared(i, ids) == Append(DataRoot, "temp")

\* GetTempRootDirPath: <data_root>/<id>/temp
GetTempRootDirPath(i, ids) == DataRoot \o <<ids[i], "temp">>

\* GetInstanceDataRootDirPath: <data_root>/<id>
GetInstanceDataRootDirPath(i, ids) == Append(DataRoot, ids[i])

-----------------------------------------------------------------------------
(* makeDir and removeDir, as results [ok, fs] *)

\* makeDir: a missing path is made with MkdirAll(path, 0775), which fails
\* when an ancestor is a file or the deepest existing ancestor is not
\* writable, and otherwise makes every missing directory down to path. An
\* existing path must be a directory whose mode has the owner write bit.
\* (Its empty-path error cannot occur: every path here is absolute, "/"
\* being <<>>.)
makeDir(f, p) ==
    LET kind(q)  == IF q \in DOMAIN f THEN f[q] ELSE "none"
        existing == {a \in Ancestors(p) : kind(a) # "none"}
        deepest  == CHOOSE a \in existing : \A b \in existing : Len(b) <= Len(a)
        missing  == {p} \cup {a \in Ancestors(p) : kind(a) = "none"}
    IN CASE kind(p) = "none" /\ (\E a \in existing : kind(a) = "file") ->
                [ok |-> FALSE, fs |-> f]
         [] kind(p) = "none" /\ kind(deepest) # "dir" ->
                [ok |-> FALSE, fs |-> f]
         [] kind(p) = "none" ->
                [ok |-> TRUE, fs |-> [q \in DOMAIN f \cup missing |->
                                        IF q \in missing THEN "dir" ELSE f[q]]]
         [] OTHER -> [ok |-> kind(p) = "dir", fs |-> f]

\* removeDir: os.RemoveAll. A missing path is no error; otherwise the path
\* and everything below it go, unless its parent is not writable, when the
\* unlink fails. (A failing RemoveAll may already have emptied the path;
\* every path removed here lies in a directory this process made 0775.)
removeDir(f, p) ==
    LET kind(q) == IF q \in DOMAIN f THEN f[q] ELSE "none"
        gone    == {q \in DOMAIN f : Len(q) >= Len(p) /\ SubSeq(q, 1, Len(p)) = p}
    IN CASE kind(p) = "none"          -> [ok |-> TRUE, fs |-> f]
         [] kind(Front(p)) # "dir"    -> [ok |-> FALSE, fs |-> f]
         [] OTHER -> [ok |-> TRUE, fs |-> [q \in DOMAIN f |->
                                             IF q \in gone THEN "none" ELSE f[q]]]

-----------------------------------------------------------------------------
(* The three helpers, each as a result [ok, fs] *)

\* MakeLogDir: makeDir of the log file's directory (filepath.Dir)
MakeLogDir(f, i, ids) == makeDir(f, Front(GetLogFilePath(i, ids)))

\* MakeWorkDirs: makeDir of the temp dir; MkdirAll makes the instance dir
MakeWorkDirs(f, i, ids) == makeDir(f, GetTempRootDirPath(i, ids))

\* Mutant of CleanWorkDirs: only the temp dir is removed.
CleanWorkDirsTempOnly(f, i, ids) == removeDir(f, GetTempRootDirPath(i, ids))

\* CleanWorkDirs: removeDir of the temp dir, and on success of the instance dir
CleanWorkDirs(f, i, ids) ==
    LET r1 == removeDir(f, GetTempRootDirPath(i, ids)) IN
    IF ~r1.ok THEN r1 ELSE removeDir(r1.fs, GetInstanceDataRootDirPath(i, ids))

-----------------------------------------------------------------------------
\* The file system holds "/" and the data root's parent as writable
\* directories; the data root itself may be missing, a writable directory,
\* one without the owner write bit, or a file.
Init ==
    /\ \E k \in Kinds :
          fs = (DataRoot :> k) @@ [p \in {<<>>, Front(DataRoot)} |-> "dir"]
    /\ id = [i \in Instances |-> NoId]
    /\ logPath \in [Instances -> LogPaths]
    /\ xst = [x \in Ids |-> "unused"]

\* A mount process starts as instance i. getInstanceID draws a fresh xid
\* for the process; spec.md 6 has it make the log dir, then the work dirs,
\* and end (exit code 1) at the first error, leaving what it made.
Start(i) ==
    /\ ~Running(i)
    /\ \E x \in Unused :
         LET id1 == [id EXCEPT ![i] = x]
             r1  == MakeLogDir(fs, i, id1)
             r2  == MakeWorkDirs(r1.fs, i, id1)
         IN /\ id' = id1
            /\ fs' = IF r1.ok THEN r2.fs ELSE r1.fs
            /\ xst' = [xst EXCEPT ![x] = IF r1.ok /\ r2.ok THEN "up" ELSE "failed"]
    /\ UNCHANGED logPath

\* Clean shutdown (spec.md 6) runs CleanWorkDirs; the process exits even
\* when it fails.
Stop(i) ==
    /\ Running(i)
    /\ fs' = CleanWorkDirs(fs, i, id).fs
    /\ xst' = [xst EXCEPT ![id[i]] = "stopped"]
    /\ UNCHANGED <<id, logPath>>

\* The process dies without its shutdown path: its directories stay.
Crash(i) ==
    /\ Running(i)
    /\ xst' = [xst EXCEPT ![id[i]] = "crashed"]
    /\ UNCHANGED <<fs, id, logPath>>

Next == \E i \in Instances : Start(i) \/ Stop(i) \/ Crash(i)

Spec == Init /\ [][Next]_vars

-----------------------------------------------------------------------------
(* Properties *)

\* The directories of a running instance exist: no start, stop or crash of
\* another process sharing the data root removes or replaces them, because
\* GetTempRootDirPath and GetInstanceDataRootDirPath name both after the
\* process's own xid.
RunningWorkDirsExist ==
    \A i \in Instances : Running(i) =>
        /\ Kind(GetInstanceDataRootDirPath(i, id)) = "dir"
        /\ Kind(GetTempRootDirPath(i, id)) = "dir"

\* spec.md 6: the instance directory and its temp/ are removed at clean
\* shutdown. Nothing under the data root is left but the directories of
\* processes that are running, crashed, or failed at start: CleanWorkDirs
\* removes both of a stopped process's directories.
NoStrayWorkDirs ==
    \A p \in DOMAIN fs :
        (/\ fs[p] # "none" /\ Len(p) > Len(DataRoot)
         /\ SubSeq(p, 1, Len(DataRoot)) = DataRoot) =>
            \E x \in Ids :
                /\ xst[x] \in {"up", "crashed", "failed"}
                /\ p \in {Append(DataRoot, x), DataRoot \o <<x, "temp">>}
====
