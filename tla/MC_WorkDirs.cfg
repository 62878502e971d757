\* Two processes sharing the data root, four xids between them (two starts
\* each), every kind of data root and every log_path setting.
CONSTANTS
    Instances = {i1, i2}
    Ids <- MCIds
    DataRoot <- MCDataRoot
    LogPaths <- MCLogPaths
    LogName <- MCLogName
SPECIFICATION Spec
INVARIANT RunningWorkDirsExist
INVARIANT NoStrayWorkDirs
\* Once every xid is used no process can start: the bound, not the system,
\* stops here.
CHECK_DEADLOCK FALSE
