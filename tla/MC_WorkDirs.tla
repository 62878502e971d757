----------------------------- MODULE MC_WorkDirs -----------------------------
(* Model-checking instance of WorkDirs: two mount processes on one data   *)
(* root "h/d", one of them possibly with log_path "h/l.log" or "v/l.log". *)
EXTENDS WorkDirs

MCIds == {"x1", "x2", "x3", "x4"}
MCDataRoot == <<"h", "d">>
MCLogPaths == {<<>>, <<"h", "l.log">>, <<"v", "l.log">>}

\* getLogFilename: "<id>.log"
MCLogName(x) == x \o ".log"
=============================================================================
