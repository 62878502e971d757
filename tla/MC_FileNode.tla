----------------------------- MODULE MC_FileNode -----------------------------
(* Model-checking instance of FileNode. *)
EXTENDS FileNode, TLC

CONSTANTS h1, t1, a, u

\* byte lengths of the names; "u" stands for an unhandled security.* name
MCAttrLen == (a :> 1) @@ (u :> 3)
=============================================================================
