--------------------------- MODULE MC_IRODSFSFile ---------------------------
(* Model-checking instance of IRODSFSFile. *)
EXTENDS IRODSFSFile, TLC

CONSTANTS h1, h2

\* O_RDONLY, O_WRONLY, O_RDWR, O_WRONLY|O_TRUNC, O_WRONLY|O_APPEND
MCOpenFlags == {O_RDONLY, O_WRONLY, O_RDWR, O_WRONLY + O_TRUNC}

\* handle ids are interchangeable
HandleSymmetry == Permutations({h1, h2})
=============================================================================
