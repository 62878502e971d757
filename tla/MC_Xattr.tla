------------------------------ MODULE MC_Xattr ------------------------------
(* Model-checking instance of Xattr. *)
EXTENDS Xattr, TLC

CONSTANTS t1, t2, a, b, u

\* byte lengths of the names: "a" and "b" differ in length, "u" stands for an
\* unhandled name such as a security.* attribute
MCAttrLen == (a :> 1) @@ (b :> 2) @@ (u :> 3)

\* threads are interchangeable: no definition names one of them
ThreadSymmetry == Permutations({t1, t2})
=============================================================================
