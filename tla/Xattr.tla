------------------------------- MODULE Xattr -------------------------------
(***************************************************************************)
(* Extended attributes of one file: File.Listxattr, Getxattr, Setxattr and *)
(* Removexattr (src/irodsfs/file.go). Each forwards to the backend's iRODS *)
(* metadata (ListXattr/GetXattr/SetXattr/RemoveXattr), holding only        *)
(* file.mutex.RLock, so any number of FUSE threads run them concurrently.  *)
(* Listxattr, Getxattr and Setxattr make one backend call each and are one *)
(* step; Removexattr makes two (GetXattr, then RemoveXattr) and is two.    *)
(*                                                                         *)
(* A value is abstracted to its byte length: Getxattr and Listxattr only   *)
(* compare lengths with the destination buffer and copy.                   *)
(***************************************************************************)
EXTENDS Integers, FiniteSetsExt

CONSTANTS
    Threads,        \* FUSE server threads serving requests on the file
    Attrs,          \* attribute names
    Unhandled,      \* names IsUnhandledAttr is true of
    AttrLen,        \* byte length of each name
    Values,         \* attribute values, as their byte lengths
    DestLens,       \* destination buffer sizes the kernel passes
    Faults          \* backend calls may fail

ASSUME /\ Unhandled \subseteq Attrs
       /\ AttrLen \in [Attrs -> Nat \ {0}]
       /\ Values \subseteq Nat /\ DestLens \subseteq Nat
       /\ Faults \in BOOLEAN

NoValue  == -1      \* GetXattr returned nil: no such attribute
NoClaim  == -1      \* see own
Outcomes == IF Faults THEN BOOLEAN ELSE {TRUE}
Errnos   == {"OK", "ERANGE", "ENODATA", "EINVAL", "EREMOTEIO", "ECONNABORTED"}
Ops      == {"none", "list", "get", "set", "remove"}

VARIABLES
    terminated, \* IRODSFS.terminated
    xattrs,     \* the object's metadata on the server: name -> value
    pc,         \* "idle", or "removing" between Removexattr's two calls
    rmAttr,     \* the name a Removexattr in progress removes
    reply,      \* last answer each thread gave
    own         \* history: value t set on k, as long as nobody changed k since

vars == <<terminated, xattrs, pc, rmAttr, reply, own>>

NoReply == [op |-> "none", attr |-> CHOOSE k \in Attrs : TRUE, dest |-> 0,
            errno |-> "OK", size |-> 0, claim |-> NoClaim]

\* Reply of thread t's operation op on k
Answer(t, op, k, d, e, sz) ==
    reply' = [reply EXCEPT ![t] = [op |-> op, attr |-> k, dest |-> d, errno |-> e,
                                   size |-> sz, claim |-> own[t][k]]]

\* Names present, and the byte length of the NUL-terminated list of them
Present == {k \in Attrs : xattrs[k] # NoValue}
ListLen(S) == MapThenSumSet(LAMBDA k : AttrLen[k] + 1, S)

\* A change of k by thread t: t now knows the value, nobody else does
Claim(t, k, v) ==
    own' = [u \in Threads |-> [own[u] EXCEPT ![k] = IF u = t THEN v ELSE NoClaim]]

-----------------------------------------------------------------------------
TypeOK ==
    /\ terminated \in BOOLEAN
    /\ xattrs \in [Attrs -> Values \cup {NoValue}]
    /\ pc \in [Threads -> {"idle", "removing"}]
    /\ rmAttr \in [Threads -> Attrs]
    /\ reply \in [Threads -> [op: Ops, attr: Attrs, dest: Nat, errno: Errnos,
                              size: Nat, claim: Values \cup {NoClaim}]]
    /\ own \in [Threads -> [Attrs -> Values \cup {NoClaim}]]

Init ==
    /\ terminated = FALSE
    /\ xattrs = [k \in Attrs |-> NoValue]
    /\ pc = [t \in Threads |-> "idle"]
    /\ rmAttr = [t \in Threads |-> CHOOSE k \in Attrs : TRUE]
    /\ reply = [t \in Threads |-> NoReply]
    /\ own = [t \in Threads |-> [k \in Attrs |-> NoClaim]]

\* A thread starts a new operation only when it is not inside one
Ready(t) == ~terminated /\ pc[t] = "idle"

\* (mutant) the size check leaves out the NUL separators
ListxattrNoNul(t, d) ==
    LET need == ListLen(Present) IN
    /\ Ready(t)
    /\ \E ok \in Outcomes :
         IF ~ok THEN Answer(t, "list", CHOOSE k \in Attrs : TRUE, d, "EREMOTEIO", 0)
         ELSE IF d < need - Cardinality(Present)
              THEN Answer(t, "list", CHOOSE k \in Attrs : TRUE, d, "ERANGE", need)
         ELSE Answer(t, "list", CHOOSE k \in Attrs : TRUE, d, "OK", need)
    /\ UNCHANGED <<terminated, xattrs, pc, rmAttr, own>>

\* File.Listxattr: ListXattr, then ERANGE with the needed size if the
\* NUL-terminated names do not fit dest, else the names and their size.
Listxattr(t, d) ==
    LET need == ListLen(Present) IN
    /\ Ready(t)
    /\ \E ok \in Outcomes :
         IF ~ok THEN Answer(t, "list", CHOOSE k \in Attrs : TRUE, d, "EREMOTEIO", 0)
         ELSE IF d < need THEN Answer(t, "list", CHOOSE k \in Attrs : TRUE, d, "ERANGE", need)
         ELSE Answer(t, "list", CHOOSE k \in Attrs : TRUE, d, "OK", need)
    /\ UNCHANGED <<terminated, xattrs, pc, rmAttr, own>>

\* (mutant) the buffer is taken as too small when the value exactly fits
GetxattrOffByOne(t, k, d) ==
    /\ Ready(t)
    /\ IF k \in Unhandled THEN Answer(t, "get", k, d, "ENODATA", 0)
       ELSE \E ok \in Outcomes :
              IF ~ok THEN Answer(t, "get", k, d, "EREMOTEIO", 0)
              ELSE IF xattrs[k] = NoValue THEN Answer(t, "get", k, d, "ENODATA", 0)
              ELSE IF d <= xattrs[k] THEN Answer(t, "get", k, d, "ERANGE", xattrs[k])
              ELSE Answer(t, "get", k, d, "OK", xattrs[k])
    /\ UNCHANGED <<terminated, xattrs, pc, rmAttr, own>>

\* File.Getxattr: ENODATA for an unhandled name before any backend call;
\* GetXattr; ENODATA for no attribute; ERANGE with the size if the value
\* does not fit dest; else the value.
Getxattr(t, k, d) ==
    /\ Ready(t)
    /\ IF k \in Unhandled THEN Answer(t, "get", k, d, "ENODATA", 0)
       ELSE \E ok \in Outcomes :
              IF ~ok THEN Answer(t, "get", k, d, "EREMOTEIO", 0)
              ELSE IF xattrs[k] = NoValue THEN Answer(t, "get", k, d, "ENODATA", 0)
              ELSE IF d < xattrs[k] THEN Answer(t, "get", k, d, "ERANGE", xattrs[k])
              ELSE Answer(t, "get", k, d, "OK", xattrs[k])
    /\ UNCHANGED <<terminated, xattrs, pc, rmAttr, own>>

\* File.Setxattr: EINVAL for an unhandled name, else SetXattr. No check of
\* the mapping's ReadOnly flag.
Setxattr(t, k, v) ==
    /\ Ready(t)
    /\ IF k \in Unhandled
       THEN /\ Answer(t, "set", k, 0, "EINVAL", 0)
            /\ UNCHANGED <<xattrs, own>>
       ELSE \E ok \in Outcomes :
              IF ok THEN /\ xattrs' = [xattrs EXCEPT ![k] = v]
                         /\ Claim(t, k, v)
                         /\ Answer(t, "set", k, 0, "OK", 0)
              ELSE /\ Answer(t, "set", k, 0, "EREMOTEIO", 0)
                   /\ UNCHANGED <<xattrs, own>>
    /\ UNCHANGED <<terminated, pc, rmAttr>>

\* File.Removexattr, first call: GetXattr; ENODATA when there is none.
\* (No IsUnhandledAttr check and no ReadOnly check.)
RemovexattrCheck(t, k) ==
    /\ Ready(t)
    /\ \E ok \in Outcomes :
         IF ~ok THEN /\ Answer(t, "remove", k, 0, "EREMOTEIO", 0)
                     /\ UNCHANGED <<pc, rmAttr>>
         ELSE IF xattrs[k] = NoValue
         THEN /\ Answer(t, "remove", k, 0, "ENODATA", 0)
              /\ UNCHANGED <<pc, rmAttr>>
         ELSE /\ pc' = [pc EXCEPT ![t] = "removing"]
              /\ rmAttr' = [rmAttr EXCEPT ![t] = k]
              /\ UNCHANGED reply
    /\ UNCHANGED <<terminated, xattrs, own>>

\* (mutant) the name is set to an empty value instead of being removed
RemovexattrApplyEmpties(t) ==
    LET k == rmAttr[t] IN
    /\ pc[t] = "removing"
    /\ pc' = [pc EXCEPT ![t] = "idle"]
    /\ \E ok \in IF xattrs[k] = NoValue THEN BOOLEAN ELSE Outcomes :
         IF ok THEN /\ xattrs' = [xattrs EXCEPT ![k] = 0]
                    /\ Claim(t, k, NoClaim)
                    /\ Answer(t, "remove", k, 0, "OK", 0)
         ELSE /\ Answer(t, "remove", k, 0, "EREMOTEIO", 0)
              /\ UNCHANGED <<xattrs, own>>
    /\ UNCHANGED <<terminated, rmAttr>>

\* File.Removexattr, second call: RemoveXattr. If another thread removed
\* the name in between, what the backend answers is not specified: it may
\* succeed or fail, and a failure is returned as EREMOTEIO.
RemovexattrApply(t) ==
    LET k == rmAttr[t] IN
    /\ pc[t] = "removing"
    /\ pc' = [pc EXCEPT ![t] = "idle"]
    /\ \E ok \in IF xattrs[k] = NoValue THEN BOOLEAN ELSE Outcomes :
         IF ok THEN /\ xattrs' = [xattrs EXCEPT ![k] = NoValue]
                    /\ Claim(t, k, NoClaim)
                    /\ Answer(t, "remove", k, 0, "OK", 0)
         ELSE /\ Answer(t, "remove", k, 0, "EREMOTEIO", 0)
              /\ UNCHANGED <<xattrs, own>>
    /\ UNCHANGED <<terminated, rmAttr>>

Terminate ==
    /\ ~terminated
    /\ terminated' = TRUE
    /\ UNCHANGED <<xattrs, pc, rmAttr, reply, own>>

Next ==
    \/ \E t \in Threads :
         \/ \E d \in DestLens : Listxattr(t, d)
         \/ \E k \in Attrs, d \in DestLens : Getxattr(t, k, d)
         \/ \E k \in Attrs, v \in Values : Setxattr(t, k, v)
         \/ \E k \in Attrs : RemovexattrCheck(t, k)
         \/ RemovexattrApply(t)
    \/ Terminate

Spec == Init /\ [][Next]_vars
-----------------------------------------------------------------------------
(* Properties *)

\* A thread that set k to v and then reads k back, with no other thread
\* changing k in between, gets v if its buffer holds v and ERANGE with v's
\* size otherwise (spec.md 6: Setxattr(k,v); Getxattr(k) == v), whatever
\* other threads list, read or remove meanwhile.
OwnSetVisible ==
    \A t \in Threads :
        LET r == reply[t] IN
        (r.op = "get" /\ r.claim # NoClaim /\ r.errno # "EREMOTEIO")
            => IF r.dest >= r.claim THEN r.errno = "OK" /\ r.size = r.claim
               ELSE r.errno = "ERANGE" /\ r.size = r.claim

\* Listxattr's reply is sized by the list the kernel expects: every name
\* present, each followed by one NUL. It answers that size, with ERANGE
\* exactly when the buffer is smaller, so a buffer of exactly that size
\* succeeds and one byte less fails (file.go:228-237). The size is
\* counted here as name bytes plus one NUL per name, apart from ListLen.
ListSizeExact ==
    [][\A t \in Threads :
          (/\ reply'[t] # reply[t] /\ reply'[t].op = "list"
           /\ reply'[t].errno # "EREMOTEIO") =>
             LET size == MapThenSumSet(LAMBDA k : AttrLen[k], Present) + Cardinality(Present)
             IN /\ reply'[t].size = size
                /\ reply'[t].errno = IF reply'[t].dest < size THEN "ERANGE" ELSE "OK"]_vars

\* Removexattr of a name that is absent answers ENODATA, never an I/O error,
\* when the backend does not fail (the GetXattr check answers ENODATA
\* for an absent name, file.go:453; spec.md 8: Removexattr(k); Getxattr(k)
\* == NoData; 7: EIO stands for RemoteUnavailable).
RemoveAbsentIsNoData ==
    \A t \in Threads : reply[t].op = "remove" => reply[t].errno # "EREMOTEIO"

=============================================================================
