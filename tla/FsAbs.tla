------------------------------- MODULE FsAbs -------------------------------
(***************************************************************************)
(* What the RAM file system promises: a map from names to byte strings of  *)
(* fixed length.  An operation on one file changes no other file.          *)
(***************************************************************************)
EXTENDS Integers, Sequences

CONSTANTS
    Names, Bytes,
    MAX_FILES,      \* the number of files
    MAX_FILESIZE    \* the length of a file

VARIABLE store      \* name |-> contents, for the files that exist

Contents == UNION {[1 .. n -> Bytes] : n \in 1 .. MAX_FILESIZE}

Init == store = [n \in {} |-> <<>>]

\* The contents of a new file are not defined.
Create(n, c) ==
    /\ n \notin DOMAIN store
    /\ store' = [m \in DOMAIN store \cup {n} |-> IF m = n THEN c ELSE store[m]]

\* A write replaces the first bytes of the file and never extends it.
Write(n, c) ==
    /\ n \in DOMAIN store
    /\ Len(c) = Len(store[n])
    /\ store' = [store EXCEPT ![n] = c]

Delete(n) ==
    /\ n \in DOMAIN store
    /\ store' = [m \in DOMAIN store \ {n} |-> store[m]]

Next == \E n \in Names :
    \/ \E c \in Contents : Create(n, c) \/ Write(n, c)
    \/ Delete(n)

Spec == Init /\ [][Next]_store

=============================================================================
