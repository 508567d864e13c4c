----------------------------- MODULE FileSystem -----------------------------
(***************************************************************************)
(* The RAM file system of kernel.c: a table of files whose contents are    *)
(* kmalloc buffers.                                                        *)
(*                                                                         *)
(* The heap is the abstract one of HeapAbs, which module Heap implements,  *)
(* together with its bytes: kmalloc may fail, a new buffer has whatever    *)
(* bytes lie there, and a store to heap[] is a change of mem.              *)
(***************************************************************************)
EXTENDS Integers, Sequences, FiniteSets

CONSTANTS
    MAX_FILES, MAX_FILESIZE,
    HEAP_SIZE,     \* bytes of the heap
    Names,         \* file names
    Sizes,         \* sizes that callers pass to fs_create
    Bytes          \* values of a byte

ASSUME FileSystemAssumption ==
    /\ MAX_FILES \in Nat \ {0} /\ MAX_FILESIZE \in Nat /\ HEAP_SIZE \in Nat
    /\ Sizes \subseteq Nat /\ Bytes # {}

Slots == 0 .. (MAX_FILES - 1)
NULL == -1
NoName == "none"    \* the name of a slot that was never used

ASSUME NamesAssumption == NoName \notin Names

VARIABLES
    files,        \* slot |-> struct file
    file_count,
    live,         \* the heap: payload address |-> bytes asked for
    mem           \* the bytes of the heap

fs == <<files, file_count>>
vars == <<files, file_count, live, mem>>

H == INSTANCE HeapAbs WITH Requests <- Sizes

Init ==
    /\ files = [i \in Slots |-> [name |-> NoName, data |-> NULL, size |-> 0, is_used |-> FALSE]]
    /\ file_count = 0
    /\ H!Init
    /\ mem \in [0 .. (HEAP_SIZE - 1) -> Bytes]

Used == {i \in Slots : files[i].is_used}

fs_exists(name) == \E i \in Used : files[i].name = name

\* The first slot that satisfies a test, as the loops of the code find it.
First(S) == CHOOSE i \in S : \A j \in S : i <= j
Lookup(name) == First({i \in Used : files[i].name = name})

\* Mutant: the name is not looked up.
RefusedBlindly(name, size) == size > MAX_FILESIZE \/ Used = Slots

\* fs_create.  A slot whose buffer could not be allocated keeps the new name
\* but stays unused; kmalloc(0) always fails.
Refused(name, size) ==
    size > MAX_FILESIZE \/ fs_exists(name) \/ Used = Slots

create_fails(name, size) ==
    /\ ~Refused(name, size)
    /\ files' = [files EXCEPT ![First(Slots \ Used)].name = name,
                              ![First(Slots \ Used)].data = NULL]
    /\ UNCHANGED <<file_count, live, mem>>

create_succeeds(name, size) ==
    /\ ~Refused(name, size)
    /\ \E p \in 0 .. HEAP_SIZE :
         /\ H!Alloc(size, p)
         /\ files' = [files EXCEPT ![First(Slots \ Used)] =
                        [name |-> name, data |-> p, size |-> size, is_used |-> TRUE]]
    /\ file_count' = file_count + 1
    /\ UNCHANGED mem

fs_create(name, size) ==
    \/ Refused(name, size) /\ UNCHANGED vars
    \/ create_fails(name, size)
    \/ create_succeeds(name, size)

\* mem after the bytes of the sequence s are stored at p.
Stored(p, s) ==
    [a \in DOMAIN mem |-> IF a \in p .. (p + Len(s) - 1) THEN s[a - p + 1] ELSE mem[a]]

\* Mutant: the length of the data is not compared with the size of the file.
WriteUnchecked(name, s) ==
    /\ fs_exists(name)
    /\ mem' = Stored(files[Lookup(name)].data, s)
    /\ UNCHANGED <<files, file_count, live>>

fs_write(name, s) ==
    IF fs_exists(name) /\ Len(s) <= files[Lookup(name)].size
    THEN /\ mem' = Stored(files[Lookup(name)].data, s)
         /\ UNCHANGED <<files, file_count, live>>
    ELSE UNCHANGED vars

\* The bytes that fs_read delivers into a buffer of n bytes.
fs_read(name, n) ==
    LET f == files[Lookup(name)]
    IN  IF fs_exists(name)
        THEN [j \in 1 .. (IF n < f.size THEN n ELSE f.size) |-> mem[f.data + j - 1]]
        ELSE <<>>

\* Mutant: the buffer is not given back.
DeleteKeepsBuffer(name) ==
    /\ fs_exists(name)
    /\ files' = [files EXCEPT ![Lookup(name)].is_used = FALSE,
                              ![Lookup(name)].data = NULL,
                              ![Lookup(name)].size = 0]
    /\ file_count' = file_count - 1
    /\ UNCHANGED <<live, mem>>

fs_delete(name) ==
    IF fs_exists(name)
    THEN /\ H!Free(files[Lookup(name)].data)
         /\ files' = [files EXCEPT ![Lookup(name)].is_used = FALSE,
                                   ![Lookup(name)].data = NULL,
                                   ![Lookup(name)].size = 0]
         /\ file_count' = file_count - 1
         /\ UNCHANGED mem
    ELSE UNCHANGED vars

\* What callers write.
Data == UNION {[1 .. n -> Bytes] : n \in Sizes}

Next == \E name \in Names :
    \/ \E size \in Sizes : fs_create(name, size)
    \/ \E s \in Data : fs_write(name, s)
    \/ fs_delete(name)

Spec == Init /\ [][Next]_vars

-----------------------------------------------------------------------------

\* Every field has its type; a file in use has a buffer.
TypeOK ==
    /\ files \in [Slots -> [name : Names \cup {NoName}, data : 0 .. HEAP_SIZE \cup {NULL},
                            size : 0 .. MAX_FILESIZE, is_used : BOOLEAN]]
    /\ \A i \in Used : files[i].data # NULL /\ files[i].name # NoName
    /\ file_count \in 0 .. MAX_FILES
    /\ mem \in [0 .. (HEAP_SIZE - 1) -> Bytes]

\* No two files have the same name, although names stay behind in slots that
\* are deleted or whose creation failed half-way.
NamesUnique ==
    \A i, j \in Used : files[i].name = files[j].name => i = j

\* Each file owns one heap buffer of its size, and the heap holds nothing else:
\* no creation or deletion, successful or not, leaks a buffer or leaves a file
\* with one that is shared or gone.  file_count, which fs_list prints, is the
\* number of files.
BuffersOwned ==
    /\ TypeOK
    /\ \A i, j \in Used : files[i].data = files[j].data => i = j
    /\ DOMAIN live = {files[i].data : i \in Used}
    /\ \A i \in Used : live[files[i].data] = files[i].size
    /\ file_count = Cardinality(Used)

\* The contents of file i.
Contents(i) == [j \in 1 .. files[i].size |-> mem[files[i].data + j - 1]]

\* The file system implements the map from names to contents; fs_read of a
\* whole file is the lookup in that map.
FilesByName == [n \in {files[i].name : i \in Used} |-> fs_read(n, MAX_FILESIZE)]
Abs == INSTANCE FsAbs WITH store <- FilesByName
AbsSpec == Abs!Spec

=============================================================================
