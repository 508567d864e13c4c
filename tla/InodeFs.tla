------------------------------- MODULE InodeFs -------------------------------
(***************************************************************************)
(* The i-node file system of inode.c: the i-node table and the blocks of   *)
(* module Inodes, and the two B-trees that lead from the hash of a name,   *)
(* and from an i-node number, to an i-node.                                *)
(*                                                                         *)
(* The code ignores what the trees return.  An i-node that did not get its *)
(* name, or its entry in the tree of numbers, is in lost.  After a name    *)
(* was not removed the state is "ignored", and nothing is said about what  *)
(* follows: the i-node of that name is free, and soon another file's.      *)
(***************************************************************************)
EXTENDS BTree, Inodes

CONSTANTS
    Names,             \* file names, as sequences of character codes
    MAX_FILENAME_LEN,
    HASH_MOD,          \* 2^32 in the code
    INODES,            \* the address of inodes[0]
    Data,              \* what callers write, as sequences of bytes
    MaxRoom            \* bound: nodes that one call may get

ASSUME InodeFsAssumption == Data \subseteq Seq(0 .. 255)

VARIABLES
    fs,                \* the table, the bitmaps, the counters and the blocks
    inode_tree,
    name_tree,
    mem,               \* the nodes of both trees
    state,
    files,             \* history: name |-> contents that were written
    number,            \* history: name |-> i-node that it was created with
    lost               \* history: i-nodes that an ignored failure left without
                       \* a name, and without an entry in inode_tree

vars == <<fs, inode_tree, name_tree, mem, state, files, number, lost>>

\* Hash of a name, as an unsigned word.
hash_string(str) ==
    LET hash[i \in 0 .. Len(str)] ==
            IF i = 0 THEN 5381 % HASH_MOD ELSE (hash[i - 1] * 33 + str[i]) % HASH_MOD
    IN  hash[Len(str)]

\* The address of an i-node of the table, and the number stored there.
InodeAt(n) == INODES + n
NumOf(address) == address - INODES

\* The histories with a name more, and without one.
With(f, name, value) == [m \in DOMAIN f \cup {name} |-> IF m = name THEN value ELSE f[m]]
Without(f, name) == [m \in DOMAIN f \ {name} |-> f[m]]

\* inode_fs_init; without memory for the blocks it panics.
Init ==
    /\ fs = InitialFs
    /\ inode_tree = EmptyTree
    /\ name_tree = EmptyTree
    /\ mem = NoNodes
    /\ state = "running"
    /\ files = [n \in {} |-> <<>>]
    /\ number = [n \in {} |-> 0]
    /\ lost = [unnamed |-> {}, unindexed |-> {}]

\* btree_fs_open: the i-node number, or -1.
btree_fs_open(name) ==
    LET inode == btree_search(mem, name_tree.root, hash_string(name))
    IN  IF inode = NULL THEN -1 ELSE NumOf(inode)

\* inode_get finds an i-node.
inode_get(n) == btree_search(mem, inode_tree.root, n) # NULL

\* btree_fs_read: the bytes it puts into the buffer.
btree_fs_read(name, size) ==
    LET n == btree_fs_open(name)
    IN  IF n = -1 \/ ~inode_get(n) THEN <<>> ELSE inode_read(fs, n, 0, size)

\* The nodes that a call still gets after it got those in m.
RoomLeft(room, m) == room - Cardinality(DOMAIN m \ DOMAIN mem)

\* btree_fs_create with inode_alloc: n is the first free i-node, o1 and o2 are
\* what the two insertions leave behind.
create_refused(name) ==
    \/ Len(name) >= MAX_FILENAME_LEN
    \/ btree_fs_open(name) # -1
    \/ FreeInodeNums(fs) = {}

btree_fs_create(name, room) ==
    /\ state = "running"
    /\ ~create_refused(name)
    /\ \E n \in {Least(FreeInodeNums(fs))} :
       \E o1 \in {btree_insert(mem, inode_tree, n, InodeAt(n), room)} :
       \E o2 \in {btree_insert(o1.mem, name_tree, hash_string(name), InodeAt(n),
                               RoomLeft(room, o1.mem))} :
           LET found == btree_search(o1.mem, o1.tree.root, n) # NULL
           IN  /\ fs' = TakeInode(fs, n)
               /\ inode_tree' = o1.tree
               /\ name_tree' = o2.tree
               /\ mem' = o2.mem
               /\ state' = IF o1.state # "running" THEN o1.state ELSE o2.state
               /\ files' = IF o2.ret = 0 THEN With(files, name, <<>>) ELSE files
               /\ number' = IF o2.ret = 0 THEN With(number, name, n) ELSE number
               /\ lost' = [unnamed |-> lost.unnamed \cup (IF o2.ret = 0 THEN {} ELSE {n}),
                           unindexed |-> lost.unindexed \cup (IF found THEN {} ELSE {n})]

\* btree_fs_write, with offset 0, and inode_write through an opened file at
\* an offset that leaves no hole, as the callers do.
write(name, data, offset) ==
    /\ state = "running"
    /\ LET n == btree_fs_open(name)
           r == inode_write(fs, n, data, offset)
       IN  /\ n # -1 /\ inode_get(n)
           /\ offset = 0 \/ offset = fs.inodes[n].size
           /\ fs' = r.fs
           /\ files' = [files EXCEPT ![name] = Overwrite(@, data, offset, r.ret)]
    /\ UNCHANGED <<inode_tree, name_tree, mem, state, number, lost>>

\* inode_truncate through an opened file.
truncate(name, new_size) ==
    /\ state = "running"
    /\ LET n == btree_fs_open(name)
       IN  /\ n # -1 /\ inode_get(n)
           /\ fs' = inode_truncate(fs, n, new_size)
           /\ files' = [files EXCEPT ![name] =
                           IF new_size < Len(@) THEN SubSeq(@, 1, new_size) ELSE @]
    /\ UNCHANGED <<inode_tree, name_tree, mem, state, number, lost>>

\* btree_fs_delete with inode_free: the name goes first, then the i-node.
btree_fs_delete(name) ==
    /\ state = "running"
    /\ btree_fs_open(name) # -1
    /\ LET n == btree_fs_open(name)
           o1 == btree_delete(mem, name_tree, hash_string(name))
           o2 == btree_delete(o1.mem, inode_tree, n)
       IN  /\ name_tree' = o1.tree
           /\ IF fs.inodes[n].in_use
              THEN inode_tree' = o2.tree /\ mem' = o2.mem
              ELSE inode_tree' = inode_tree /\ mem' = o1.mem
           /\ fs' = DropInode(fs, n)
           /\ state' = IF o1.ret # 0 THEN "ignored" ELSE "running"
           /\ lost' = [unnamed |-> lost.unnamed, unindexed |-> lost.unindexed \ {n}]
    /\ files' = Without(files, name)
    /\ number' = Without(number, name)

\* The calls that return -1: btree_fs_create for a name that it refuses,
\* btree_fs_write and btree_fs_delete for a name that is not found.
refused(name) ==
    /\ state = "running"
    /\ create_refused(name) \/ btree_fs_open(name) = -1
    /\ UNCHANGED vars

Over == state # "running" /\ UNCHANGED vars

Next ==
    \/ \E name \in Names :
        \/ \E room \in 0 .. MaxRoom : btree_fs_create(name, room)
        \/ \E data \in Data, offset \in 0 .. (DIRECT_BLOCKS * FS_BLOCK_SIZE) :
            write(name, data, offset)
        \/ \E new_size \in 0 .. (DIRECT_BLOCKS * FS_BLOCK_SIZE) : truncate(name, new_size)
        \/ btree_fs_delete(name)
        \/ refused(name)
    \/ Over

Spec == Init /\ [][Next]_vars

-----------------------------------------------------------------------------
\* The trees give back what was put into them: a name leads to the i-node it
\* was created with, from its creation to its deletion, and no other name is
\* found; that i-node is found by number unless its insertion had failed.
TreesRight ==
    state = "running" =>
        /\ \A name \in Names :
            btree_fs_open(name) = IF name \in DOMAIN number THEN number[name] ELSE -1
        /\ \A name \in DOMAIN number :
            inode_get(number[name]) <=> number[name] \notin lost.unindexed

\* As long as every name could be removed: a file that got its name and was
\* not deleted is opened under it, and no other name is; its i-node is its
\* own, and btree_fs_read returns what inode_write and inode_truncate left there,
\* whichever numbers, blocks and tree nodes other files had before.  Its i-node
\* is found by number unless the insertion for that very file had failed: the
\* failures that btree_fs_create ignores harm no other file.  An i-node in use
\* has a name, except those whose name could not be inserted, which are lost
\* for ever.
FilesRead ==
    state = "running" =>
        /\ TreesRight
        /\ \A name \in Names : name \in DOMAIN files <=> btree_fs_open(name) # -1
        /\ \A name \in DOMAIN files :
            LET n == btree_fs_open(name)
            IN  /\ n \in InUse(fs)
                /\ \A other \in DOMAIN files \ {name} : btree_fs_open(other) # n
                /\ btree_fs_read(name, DIRECT_BLOCKS * FS_BLOCK_SIZE + 1) = files[name]
        /\ InUse(fs) = lost.unnamed \cup {btree_fs_open(name) : name \in DOMAIN files}

\* A block is marked in the bitmap exactly if one slot of one i-node in use
\* holds it, an i-node is marked exactly if it is in use, and the counters
\* agree with the bitmaps: no block is lost when files are deleted, cut, or
\* not written for lack of blocks.  A file holds just the blocks that its size
\* takes, in its first slots.
BlocksOwned ==
    state = "running" =>
        /\ BlocksMarked(fs)
        /\ Counted(fs)
        /\ \A n \in InUse(fs) : NoHoles(fs.inodes[n])

=============================================================================
