-------------------------------- MODULE Inodes --------------------------------
(***************************************************************************)
(* The i-node table and the block store of inode.c, without the two trees  *)
(* that index it: an operator for each function, on the record fs that     *)
(* struct btree_filesystem is.  A bitmap is the set of its set bits.       *)
(* permissions, link_count, the times and the indirect blocks are written  *)
(* or left alone and never read; type is stored and only printed.          *)
(***************************************************************************)
EXTENDS Integers, Sequences, FiniteSets

CONSTANTS
    MAX_INODE_COUNT,
    DIRECT_BLOCKS,     \* slots for blocks in an i-node
    FS_BLOCK_SIZE,
    MAX_BLOCKS,        \* blocks, of which block 0 stands for "no block"
    Junk               \* what heap memory holds before it is written

ASSUME InodesAssumption ==
    {MAX_INODE_COUNT, DIRECT_BLOCKS, FS_BLOCK_SIZE, MAX_BLOCKS} \subseteq Nat \ {0}

InodeNums == 0 .. (MAX_INODE_COUNT - 1)
Blocks == 0 .. (MAX_BLOCKS - 1)
Slots == 0 .. (DIRECT_BLOCKS - 1)
BlockOffsets == 0 .. (FS_BLOCK_SIZE - 1)

\* An i-node as inode_alloc initialises it.
FreshInode == [size |-> 0, block_count |-> 0, direct_blocks |-> [s \in Slots |-> 0],
               in_use |-> TRUE]

\* A free i-node: inode_fs_init and inode_free clear in_use and leave the other
\* fields as they are; nothing reads them before inode_alloc sets them.
StaleInode == [size |-> Junk, block_count |-> DIRECT_BLOCKS, direct_blocks |-> [s \in Slots |-> 1],
               in_use |-> FALSE]

\* The contents of a free block, which block_alloc clears before any use.
NoBytes == [o \in BlockOffsets |-> Junk]

\* The part of inode_fs_init that is not about the trees.
InitialFs ==
    [inodes |-> [n \in InodeNums |-> StaleInode],
     inode_bitmap |-> {},
     block_bitmap |-> {},
     free_inodes |-> MAX_INODE_COUNT,
     free_blocks |-> MAX_BLOCKS,
     block_storage |-> [b \in Blocks |-> NoBytes]]

\* bitmap_find_free, over the bits that are left.
Least(S) == CHOOSE x \in S : \A y \in S : x <= y

FreeInodeNums(fs) == InodeNums \ fs.inode_bitmap
FreeBlocks(fs) == (Blocks \ {0}) \ fs.block_bitmap

\* inode_alloc takes the i-node n, up to its insertion into the tree.
TakeInode(fs, n) ==
    [fs EXCEPT !.inode_bitmap = @ \cup {n},
               !.inodes[n] = FreshInode,
               !.free_inodes = @ - 1]

\* block_alloc, when there is a free block b: the block is cleared.
TakeBlock(fs, b) ==
    [fs EXCEPT !.block_bitmap = @ \cup {b},
               !.free_blocks = @ - 1,
               !.block_storage[b] = [o \in BlockOffsets |-> 0]]

\* block_free for each of the blocks in the set S of slots of n that hold one.
HeldBlocks(fs, n, S) == {fs.inodes[n].direct_blocks[s] : s \in S} \ {0}
block_free(fs, n, S) ==
    [fs EXCEPT !.block_bitmap = @ \ HeldBlocks(fs, n, S),
               !.free_blocks = @ + Cardinality({s \in S : fs.inodes[n].direct_blocks[s] # 0}),
               !.block_storage = [b \in Blocks |-> IF b \in HeldBlocks(fs, n, S) THEN NoBytes
                                                   ELSE fs.block_storage[b]]]

\* Mutant: the last block of the file is not freed.
DropInodeLast(fs, n) ==
    LET used == {s \in Slots : s + 1 < fs.inodes[n].block_count}
    IN  IF ~fs.inodes[n].in_use THEN fs
        ELSE [block_free(fs, n, used) EXCEPT !.inode_bitmap = @ \ {n},
                                             !.inodes[n] = StaleInode,
                                             !.free_inodes = @ + 1]

\* inode_free, without the removal from the tree.
DropInode(fs, n) ==
    LET used == {s \in Slots : s < fs.inodes[n].block_count}
    IN  IF ~fs.inodes[n].in_use THEN fs
        ELSE [block_free(fs, n, used) EXCEPT !.inode_bitmap = @ \ {n},
                                             !.inodes[n] = StaleInode,
                                             !.free_inodes = @ + 1]

-----------------------------------------------------------------------------
\* The bytes that one round of the loops of inode_read and inode_write moves,
\* with done bytes moved before and the position pos = offset + done.
Chunk(pos, left) ==
    LET rest == FS_BLOCK_SIZE - (pos % FS_BLOCK_SIZE)
    IN  IF rest > left THEN left ELSE rest

\* One round of the loop of inode_read, with buf in the buffer so far; reading
\* stops at the first slot without a block.
ReadStep(fs, n, offset, want, buf) ==
    LET pos == offset + Len(buf)
        idx == pos \div FS_BLOCK_SIZE
        at == pos % FS_BLOCK_SIZE
        b == fs.inodes[n].direct_blocks[idx]
    IN  IF Len(buf) >= want \/ idx >= DIRECT_BLOCKS \/ b = 0
        THEN buf
        ELSE buf \o [i \in 1 .. Chunk(pos, want - Len(buf)) |-> fs.block_storage[b][at + i - 1]]

\* The bytes that inode_read is to read.
Wanted(fs, n, offset, size) ==
    LET end == fs.inodes[n].size
    IN  IF offset >= end THEN 0 ELSE IF offset + size > end THEN end - offset ELSE size

\* inode_read: the bytes it puts into the buffer, in as many rounds as there
\* are slots at most; each moves on to the next slot.
ReadRounds(fs, n, offset, want) ==
    LET R[r \in 0 .. DIRECT_BLOCKS] ==
            IF r = 0 THEN <<>> ELSE ReadStep(fs, n, offset, want, R[r - 1])
    IN  R

inode_read(fs, n, offset, size) ==
    ReadRounds(fs, n, offset, Wanted(fs, n, offset, size))[DIRECT_BLOCKS]

\* The block b becomes the block of the slot idx of n.
AddBlock(fs, n, idx, b) ==
    LET ino == fs.inodes[n]
    IN  [TakeBlock(fs, b) EXCEPT
            !.inodes[n] = [ino EXCEPT !.direct_blocks[idx] = b,
                                      !.block_count = ino.block_count + 1]]

\* len bytes of data, after the first done, go to the offset at of the block b.
PutBytes(fs, b, at, len, data, done) ==
    [fs EXCEPT !.block_storage[b] =
        [o \in BlockOffsets |-> IF o \in at .. (at + len - 1) THEN data[done + o - at + 1]
                                ELSE fs.block_storage[b][o]]]

\* One round of the loop of inode_write; s.done bytes are written already.
WriteStep(n, data, offset, s) ==
    LET pos == offset + s.done
        idx == pos \div FS_BLOCK_SIZE
        at == pos % FS_BLOCK_SIZE
        len == Chunk(pos, Len(data) - s.done)
        missing == s.fs.inodes[n].direct_blocks[idx] = 0
        fs1 == IF missing THEN AddBlock(s.fs, n, idx, Least(FreeBlocks(s.fs))) ELSE s.fs
        b == fs1.inodes[n].direct_blocks[idx]
    IN  IF \/ s.done >= Len(data)
           \/ idx >= DIRECT_BLOCKS
           \/ missing /\ FreeBlocks(s.fs) = {}
        THEN s
        ELSE [fs |-> PutBytes(fs1, b, at, len, data, s.done), done |-> s.done + len]

\* inode_write, in as many rounds as there are slots at most.  The size grows
\* to the end of what was written.
WriteRounds(fs, n, data, offset) ==
    LET W[r \in 0 .. DIRECT_BLOCKS] ==
            IF r = 0 THEN [fs |-> fs, done |-> 0] ELSE WriteStep(n, data, offset, W[r - 1])
    IN  W

inode_write(fs, n, data, offset) ==
    LET s == WriteRounds(fs, n, data, offset)[DIRECT_BLOCKS]
        end == offset + s.done
    IN  [fs |-> IF end > s.fs.inodes[n].size
                THEN [s.fs EXCEPT !.inodes[n].size = end] ELSE s.fs,
         ret |-> s.done]

\* The slots beyond new_size.
BlocksFor(size) == (size + FS_BLOCK_SIZE - 1) \div FS_BLOCK_SIZE
Beyond(ino, new_size) == {s \in Slots : BlocksFor(new_size) <= s /\ s < ino.block_count}

\* Mutant: the slots keep the numbers of the blocks that were freed.
inode_truncate_kept(fs, n, new_size) ==
    IF new_size >= fs.inodes[n].size THEN fs
    ELSE [block_free(fs, n, Beyond(fs.inodes[n], new_size)) EXCEPT
             !.inodes[n] = [fs.inodes[n] EXCEPT !.size = new_size,
                                                !.block_count = BlocksFor(new_size)]]

\* inode_truncate.
inode_truncate(fs, n, new_size) ==
    LET ino == fs.inodes[n]
        cut == [s \in Slots |-> IF s \in Beyond(ino, new_size) THEN 0 ELSE ino.direct_blocks[s]]
    IN  IF new_size >= ino.size THEN fs
        ELSE [block_free(fs, n, Beyond(ino, new_size)) EXCEPT
                 !.inodes[n] = [ino EXCEPT !.size = new_size,
                                           !.block_count = BlocksFor(new_size),
                                           !.direct_blocks = cut]]

-----------------------------------------------------------------------------
\* The i-nodes in use.
InUse(fs) == {n \in InodeNums : fs.inodes[n].in_use}

\* The blocks that the bitmap marks are those that i-nodes in use hold, and no
\* two slots hold the same one.
BlocksMarked(fs) ==
    /\ fs.block_bitmap = UNION {HeldBlocks(fs, n, Slots) : n \in InUse(fs)}
    /\ \A n, m \in InUse(fs), s, t \in Slots :
        /\ fs.inodes[n].direct_blocks[s] # 0
        /\ fs.inodes[n].direct_blocks[s] = fs.inodes[m].direct_blocks[t]
        => n = m /\ s = t

\* The bitmap of the i-nodes and the two counters.
Counted(fs) ==
    /\ fs.free_blocks = MAX_BLOCKS - Cardinality(fs.block_bitmap)
    /\ fs.inode_bitmap = InUse(fs)
    /\ fs.free_inodes = MAX_INODE_COUNT - Cardinality(InUse(fs))

\* The first block_count slots of an i-node hold blocks, the others none, and
\* they are as many as its size takes.
NoHoles(ino) ==
    /\ ino.block_count = BlocksFor(ino.size)
    /\ \A s \in Slots : ino.direct_blocks[s] # 0 <=> s < ino.block_count

\* The file with w bytes of data written at offset.
Overwrite(file, data, offset, w) ==
    LET len == IF offset + w > Len(file) THEN offset + w ELSE Len(file)
    IN  [i \in 1 .. len |-> IF i \in (offset + 1) .. (offset + w) THEN data[i - offset] ELSE file[i]]

=============================================================================
