---------------------------- MODULE InodesProofs ----------------------------
(***************************************************************************)
(* The i-node table, for every size of the table, of a file and of a       *)
(* block.  The file of an i-node is the sequence Contents of its bytes;    *)
(* TableInv says that no two slots hold one block, that the bitmaps and    *)
(* the counters agree with the table, and that an i-node holds a block for *)
(* every byte of its file.                                                 *)
(*                                                                         *)
(* The loops of inode_write and inode_read are recursive functions of the  *)
(* number of rounds.  WriteInv and ReadInv are their loop invariants:      *)
(* InodeWriteIs and WriteContents say what inode_write leaves in the       *)
(* files, ReadsContents says that inode_read returns Contents.             *)
(***************************************************************************)
EXTENDS Inodes, TLAPS

(***************************************************************************)
(* What the library proves of sets by induction: the least number of a     *)
(* set, and the cardinalities of finite sets.  The lemmas below take it as *)
(* a hypothesis, and LibraryFacts of InodeFsProofs discharges it, so that  *)
(* the library's theorems stay out of the context of these proofs.         *)
(***************************************************************************)
SetFacts ==
    /\ \A S \in SUBSET Nat : S # {} => \E x \in S : \A y \in S : x <= y
    /\ \A a, b \in Int : IsFiniteSet(a .. b)
    /\ \A S : IsFiniteSet(S) => Cardinality(S) \in Nat
    /\ \A S, T : IsFiniteSet(S) /\ T \subseteq S => IsFiniteSet(T)
    /\ Cardinality({}) = 0
    /\ \A S, x : IsFiniteSet(S) /\ x \notin S => Cardinality(S \cup {x}) = Cardinality(S) + 1
    /\ \A S, T : IsFiniteSet(S) /\ T \subseteq S =>
                    Cardinality(S \ T) = Cardinality(S) - Cardinality(T)
    /\ \A S, T, f : IsFiniteSet(S) /\ T = {f[x] : x \in S}
                       /\ (\A x, y \in S : f[x] = f[y] => x = y) =>
                    Cardinality(T) = Cardinality(S)

LEMMA LeastNat ==
    ASSUME SetFacts, NEW T, T \subseteq Nat, T # {}
    PROVE  \E x \in T : \A y \in T : x <= y
  BY Zenon DEF SetFacts

LEMMA FiniteInterval ==
    ASSUME SetFacts, NEW a \in Int, NEW b \in Int
    PROVE  IsFiniteSet(a .. b)
  BY Zenon DEF SetFacts

LEMMA FiniteSubset ==
    ASSUME SetFacts, NEW S, IsFiniteSet(S), NEW T \in SUBSET S
    PROVE  IsFiniteSet(T) /\ Cardinality(T) \in Nat
  BY Zenon DEF SetFacts

LEMMA CardinalityMore ==
    ASSUME SetFacts, NEW S, NEW x, IsFiniteSet(S), x \notin S
    PROVE  Cardinality(S \cup {x}) = Cardinality(S) + 1
  BY Zenon DEF SetFacts

LEMMA CardinalityLess ==
    ASSUME SetFacts, NEW S, NEW T, IsFiniteSet(S), T \subseteq S
    PROVE  /\ Cardinality(S \ T) = Cardinality(S) - Cardinality(T)
           /\ Cardinality(S \ T) \in Nat
  <1>1. IsFiniteSet(S \ T)
    BY Zenon DEF SetFacts
  <1> QED
    BY <1>1, Zenon DEF SetFacts

LEMMA CardinalityImage ==
    ASSUME SetFacts, NEW S, NEW f, NEW T, IsFiniteSet(S), T = {f[x] : x \in S},
           \A x, y \in S : f[x] = f[y] => x = y
    PROVE  Cardinality(T) = Cardinality(S)
  BY Zenon DEF SetFacts

\* Induction up to n: a set that has 0 and with each number the next.
LEMMA UpTo ==
    ASSUME SetFacts, NEW n \in Nat, NEW G, 0 \in G, \A k \in 1 .. n : k - 1 \in G => k \in G
    PROVE  \A k \in 0 .. n : k \in G
  <1> DEFINE Bad == {k \in 0 .. n : k \notin G}
  <1> SUFFICES ASSUME Bad # {} PROVE FALSE
    OBVIOUS
  <1>1. Bad \subseteq Nat
    OBVIOUS
  <1> HIDE DEF Bad
  <1>2. PICK m \in Bad : \A j \in Bad : m <= j
    BY <1>1, LeastNat, Zenon
  <1>3. m \in 0 .. n /\ m \notin G
    BY DEF Bad
  <1>4. m \in 1 .. n
    BY <1>3
  <1>5. m - 1 \in 0 .. n /\ ~(m <= m - 1)
    BY <1>4
  <1>6. m - 1 \in G
    BY <1>2, <1>5 DEF Bad
  <1> QED
    BY <1>3, <1>4, <1>6

\* What bitmap_find_free finds.
LEMMA LeastIs ==
    ASSUME SetFacts, NEW T, T \subseteq Nat, T # {}
    PROVE  Least(T) \in T
  <1>1. \E x \in T : \A y \in T : x <= y
    BY LeastNat, Zenon
  <1> QED
    BY <1>1, Zenon DEF Least

-----------------------------------------------------------------------------
(***************************************************************************)
(* Blocks and offsets: division by the size of a block.                    *)
(***************************************************************************)

\* The first byte of the block k of a file.
Start(k) == FS_BLOCK_SIZE * k

LEMMA Sizes ==
    /\ MAX_INODE_COUNT \in Nat \ {0} /\ DIRECT_BLOCKS \in Nat \ {0}
    /\ FS_BLOCK_SIZE \in Nat \ {0} /\ MAX_BLOCKS \in Nat \ {0}
  BY InodesAssumption

LEMMA StartNat ==
    ASSUME NEW k \in Nat
    PROVE  Start(k) \in Nat
  BY Sizes DEF Start

LEMMA StartZero == Start(0) = 0
  BY Sizes DEF Start

LEMMA StartNext ==
    ASSUME NEW k \in Nat
    PROVE  Start(k + 1) = Start(k) + FS_BLOCK_SIZE
  BY Sizes DEF Start

LEMMA StartMono ==
    ASSUME NEW j \in Nat, NEW k \in Nat, j < k
    PROVE  Start(j) + FS_BLOCK_SIZE <= Start(k)
  <1>1. FS_BLOCK_SIZE * (k - j) >= FS_BLOCK_SIZE
    <2>1. k - j >= 1
      OBVIOUS
    <2> QED
      BY <2>1, Sizes
  <1>2. FS_BLOCK_SIZE * k = FS_BLOCK_SIZE * j + FS_BLOCK_SIZE * (k - j)
    BY Sizes
  <1> QED
    BY <1>1, <1>2, Sizes DEF Start

LEMMA DivMod ==
    ASSUME NEW a \in Nat
    PROVE  /\ a \div FS_BLOCK_SIZE \in Nat
           /\ a % FS_BLOCK_SIZE \in BlockOffsets
           /\ a = Start(a \div FS_BLOCK_SIZE) + (a % FS_BLOCK_SIZE)
  BY Sizes DEF Start, BlockOffsets

LEMMA DivModUnique ==
    ASSUME NEW a \in Nat, NEW k \in Nat, NEW o \in BlockOffsets, a = Start(k) + o
    PROVE  a \div FS_BLOCK_SIZE = k /\ a % FS_BLOCK_SIZE = o
  <1> DEFINE q == a \div FS_BLOCK_SIZE
             m == a % FS_BLOCK_SIZE
  <1>1. q \in Nat /\ m \in BlockOffsets /\ a = Start(q) + m
    BY DivMod, Zenon
  <1> HIDE DEF q, m
  <1>2. /\ o \in Nat /\ o < FS_BLOCK_SIZE /\ m \in Nat /\ m < FS_BLOCK_SIZE
        /\ FS_BLOCK_SIZE \in Nat /\ Start(q) \in Nat /\ Start(k) \in Nat
    BY <1>1, Sizes, StartNat DEF BlockOffsets
  <1>3. ~(q < k)
    <2>1. q < k => Start(q) + FS_BLOCK_SIZE <= Start(k)
      BY <1>1, StartMono
    <2> QED
      BY <1>1, <1>2, <2>1
  <1>4. ~(k < q)
    <2>1. k < q => Start(k) + FS_BLOCK_SIZE <= Start(q)
      BY <1>1, StartMono
    <2> QED
      BY <1>1, <1>2, <2>1
  <1>5. q = k
    BY <1>1, <1>3, <1>4
  <1>6. m = o
    BY <1>1, <1>2, <1>5
  <1> QED
    BY <1>5, <1>6 DEF q, m

\* k blocks are as many as e bytes take.
Covers(k, e) == e <= Start(k) /\ (k > 0 => Start(k - 1) < e)

LEMMA BlocksForCovers ==
    ASSUME NEW e \in Nat
    PROVE  BlocksFor(e) \in Nat /\ Covers(BlocksFor(e), e)
  <1> DEFINE a == e + FS_BLOCK_SIZE - 1
             k == a \div FS_BLOCK_SIZE
             m == a % FS_BLOCK_SIZE
  <1>1. a \in Nat /\ a = e + FS_BLOCK_SIZE - 1
    BY Sizes
  <1> HIDE DEF a
  <1>2. k \in Nat /\ m \in BlockOffsets /\ a = Start(k) + m
    BY <1>1, DivMod, Zenon
  <1>3. k = BlocksFor(e)
    BY DEF a, BlocksFor
  <1> HIDE DEF k, m
  <1>4. m \in Nat /\ m < FS_BLOCK_SIZE /\ FS_BLOCK_SIZE \in Nat /\ Start(k) \in Nat
    BY <1>2, Sizes, StartNat DEF BlockOffsets
  <1>5. e <= Start(k)
    BY <1>1, <1>2, <1>4
  <1>6. ASSUME k > 0 PROVE Start(k - 1) < e
    <2>1. k - 1 \in Nat /\ (k - 1) + 1 = k
      BY <1>2, <1>6
    <2>2. Start(k) = Start(k - 1) + FS_BLOCK_SIZE /\ Start(k - 1) \in Nat
      BY <2>1, StartNext, StartNat
    <2> QED
      BY <1>1, <1>2, <1>4, <2>2
  <1> QED
    BY <1>2, <1>3, <1>5, <1>6 DEF Covers

\* As many blocks as fewer bytes take are not more blocks.
LEMMA CoversMono ==
    ASSUME NEW j \in Nat, NEW k \in Nat, NEW d \in Nat, NEW e \in Nat, d <= e,
           Covers(j, d), Covers(k, e)
    PROVE  j <= k
  <1> SUFFICES ASSUME k < j PROVE FALSE
    OBVIOUS
  <1> DEFINE q == j - 1
  <1>1. q \in Nat /\ k <= q /\ j > 0
    OBVIOUS
  <1>2. e <= Start(k) /\ Start(q) < d
    BY <1>1, Zenon DEF Covers
  <1> HIDE DEF q
  <1>3. Start(k) <= Start(q)
    <2>1. Start(k) \in Nat /\ Start(q) \in Nat /\ FS_BLOCK_SIZE \in Nat
      BY <1>1, StartNat, Sizes
    <2>2. CASE k < q
      <3>1. Start(k) + FS_BLOCK_SIZE <= Start(q)
        BY <1>1, <2>2, StartMono, Zenon
      <3> QED
        BY <2>1, <3>1
    <2>3. CASE k = q
      BY <2>1, <2>3
    <2> QED
      BY <1>1, <2>2, <2>3
  <1> QED
    BY <1>1, <1>2, <1>3, StartNat

LEMMA CoversUnique ==
    ASSUME NEW j \in Nat, NEW k \in Nat, NEW e \in Nat, Covers(j, e), Covers(k, e)
    PROVE  j = k
  <1>1. e <= e
    OBVIOUS
  <1>2. j <= k /\ k <= j
    BY <1>1, CoversMono, Zenon
  <1> QED
    BY <1>2

-----------------------------------------------------------------------------
(***************************************************************************)
(* The table: its types, and what the operations change.                   *)
(***************************************************************************)

Octets == (0 .. 255) \cup {Junk}

UsedInode == [size : Nat, block_count : Nat, direct_blocks : [Slots -> Blocks], in_use : {TRUE}]

FsType == [inodes : [InodeNums -> UsedInode \cup {StaleInode}],
           inode_bitmap : SUBSET InodeNums,
           block_bitmap : SUBSET (Blocks \ {0}),
           free_inodes : Int,
           free_blocks : Int,
           block_storage : [Blocks -> [BlockOffsets -> Octets]]]

LEMMA FsFields ==
    ASSUME NEW fs \in FsType
    PROVE  /\ fs.inodes \in [InodeNums -> UsedInode \cup {StaleInode}]
           /\ fs.inode_bitmap \in SUBSET InodeNums
           /\ fs.block_bitmap \in SUBSET (Blocks \ {0})
           /\ fs.free_inodes \in Int
           /\ fs.free_blocks \in Int
           /\ fs.block_storage \in [Blocks -> [BlockOffsets -> Octets]]
  BY DEF FsType

LEMMA UsedFields ==
    ASSUME NEW ino \in UsedInode
    PROVE  /\ ino.size \in Nat /\ ino.block_count \in Nat
           /\ ino.direct_blocks \in [Slots -> Blocks] /\ ino.in_use
  BY Zenon DEF UsedInode

LEMMA UsedIs ==
    ASSUME NEW fs \in FsType, NEW n \in InUse(fs)
    PROVE  n \in InodeNums /\ fs.inodes[n] \in UsedInode
  <1>1. n \in InodeNums /\ fs.inodes[n].in_use
    BY DEF InUse
  <1>2. fs.inodes[n] \in UsedInode \cup {StaleInode}
    BY <1>1, FsFields
  <1>3. ~StaleInode.in_use
    BY DEF StaleInode
  <1> QED
    BY <1>1, <1>2, <1>3

OneMore(x, y) == y = x + 1

\* A table of which one i-node is replaced.
LEMMA SetInode ==
    ASSUME NEW fs \in FsType, NEW n \in InodeNums, NEW ino \in UsedInode \cup {StaleInode}
    PROVE  LET gs == [fs EXCEPT !.inodes[n] = ino]
           IN  /\ gs \in FsType
               /\ gs.inodes = [fs.inodes EXCEPT ![n] = ino]
               /\ gs.inode_bitmap = fs.inode_bitmap
               /\ gs.block_bitmap = fs.block_bitmap
               /\ gs.free_inodes = fs.free_inodes
               /\ gs.free_blocks = fs.free_blocks
               /\ gs.block_storage = fs.block_storage
  <1> DEFINE f == [fs.inodes EXCEPT ![n] = ino]
  <1>1. f \in [InodeNums -> UsedInode \cup {StaleInode}]
    BY FsFields
  <1>2. [fs EXCEPT !.inodes[n] = ino] = [fs EXCEPT !.inodes = f]
    BY DEF FsType
  <1> HIDE DEF f
  <1>3. LET gs == [fs EXCEPT !.inodes = f]
        IN  /\ gs \in FsType
            /\ gs.inodes = f
            /\ gs.inode_bitmap = fs.inode_bitmap
            /\ gs.block_bitmap = fs.block_bitmap
            /\ gs.free_inodes = fs.free_inodes
            /\ gs.free_blocks = fs.free_blocks
            /\ gs.block_storage = fs.block_storage
    BY <1>1 DEF FsType
  <1> QED
    BY <1>2, <1>3 DEF f

\* A table of which the blocks change.
LEMMA SetBlocks ==
    ASSUME NEW fs \in FsType, NEW bits \in SUBSET (Blocks \ {0}), NEW free \in Int,
           NEW store \in [Blocks -> [BlockOffsets -> Octets]]
    PROVE  LET gs == [fs EXCEPT !.block_bitmap = bits, !.free_blocks = free,
                                !.block_storage = store]
           IN  /\ gs \in FsType
               /\ gs.inodes = fs.inodes
               /\ gs.inode_bitmap = fs.inode_bitmap
               /\ gs.block_bitmap = bits
               /\ gs.free_inodes = fs.free_inodes
               /\ gs.free_blocks = free
               /\ gs.block_storage = store
  BY Zenon DEF FsType

\* A table of which the i-nodes change.
LEMMA SetInodes ==
    ASSUME NEW fs \in FsType, NEW bits \in SUBSET InodeNums, NEW free \in Int,
           NEW f \in [InodeNums -> UsedInode \cup {StaleInode}]
    PROVE  LET gs == [fs EXCEPT !.inode_bitmap = bits, !.inodes = f, !.free_inodes = free]
           IN  /\ gs \in FsType
               /\ gs.inodes = f
               /\ gs.inode_bitmap = bits
               /\ gs.block_bitmap = fs.block_bitmap
               /\ gs.free_inodes = free
               /\ gs.free_blocks = fs.free_blocks
               /\ gs.block_storage = fs.block_storage
  BY Zenon DEF FsType

\* A block that is not marked becomes the block of a slot.
AddedBlock(gs, fs, n, idx, b) ==
    LET ino == fs.inodes[n]
        new == gs.inodes[n]
    IN  /\ gs \in FsType
        /\ \A m \in InodeNums \ {n} : gs.inodes[m] = fs.inodes[m]
        /\ new \in UsedInode
        /\ new.size = ino.size
        /\ OneMore(ino.block_count, new.block_count)
        /\ \A s \in Slots : new.direct_blocks[s] = IF s = idx THEN b ELSE ino.direct_blocks[s]
        /\ gs.inode_bitmap = fs.inode_bitmap
        /\ gs.block_bitmap = fs.block_bitmap \cup {b}
        /\ gs.free_inodes = fs.free_inodes
        /\ OneMore(gs.free_blocks, fs.free_blocks)
        /\ \A c \in Blocks \ {b} : gs.block_storage[c] = fs.block_storage[c]

LEMMA AddBlockIs ==
    ASSUME NEW fs \in FsType, NEW n \in InUse(fs), NEW idx \in Slots, NEW b \in Blocks \ {0}
    PROVE  AddedBlock(AddBlock(fs, n, idx, b), fs, n, idx, b)
  <1> DEFINE ino == fs.inodes[n]
             new == [ino EXCEPT !.direct_blocks[idx] = b, !.block_count = ino.block_count + 1]
             bits == fs.block_bitmap \cup {b}
             free == fs.free_blocks - 1
             store == [fs.block_storage EXCEPT ![b] = [o \in BlockOffsets |-> 0]]
             ts == [fs EXCEPT !.block_bitmap = bits, !.free_blocks = free, !.block_storage = store]
             gs == [ts EXCEPT !.inodes[n] = new]
  <1>1. n \in InodeNums /\ ino \in UsedInode
    BY UsedIs
  <1>2. /\ new \in UsedInode
        /\ new.size = ino.size
        /\ OneMore(ino.block_count, new.block_count)
        /\ \A s \in Slots : new.direct_blocks[s] = IF s = idx THEN b ELSE ino.direct_blocks[s]
    <2> DEFINE d == [ino.direct_blocks EXCEPT ![idx] = b]
               c == ino.block_count + 1
    <2>1. d \in [Slots -> Blocks] /\ c \in Nat
          /\ \A s \in Slots : d[s] = IF s = idx THEN b ELSE ino.direct_blocks[s]
      BY <1>1, UsedFields
    <2>2. new = [ino EXCEPT !.direct_blocks = d, !.block_count = c]
      BY <1>1 DEF UsedInode
    <2> HIDE DEF d, c, new
    <2>3. /\ new \in UsedInode /\ new.size = ino.size /\ new.block_count = c
          /\ new.direct_blocks = d
      BY <1>1, <2>1, <2>2, Zenon DEF UsedInode
    <2> QED
      BY <2>1, <2>3, Zenon DEF c, OneMore
  <1>3. /\ bits \in SUBSET (Blocks \ {0}) /\ free \in Int /\ OneMore(free, fs.free_blocks)
        /\ store \in [Blocks -> [BlockOffsets -> Octets]]
        /\ \A c \in Blocks \ {b} : store[c] = fs.block_storage[c]
    <2>1. free \in Int /\ OneMore(free, fs.free_blocks)
      BY FsFields DEF OneMore
    <2> QED
      BY <2>1, FsFields DEF Octets
  <1>4. TakeBlock(fs, b) = ts
    BY DEF TakeBlock, FsType
  <1> HIDE DEF bits, free, store, new
  <1>5. /\ ts \in FsType /\ ts.inodes = fs.inodes /\ ts.inode_bitmap = fs.inode_bitmap
        /\ ts.block_bitmap = bits /\ ts.free_inodes = fs.free_inodes
        /\ ts.free_blocks = free /\ ts.block_storage = store
    BY <1>3, Zenon DEF FsType
  <1> HIDE DEF ts
  <1>6. AddBlock(fs, n, idx, b) = gs
    BY <1>4, Zenon DEF AddBlock, new
  <1>7. /\ gs \in FsType /\ gs.inodes = [ts.inodes EXCEPT ![n] = new]
        /\ gs.inode_bitmap = ts.inode_bitmap /\ gs.free_inodes = ts.free_inodes
        /\ gs.block_bitmap = ts.block_bitmap /\ gs.free_blocks = ts.free_blocks
        /\ gs.block_storage = ts.block_storage
    BY <1>1, <1>2, <1>5, SetInode
  <1> HIDE DEF gs
  <1>8. gs.inodes[n] = new /\ \A m \in InodeNums \ {n} : gs.inodes[m] = fs.inodes[m]
    BY <1>1, <1>5, <1>7, FsFields
  <1> QED
    BY <1>2, <1>3, <1>5, <1>6, <1>7, <1>8, Zenon DEF bits, AddedBlock

LEMMA ElementIs ==
    ASSUME NEW T, NEW data \in Seq(T), NEW k \in 1 .. Len(data)
    PROVE  data[k] \in T
  OBVIOUS

\* Bytes go into a block.
BytesPut(gs, fs, b, at, len, data, done) ==
    /\ gs \in FsType
    /\ gs.inodes = fs.inodes
    /\ gs.inode_bitmap = fs.inode_bitmap
    /\ gs.block_bitmap = fs.block_bitmap
    /\ gs.free_inodes = fs.free_inodes
    /\ gs.free_blocks = fs.free_blocks
    /\ \A c \in Blocks \ {b} : gs.block_storage[c] = fs.block_storage[c]
    /\ \A o \in BlockOffsets :
         gs.block_storage[b][o] = IF o \in at .. (at + len - 1) THEN data[done + o - at + 1]
                                  ELSE fs.block_storage[b][o]

LEMMA PutBytesIs ==
    ASSUME NEW fs \in FsType, NEW b \in Blocks, NEW at \in Nat, NEW len \in Nat,
           NEW data \in Seq(0 .. 255), NEW done \in Nat, done + len <= Len(data)
    PROVE  BytesPut(PutBytes(fs, b, at, len, data, done), fs, b, at, len, data, done)
  <1> DEFINE bytes == [o \in BlockOffsets |->
                          IF o \in at .. (at + len - 1) THEN data[done + o - at + 1]
                          ELSE fs.block_storage[b][o]]
             store == [fs.block_storage EXCEPT ![b] = bytes]
             gs == PutBytes(fs, b, at, len, data, done)
  <1>1. bytes \in [BlockOffsets -> Octets]
    <2>1. ASSUME NEW o \in BlockOffsets, o \in at .. (at + len - 1)
          PROVE  data[done + o - at + 1] \in Octets
      <3>1. PICK k : k = done + o - at + 1 /\ k \in 1 .. Len(data)
        BY <2>1 DEF BlockOffsets
      <3>2. data[k] \in 0 .. 255
        BY <3>1, ElementIs, Zenon
      <3> QED
        BY <3>1, <3>2, Zenon DEF Octets
    <2>2. \A o \in BlockOffsets : fs.block_storage[b][o] \in Octets
      BY FsFields
    <2> QED
      BY <2>1, <2>2
  <1>2. gs = [fs EXCEPT !.block_storage[b] = bytes]
    BY DEF PutBytes
  <1>3. \A o \in BlockOffsets :
            bytes[o] = IF o \in at .. (at + len - 1) THEN data[done + o - at + 1]
                       ELSE fs.block_storage[b][o]
    OBVIOUS
  <1> HIDE DEF bytes, gs
  <1>4. store \in [Blocks -> [BlockOffsets -> Octets]] /\ store[b] = bytes
        /\ \A c \in Blocks \ {b} : store[c] = fs.block_storage[c]
    BY <1>1, FsFields
  <1>5. gs = [fs EXCEPT !.block_storage = store]
    BY <1>2 DEF FsType
  <1> HIDE DEF store
  <1>6. /\ gs \in FsType
        /\ gs.inodes = fs.inodes
        /\ gs.inode_bitmap = fs.inode_bitmap
        /\ gs.block_bitmap = fs.block_bitmap
        /\ gs.free_inodes = fs.free_inodes
        /\ gs.free_blocks = fs.free_blocks
        /\ gs.block_storage = store
    BY <1>4, <1>5, Zenon DEF FsType
  <1> QED
    BY <1>3, <1>4, <1>6, Zenon DEF gs, BytesPut

\* The size of an i-node in use changes.
SizeSet(gs, fs, n, size) ==
    LET ino == fs.inodes[n]
        new == gs.inodes[n]
    IN  /\ gs \in FsType
        /\ \A m \in InodeNums \ {n} : gs.inodes[m] = fs.inodes[m]
        /\ new \in UsedInode
        /\ new.size = size
        /\ new.block_count = ino.block_count
        /\ new.direct_blocks = ino.direct_blocks
        /\ gs.inode_bitmap = fs.inode_bitmap
        /\ gs.block_bitmap = fs.block_bitmap
        /\ gs.free_inodes = fs.free_inodes
        /\ gs.free_blocks = fs.free_blocks
        /\ gs.block_storage = fs.block_storage

LEMMA SizeIs ==
    ASSUME NEW fs \in FsType, NEW n \in InUse(fs), NEW size \in Nat
    PROVE  SizeSet([fs EXCEPT !.inodes[n].size = size], fs, n, size)
  <1> DEFINE ino == fs.inodes[n]
             new == [ino EXCEPT !.size = size]
             gs == [fs EXCEPT !.inodes[n] = new]
  <1>1. n \in InodeNums /\ ino \in UsedInode
    BY UsedIs
  <1>2. /\ new \in UsedInode
        /\ new.size = size
        /\ new.block_count = ino.block_count
        /\ new.direct_blocks = ino.direct_blocks
    BY <1>1, Zenon DEF UsedInode
  <1>3. [fs EXCEPT !.inodes[n].size = size] = gs
    BY <1>1 DEF FsType
  <1> HIDE DEF new
  <1>4. /\ gs \in FsType /\ gs.inodes = [fs.inodes EXCEPT ![n] = new]
        /\ gs.inode_bitmap = fs.inode_bitmap /\ gs.free_inodes = fs.free_inodes
        /\ gs.block_bitmap = fs.block_bitmap /\ gs.free_blocks = fs.free_blocks
        /\ gs.block_storage = fs.block_storage
    BY <1>1, <1>2, SetInode
  <1> HIDE DEF gs
  <1>5. gs.inodes[n] = new /\ \A m \in InodeNums \ {n} : gs.inodes[m] = fs.inodes[m]
    BY <1>1, <1>4, FsFields
  <1> QED
    BY <1>2, <1>3, <1>4, <1>5, Zenon DEF SizeSet

\* A free i-node is taken.
InodeTaken(gs, fs, n) ==
    /\ gs \in FsType
    /\ \A m \in InodeNums \ {n} : gs.inodes[m] = fs.inodes[m]
    /\ gs.inodes[n] = FreshInode /\ FreshInode \in UsedInode
    /\ gs.inode_bitmap = fs.inode_bitmap \cup {n}
    /\ gs.block_bitmap = fs.block_bitmap
    /\ OneMore(gs.free_inodes, fs.free_inodes)
    /\ gs.free_blocks = fs.free_blocks
    /\ gs.block_storage = fs.block_storage

LEMMA TakeInodeIs ==
    ASSUME NEW fs \in FsType, NEW n \in InodeNums
    PROVE  InodeTaken(TakeInode(fs, n), fs, n)
  <1> DEFINE bits == fs.inode_bitmap \cup {n}
             free == fs.free_inodes - 1
             f == [fs.inodes EXCEPT ![n] = FreshInode]
             gs == TakeInode(fs, n)
  <1>1. FreshInode \in UsedInode
    <2>1. 0 \in Blocks
      BY Sizes DEF Blocks
    <2> QED
      BY <2>1 DEF FreshInode, UsedInode
  <1>2. /\ bits \in SUBSET InodeNums /\ free \in Int /\ OneMore(free, fs.free_inodes)
        /\ f \in [InodeNums -> UsedInode \cup {StaleInode}]
        /\ f[n] = FreshInode /\ \A m \in InodeNums \ {n} : f[m] = fs.inodes[m]
    <2>1. free \in Int /\ OneMore(free, fs.free_inodes)
      BY FsFields DEF OneMore
    <2> QED
      BY <1>1, <2>1, FsFields
  <1>3. gs = [fs EXCEPT !.inode_bitmap = bits, !.inodes = f, !.free_inodes = free]
    BY DEF TakeInode, FsType
  <1> HIDE DEF bits, free, f, gs
  <1>4. /\ gs \in FsType
        /\ gs.inodes = f
        /\ gs.inode_bitmap = bits
        /\ gs.block_bitmap = fs.block_bitmap
        /\ gs.free_inodes = free
        /\ gs.free_blocks = fs.free_blocks
        /\ gs.block_storage = fs.block_storage
    BY <1>2, <1>3, Zenon DEF FsType
  <1> QED
    BY <1>1, <1>2, <1>4, Zenon DEF bits, gs, InodeTaken

\* The blocks of the slots in S are freed.
SlotsFreed(gs, fs, n, S) ==
    LET held == HeldBlocks(fs, n, S)
    IN  /\ gs \in FsType
        /\ gs.inodes = fs.inodes
        /\ gs.inode_bitmap = fs.inode_bitmap
        /\ gs.block_bitmap = fs.block_bitmap \ held
        /\ gs.free_inodes = fs.free_inodes
        /\ gs.free_blocks =
             fs.free_blocks + Cardinality({s \in S : fs.inodes[n].direct_blocks[s] # 0})
        /\ \A b \in Blocks \ held : gs.block_storage[b] = fs.block_storage[b]

LEMMA BlockFreeIs ==
    ASSUME SetFacts, NEW fs \in FsType, NEW n \in InUse(fs), NEW S \in SUBSET Slots
    PROVE  SlotsFreed(block_free(fs, n, S), fs, n, S)
  <1> DEFINE held == HeldBlocks(fs, n, S)
             T == {s \in S : fs.inodes[n].direct_blocks[s] # 0}
             bits == fs.block_bitmap \ held
             free == fs.free_blocks + Cardinality(T)
             store == [b \in Blocks |-> IF b \in held THEN NoBytes ELSE fs.block_storage[b]]
             gs == block_free(fs, n, S)
  <1>1. Cardinality(T) \in Nat
    <2>1. IsFiniteSet(Slots)
      BY Sizes, FiniteInterval DEF Slots
    <2> QED
      BY <2>1, FiniteSubset
  <1>2. gs = [fs EXCEPT !.block_bitmap = bits, !.free_blocks = free, !.block_storage = store]
    BY Zenon DEF block_free
  <1> HIDE DEF T, held, gs
  <1>3. /\ bits \in SUBSET (Blocks \ {0}) /\ free \in Int
        /\ store \in [Blocks -> [BlockOffsets -> Octets]]
        /\ \A b \in Blocks \ held : store[b] = fs.block_storage[b]
    <2>1. NoBytes \in [BlockOffsets -> Octets]
      BY DEF NoBytes, Octets
    <2> QED
      BY <1>1, <2>1, FsFields
  <1> HIDE DEF bits, free, store
  <1>4. /\ gs \in FsType
        /\ gs.inodes = fs.inodes
        /\ gs.inode_bitmap = fs.inode_bitmap
        /\ gs.block_bitmap = bits
        /\ gs.free_inodes = fs.free_inodes
        /\ gs.free_blocks = free
        /\ gs.block_storage = store
    BY <1>2, <1>3, Zenon DEF FsType
  <1> QED
    BY <1>3, <1>4, Zenon DEF bits, free, T, held, gs, SlotsFreed

\* inode_truncate to a smaller size.
CutTo(gs, fs, n, size) ==
    LET ino == fs.inodes[n]
        new == gs.inodes[n]
        S == Beyond(ino, size)
        held == HeldBlocks(fs, n, S)
    IN  /\ gs \in FsType
        /\ \A m \in InodeNums \ {n} : gs.inodes[m] = fs.inodes[m]
        /\ new \in UsedInode
        /\ new.size = size
        /\ new.block_count = BlocksFor(size)
        /\ \A s \in Slots : new.direct_blocks[s] = IF s \in S THEN 0 ELSE ino.direct_blocks[s]
        /\ gs.inode_bitmap = fs.inode_bitmap
        /\ gs.block_bitmap = fs.block_bitmap \ held
        /\ gs.free_inodes = fs.free_inodes
        /\ gs.free_blocks = fs.free_blocks + Cardinality({s \in S : ino.direct_blocks[s] # 0})
        /\ \A b \in Blocks \ held : gs.block_storage[b] = fs.block_storage[b]

LEMMA TruncateIs ==
    ASSUME SetFacts, NEW fs \in FsType, NEW n \in InUse(fs), NEW size \in Nat, size < fs.inodes[n].size
    PROVE  CutTo(inode_truncate(fs, n, size), fs, n, size)
  <1> DEFINE ino == fs.inodes[n]
             S == Beyond(ino, size)
             held == HeldBlocks(fs, n, S)
             c == BlocksFor(size)
             cut == [s \in Slots |-> IF s \in S THEN 0 ELSE ino.direct_blocks[s]]
             new == [ino EXCEPT !.size = size, !.block_count = c, !.direct_blocks = cut]
             ts == block_free(fs, n, S)
             gs == [ts EXCEPT !.inodes[n] = new]
  <1>1. n \in InodeNums /\ ino \in UsedInode
    BY UsedIs
  <1>2. S \in SUBSET Slots
    BY DEF Beyond
  <1>3. inode_truncate(fs, n, size) = gs
    <2>1. ~(size >= ino.size)
      BY <1>1, UsedFields
    <2> QED
      BY <2>1, Zenon DEF inode_truncate
  <1> HIDE DEF S
  <1>4. c \in Nat /\ cut \in [Slots -> Blocks]
        /\ \A s \in Slots : cut[s] = IF s \in S THEN 0 ELSE ino.direct_blocks[s]
    <2>1. 0 \in Blocks
      BY Sizes DEF Blocks
    <2> QED
      BY <1>1, <2>1, UsedFields, BlocksForCovers
  <1> HIDE DEF c, cut, ino
  <1>5. /\ new \in UsedInode /\ new.size = size /\ new.block_count = c
        /\ new.direct_blocks = cut
    BY <1>1, <1>4, Zenon DEF UsedInode
  <1> HIDE DEF new
  <1>6. /\ ts \in FsType
        /\ ts.inodes = fs.inodes
        /\ ts.inode_bitmap = fs.inode_bitmap
        /\ ts.block_bitmap = fs.block_bitmap \ held
        /\ ts.free_inodes = fs.free_inodes
        /\ ts.free_blocks = fs.free_blocks + Cardinality({s \in S : ino.direct_blocks[s] # 0})
        /\ \A b \in Blocks \ held : ts.block_storage[b] = fs.block_storage[b]
    BY <1>2, BlockFreeIs, Zenon DEF ino, SlotsFreed
  <1> HIDE DEF ts
  <1>7. /\ gs \in FsType /\ gs.inodes = [ts.inodes EXCEPT ![n] = new]
        /\ gs.inode_bitmap = ts.inode_bitmap /\ gs.free_inodes = ts.free_inodes
        /\ gs.block_bitmap = ts.block_bitmap /\ gs.free_blocks = ts.free_blocks
        /\ gs.block_storage = ts.block_storage
    BY <1>1, <1>5, <1>6, SetInode
  <1> HIDE DEF gs
  <1>8. gs.inodes[n] = new /\ \A m \in InodeNums \ {n} : gs.inodes[m] = fs.inodes[m]
    BY <1>1, <1>6, <1>7, FsFields
  <1> QED
    BY <1>3, <1>4, <1>5, <1>6, <1>7, <1>8, ZenonT(30) DEF c, S, held, ino, CutTo

\* inode_free of an i-node in use.
InodeDropped(gs, fs, n) ==
    LET ino == fs.inodes[n]
        S == {s \in Slots : s < ino.block_count}
        held == HeldBlocks(fs, n, S)
    IN  /\ gs \in FsType
        /\ \A m \in InodeNums \ {n} : gs.inodes[m] = fs.inodes[m]
        /\ gs.inodes[n] = StaleInode
        /\ gs.inode_bitmap = fs.inode_bitmap \ {n}
        /\ gs.block_bitmap = fs.block_bitmap \ held
        /\ OneMore(fs.free_inodes, gs.free_inodes)
        /\ gs.free_blocks = fs.free_blocks + Cardinality({s \in S : ino.direct_blocks[s] # 0})
        /\ \A b \in Blocks \ held : gs.block_storage[b] = fs.block_storage[b]

LEMMA DropInodeIs ==
    ASSUME SetFacts, NEW fs \in FsType, NEW n \in InUse(fs)
    PROVE  InodeDropped(DropInode(fs, n), fs, n)
  <1> DEFINE ino == fs.inodes[n]
             S == {s \in Slots : s < ino.block_count}
             held == HeldBlocks(fs, n, S)
             ts == block_free(fs, n, S)
             bits == ts.inode_bitmap \ {n}
             free == ts.free_inodes + 1
             f == [ts.inodes EXCEPT ![n] = StaleInode]
             gs == [ts EXCEPT !.inode_bitmap = bits, !.inodes = f, !.free_inodes = free]
  <1>1. n \in InodeNums /\ ino \in UsedInode
    BY UsedIs
  <1>2. S \in SUBSET Slots
    OBVIOUS
  <1>3. DropInode(fs, n) = [ts EXCEPT !.inode_bitmap = @ \ {n}, !.inodes[n] = StaleInode,
                                      !.free_inodes = @ + 1]
    BY <1>1, UsedFields, Zenon DEF DropInode
  <1> HIDE DEF S
  <1>4. /\ ts \in FsType
        /\ ts.inodes = fs.inodes
        /\ ts.inode_bitmap = fs.inode_bitmap
        /\ ts.block_bitmap = fs.block_bitmap \ held
        /\ ts.free_inodes = fs.free_inodes
        /\ ts.free_blocks = fs.free_blocks + Cardinality({s \in S : ino.direct_blocks[s] # 0})
        /\ \A b \in Blocks \ held : ts.block_storage[b] = fs.block_storage[b]
    BY <1>2, BlockFreeIs, Zenon DEF SlotsFreed
  <1> HIDE DEF ts, ino, held
  <1>5. DropInode(fs, n) = gs
    BY <1>3, <1>4, Zenon DEF FsType
  <1>6. /\ bits \in SUBSET InodeNums /\ free \in Int
        /\ f \in [InodeNums -> UsedInode \cup {StaleInode}]
        /\ f[n] = StaleInode /\ \A m \in InodeNums \ {n} : f[m] = fs.inodes[m]
    BY <1>1, <1>4, FsFields
  <1> HIDE DEF bits, free, f
  <1>7. /\ gs \in FsType
        /\ gs.inodes = f
        /\ gs.inode_bitmap = bits
        /\ gs.block_bitmap = ts.block_bitmap
        /\ gs.free_inodes = free
        /\ gs.free_blocks = ts.free_blocks
        /\ gs.block_storage = ts.block_storage
    BY <1>4, <1>6, Zenon DEF FsType
  <1> HIDE DEF gs
  <1> QED
    BY <1>4, <1>5, <1>6, <1>7, Zenon DEF bits, free, held, S, ino, OneMore, InodeDropped

-----------------------------------------------------------------------------
(***************************************************************************)
(* Bitmaps, counters and blocks.                                           *)
(***************************************************************************)

Core(fs) == fs \in FsType /\ BlocksMarked(fs) /\ Counted(fs)

OneSlot(fs) ==
    \A n, m \in InUse(fs), s, t \in Slots :
        (/\ fs.inodes[n].direct_blocks[s] # 0
         /\ fs.inodes[n].direct_blocks[s] = fs.inodes[m].direct_blocks[t])
        => n = m /\ s = t

\* Each marked block is held.
MarkedHeld(fs) ==
    \A b \in fs.block_bitmap : \E n \in InUse(fs), s \in Slots : b = fs.inodes[n].direct_blocks[s]

\* Each block that is held is marked.
HeldMarked(fs) ==
    \A n \in InUse(fs), s \in Slots :
        fs.inodes[n].direct_blocks[s] # 0 => fs.inodes[n].direct_blocks[s] \in fs.block_bitmap

LEMMA BlocksMarkedIs ==
    ASSUME NEW fs \in FsType
    PROVE  BlocksMarked(fs) <=> OneSlot(fs) /\ MarkedHeld(fs) /\ HeldMarked(fs)
  <1> DEFINE U == UNION {HeldBlocks(fs, n, Slots) : n \in InUse(fs)}
  <1>1. ASSUME NEW b
        PROVE  b \in U <=> b # 0 /\ \E n \in InUse(fs), s \in Slots : b = fs.inodes[n].direct_blocks[s]
    BY DEF HeldBlocks
  <1>2. fs.block_bitmap \subseteq Blocks \ {0}
    BY FsFields
  <1>3. BlocksMarked(fs) <=> fs.block_bitmap = U /\ OneSlot(fs)
    BY Zenon DEF BlocksMarked, OneSlot
  <1> HIDE DEF U
  <1>4. ASSUME fs.block_bitmap = U PROVE MarkedHeld(fs) /\ HeldMarked(fs)
    BY <1>1, <1>4, Zenon DEF MarkedHeld, HeldMarked
  <1>5. ASSUME MarkedHeld(fs), HeldMarked(fs) PROVE fs.block_bitmap = U
    <2>1. ASSUME NEW b \in fs.block_bitmap PROVE b \in U
      <3>1. b # 0
        BY <1>2, <2>1
      <3> QED
        BY <1>1, <1>5, <2>1, <3>1, Zenon DEF MarkedHeld
    <2>2. ASSUME NEW b \in U PROVE b \in fs.block_bitmap
      <3>1. b # 0
        BY <1>1, <2>2, Zenon
      <3>2. PICK n \in InUse(fs), s \in Slots : b = fs.inodes[n].direct_blocks[s]
        BY <1>1, <2>2, Zenon
      <3> QED
        BY <1>5, <3>1, <3>2, Zenon DEF HeldMarked
    <2> QED
      BY <2>1, <2>2, Zenon
  <1> QED
    BY <1>3, <1>4, <1>5, Zenon

\* The sets that are counted are finite.
LEMMA Finite ==
    ASSUME SetFacts, NEW fs \in FsType
    PROVE  /\ IsFiniteSet(fs.block_bitmap) /\ Cardinality(fs.block_bitmap) \in Nat
           /\ IsFiniteSet(InUse(fs)) /\ Cardinality(InUse(fs)) \in Nat
  <1>1. IsFiniteSet(Blocks) /\ IsFiniteSet(InodeNums)
    BY Sizes, FiniteInterval DEF Blocks, InodeNums
  <1>2. fs.block_bitmap \in SUBSET Blocks /\ InUse(fs) \in SUBSET InodeNums
    BY FsFields DEF InUse
  <1>3. IsFiniteSet(fs.block_bitmap) /\ IsFiniteSet(InUse(fs))
    BY <1>1, <1>2, FiniteSubset, Zenon
  <1> QED
    BY <1>1, <1>2, <1>3, FiniteSubset, Zenon

\* Only the i-node n, which stays in use, changes.
LEMMA SameInUse ==
    ASSUME NEW fs \in FsType, NEW gs \in FsType, NEW n \in InUse(fs), gs.inodes[n] \in UsedInode,
           \A m \in InodeNums \ {n} : gs.inodes[m] = fs.inodes[m]
    PROVE  InUse(gs) = InUse(fs)
  <1>1. gs.inodes[n].in_use /\ n \in InodeNums /\ fs.inodes[n].in_use
    BY UsedFields, UsedIs
  <1>2. ASSUME NEW m \in InodeNums PROVE gs.inodes[m].in_use <=> fs.inodes[m].in_use
    <2>1. CASE m = n
      BY <1>1, <2>1
    <2>2. CASE m # n
      BY <2>2, Zenon
    <2> QED
      BY <2>1, <2>2
  <1> QED
    BY <1>2, Zenon DEF InUse

\* The bookkeeping when a slot without a block gets one that was not marked.
LEMMA CoreAddBlock ==
    ASSUME SetFacts, NEW fs, Core(fs), NEW n \in InUse(fs), NEW idx \in Slots, NEW b \in Blocks \ {0},
           b \notin fs.block_bitmap, fs.inodes[n].direct_blocks[idx] = 0
    PROVE  Core(AddBlock(fs, n, idx, b)) /\ InUse(AddBlock(fs, n, idx, b)) = InUse(fs)
  <1> DEFINE gs == AddBlock(fs, n, idx, b)
  <1>1. fs \in FsType /\ BlocksMarked(fs) /\ Counted(fs)
    BY DEF Core
  <1>2. /\ gs \in FsType
        /\ \A m \in InodeNums \ {n} : gs.inodes[m] = fs.inodes[m]
        /\ gs.inodes[n] \in UsedInode
        /\ \A s \in Slots : gs.inodes[n].direct_blocks[s] =
                              IF s = idx THEN b ELSE fs.inodes[n].direct_blocks[s]
        /\ gs.inode_bitmap = fs.inode_bitmap
        /\ gs.block_bitmap = fs.block_bitmap \cup {b}
        /\ gs.free_inodes = fs.free_inodes
        /\ OneMore(gs.free_blocks, fs.free_blocks)
    <2>1. AddedBlock(gs, fs, n, idx, b)
      BY <1>1, AddBlockIs, Zenon
    <2> HIDE DEF gs
    <2> QED
      BY <2>1 DEF AddedBlock
  <1> HIDE DEF gs
  <1>3. InUse(gs) = InUse(fs)
    BY <1>1, <1>2, SameInUse, Zenon
  <1>4. \A m \in InUse(fs) : m \in InodeNums /\ fs.inodes[m].direct_blocks \in [Slots -> Blocks]
    BY <1>1, UsedIs, UsedFields, Zenon
  <1>5. \A m \in InUse(fs), s \in Slots :
            gs.inodes[m].direct_blocks[s] = IF m = n /\ s = idx THEN b
                                            ELSE fs.inodes[m].direct_blocks[s]
    BY <1>2, <1>4
  <1>6. OneSlot(fs) /\ MarkedHeld(fs) /\ HeldMarked(fs)
    BY <1>1, BlocksMarkedIs, Zenon
  <1>7. OneSlot(gs)
    BY <1>3, <1>5, <1>6 DEF OneSlot, HeldMarked
  <1>8. MarkedHeld(gs)
    <2>1. gs.inodes[n].direct_blocks[idx] = b
      BY <1>5
    <2>2. ASSUME NEW c \in fs.block_bitmap
          PROVE  \E m \in InUse(gs), s \in Slots : c = gs.inodes[m].direct_blocks[s]
      <3>1. PICK m \in InUse(fs), s \in Slots : c = fs.inodes[m].direct_blocks[s]
        BY <1>6, <2>2, Zenon DEF MarkedHeld
      <3>2. c # 0
        BY <1>1, <2>2, FsFields
      <3>3. gs.inodes[m].direct_blocks[s] = c
        BY <1>5, <3>1, <3>2
      <3> QED
        BY <1>3, <3>3, Zenon
    <2> QED
      BY <1>2, <1>3, <2>1, <2>2, Zenon DEF MarkedHeld
  <1>9. HeldMarked(gs)
    BY <1>2, <1>3, <1>5, <1>6 DEF HeldMarked
  <1>10. Counted(gs)
    <2>1. Cardinality(gs.block_bitmap) = Cardinality(fs.block_bitmap) + 1
      <3>1. IsFiniteSet(fs.block_bitmap)
        BY <1>1, Finite, Zenon
      <3>2. Cardinality(fs.block_bitmap \cup {b}) = Cardinality(fs.block_bitmap) + 1
        BY <3>1, CardinalityMore
      <3> QED
        BY <1>2, <3>2, Zenon
    <2> QED
      <3>1. /\ fs.free_blocks = MAX_BLOCKS - Cardinality(fs.block_bitmap)
            /\ Cardinality(fs.block_bitmap) \in Nat /\ gs.free_blocks \in Int
        BY <1>1, <1>2, Finite, FsFields, Zenon DEF Counted
      <3>2. gs.free_blocks = MAX_BLOCKS - Cardinality(gs.block_bitmap)
        BY <1>2, <2>1, <3>1, Sizes DEF OneMore
      <3> QED
        BY <1>1, <1>2, <1>3, <3>2, Zenon DEF Counted
  <1> QED
    BY <1>2, <1>3, <1>7, <1>8, <1>9, <1>10, BlocksMarkedIs, Zenon DEF Core, gs

\* The bookkeeping does not depend on the bytes in the blocks.
LEMMA CorePutBytes ==
    ASSUME NEW fs, Core(fs), NEW b \in Blocks, NEW at \in Nat, NEW len \in Nat,
           NEW data \in Seq(0 .. 255), NEW done \in Nat, done + len <= Len(data)
    PROVE  /\ Core(PutBytes(fs, b, at, len, data, done))
           /\ InUse(PutBytes(fs, b, at, len, data, done)) = InUse(fs)
  <1> DEFINE gs == PutBytes(fs, b, at, len, data, done)
  <1>1. fs \in FsType /\ BlocksMarked(fs) /\ Counted(fs)
    BY DEF Core
  <1>2. BytesPut(gs, fs, b, at, len, data, done)
    BY <1>1, PutBytesIs, Zenon
  <1> HIDE DEF gs
  <1>3. /\ gs \in FsType
        /\ gs.inodes = fs.inodes
        /\ gs.inode_bitmap = fs.inode_bitmap
        /\ gs.block_bitmap = fs.block_bitmap
        /\ gs.free_inodes = fs.free_inodes
        /\ gs.free_blocks = fs.free_blocks
    BY <1>2, Zenon DEF BytesPut
  <1>4. InUse(gs) = InUse(fs)
    BY <1>3, Zenon DEF InUse
  <1>5. BlocksMarked(gs)
    <2>1. OneSlot(fs) /\ MarkedHeld(fs) /\ HeldMarked(fs)
      BY <1>1, BlocksMarkedIs, Zenon
    <2>2. OneSlot(gs)
      BY <1>3, <1>4, <2>1 DEF OneSlot
    <2>3. MarkedHeld(gs)
      BY <1>3, <1>4, <2>1 DEF MarkedHeld
    <2>4. HeldMarked(gs)
      BY <1>3, <1>4, <2>1, Zenon DEF HeldMarked
    <2> QED
      BY <1>3, <2>2, <2>3, <2>4, BlocksMarkedIs, Zenon
  <1>6. Counted(gs)
    BY <1>1, <1>3, <1>4, Zenon DEF Counted
  <1> QED
    BY <1>3, <1>4, <1>5, <1>6, Zenon DEF Core, gs

\* Nor on the sizes.
LEMMA CoreSize ==
    ASSUME NEW fs, Core(fs), NEW n \in InUse(fs), NEW size \in Nat
    PROVE  /\ Core([fs EXCEPT !.inodes[n].size = size])
           /\ InUse([fs EXCEPT !.inodes[n].size = size]) = InUse(fs)
  <1> DEFINE gs == [fs EXCEPT !.inodes[n].size = size]
  <1>1. fs \in FsType /\ BlocksMarked(fs) /\ Counted(fs)
    BY DEF Core
  <1>2. SizeSet(gs, fs, n, size)
    BY <1>1, SizeIs, Zenon
  <1> HIDE DEF gs
  <1>3. /\ gs \in FsType
        /\ \A m \in InodeNums \ {n} : gs.inodes[m] = fs.inodes[m]
        /\ gs.inodes[n] \in UsedInode
        /\ gs.inodes[n].direct_blocks = fs.inodes[n].direct_blocks
        /\ gs.inode_bitmap = fs.inode_bitmap
        /\ gs.block_bitmap = fs.block_bitmap
        /\ gs.free_inodes = fs.free_inodes
        /\ gs.free_blocks = fs.free_blocks
    BY <1>2, Zenon DEF SizeSet
  <1>4. InUse(gs) = InUse(fs)
    BY <1>1, <1>3, SameInUse, Zenon
  <1>5. \A m \in InUse(fs) : gs.inodes[m].direct_blocks = fs.inodes[m].direct_blocks
    BY <1>1, <1>3, UsedIs
  <1>6. OneSlot(fs) /\ MarkedHeld(fs) /\ HeldMarked(fs)
    BY <1>1, BlocksMarkedIs, Zenon
  <1>7. OneSlot(gs) /\ HeldMarked(gs)
    <2>1. OneSlot(gs)
      BY <1>3, <1>4, <1>5, <1>6 DEF OneSlot
    <2>2. HeldMarked(gs)
      BY <1>3, <1>4, <1>5, <1>6 DEF HeldMarked
    <2> QED
      BY <2>1, <2>2, Zenon
  <1>8. MarkedHeld(gs)
    BY <1>3, <1>4, <1>5, <1>6 DEF MarkedHeld
  <1>9. Counted(gs)
    BY <1>1, <1>3, <1>4, Zenon DEF Counted
  <1> QED
    BY <1>3, <1>4, <1>7, <1>8, <1>9, BlocksMarkedIs, Zenon DEF Core, gs

\* A free i-node becomes one without blocks.
LEMMA CoreTakeInode ==
    ASSUME SetFacts, NEW fs, Core(fs), NEW n \in FreeInodeNums(fs)
    PROVE  /\ Core(TakeInode(fs, n))
           /\ InUse(TakeInode(fs, n)) = InUse(fs) \cup {n}
           /\ n \notin InUse(fs)
  <1> DEFINE gs == TakeInode(fs, n)
  <1>1. fs \in FsType /\ BlocksMarked(fs) /\ Counted(fs)
    BY DEF Core
  <1>2. n \in InodeNums /\ n \notin InUse(fs)
    BY <1>1, Zenon DEF FreeInodeNums, Counted
  <1>3. InodeTaken(gs, fs, n)
    BY <1>1, <1>2, TakeInodeIs, Zenon
  <1> HIDE DEF gs
  <1>4. /\ gs \in FsType
        /\ \A m \in InodeNums \ {n} : gs.inodes[m] = fs.inodes[m]
        /\ gs.inodes[n] = FreshInode
        /\ gs.inode_bitmap = fs.inode_bitmap \cup {n}
        /\ gs.block_bitmap = fs.block_bitmap
        /\ OneMore(gs.free_inodes, fs.free_inodes)
        /\ gs.free_blocks = fs.free_blocks
    BY <1>3 DEF InodeTaken
  <1>5. FreshInode.in_use /\ \A s \in Slots : FreshInode.direct_blocks[s] = 0
    BY DEF FreshInode
  <1>6. InUse(gs) = InUse(fs) \cup {n}
    BY <1>2, <1>4, <1>5 DEF InUse
  <1>7. \A m \in InUse(fs) : gs.inodes[m] = fs.inodes[m]
    BY <1>1, <1>2, <1>4, UsedIs
  <1>8. \A s \in Slots : gs.inodes[n].direct_blocks[s] = 0
    BY <1>4, <1>5
  <1>9. OneSlot(fs) /\ MarkedHeld(fs) /\ HeldMarked(fs)
    BY <1>1, BlocksMarkedIs, Zenon
  <1>10. OneSlot(gs)
    BY <1>6, <1>7, <1>8, <1>9 DEF OneSlot
  <1>11. HeldMarked(gs)
    BY <1>4, <1>6, <1>7, <1>8, <1>9 DEF HeldMarked
  <1>12. MarkedHeld(gs)
    BY <1>4, <1>6, <1>7, <1>9 DEF MarkedHeld
  <1>13. Counted(gs)
    <2>1. Cardinality(InUse(gs)) = Cardinality(InUse(fs)) + 1
      <3>1. IsFiniteSet(InUse(fs))
        BY <1>1, Finite, Zenon
      <3>2. Cardinality(InUse(fs) \cup {n}) = Cardinality(InUse(fs)) + 1
        BY <1>2, <3>1, CardinalityMore
      <3> QED
        BY <1>6, <3>2, Zenon
    <2>2. /\ fs.free_inodes = MAX_INODE_COUNT - Cardinality(InUse(fs))
          /\ Cardinality(InUse(fs)) \in Nat /\ gs.free_inodes \in Int
      BY <1>1, <1>4, Finite, FsFields, Zenon DEF Counted
    <2>3. gs.free_inodes = MAX_INODE_COUNT - Cardinality(InUse(gs))
      BY <1>4, <2>1, <2>2, Sizes DEF OneMore
    <2> QED
      BY <1>1, <1>4, <1>6, <2>3, Zenon DEF Counted
  <1> QED
    BY <1>2, <1>4, <1>6, <1>10, <1>11, <1>12, <1>13, BlocksMarkedIs, Zenon DEF Core, gs

\* What block_free adds to free_blocks is what the bitmap loses.
HeldCounted(fs, held, T) ==
    /\ Cardinality(T) \in Nat
    /\ Cardinality(fs.block_bitmap \ held) \in Nat
    /\ Cardinality(fs.block_bitmap) = Cardinality(fs.block_bitmap \ held) + Cardinality(T)

LEMMA HeldCount ==
    ASSUME SetFacts, NEW fs, Core(fs), NEW n \in InUse(fs), NEW S \in SUBSET Slots
    PROVE  HeldCounted(fs, HeldBlocks(fs, n, S),
                       {s \in S : fs.inodes[n].direct_blocks[s] # 0})
  <1> DEFINE d == fs.inodes[n].direct_blocks
             held == HeldBlocks(fs, n, S)
             T == {s \in S : d[s] # 0}
  <1>1. fs \in FsType /\ OneSlot(fs) /\ HeldMarked(fs)
    BY BlocksMarkedIs, Zenon DEF Core
  <1>2. held = {d[s] : s \in T}
    BY DEF HeldBlocks
  <1>3. \A x, y \in T : d[x] = d[y] => x = y
    BY <1>1 DEF OneSlot
  <1>4. IsFiniteSet(T) /\ Cardinality(T) \in Nat
    <2>1. IsFiniteSet(Slots)
      BY Sizes, FiniteInterval DEF Slots
    <2> QED
      BY <2>1, FiniteSubset
  <1>5. held \subseteq fs.block_bitmap
    BY <1>1, <1>2 DEF HeldMarked
  <1> HIDE DEF T, held
  <1>6. Cardinality(held) = Cardinality(T) /\ Cardinality(T) \in Nat
    BY <1>2, <1>3, <1>4, CardinalityImage, Zenon
  <1>7. /\ Cardinality(fs.block_bitmap) \in Nat
        /\ IsFiniteSet(fs.block_bitmap)
    BY <1>1, Finite, Zenon
  <1>8. /\ Cardinality(fs.block_bitmap \ held) = Cardinality(fs.block_bitmap) - Cardinality(held)
        /\ Cardinality(fs.block_bitmap \ held) \in Nat
    BY <1>5, <1>7, CardinalityLess, Zenon
  <1>9. Cardinality(fs.block_bitmap) = Cardinality(fs.block_bitmap \ held) + Cardinality(T)
    BY <1>6, <1>7, <1>8
  <1> QED
    <2>1. HeldCounted(fs, held, T)
      BY <1>6, <1>8, <1>9, Zenon DEF HeldCounted
    <2> QED
      BY <2>1, Zenon DEF T, held

\* The counter of blocks after some were freed.
GivenBack(gs, fs, n, S) ==
    /\ gs.block_bitmap = fs.block_bitmap \ HeldBlocks(fs, n, S)
    /\ gs.free_blocks =
         fs.free_blocks + Cardinality({s \in S : fs.inodes[n].direct_blocks[s] # 0})

BlocksCounted(fs) == fs.free_blocks = MAX_BLOCKS - Cardinality(fs.block_bitmap)

LEMMA FreeCounted ==
    ASSUME SetFacts, NEW fs, Core(fs), NEW n \in InUse(fs), NEW S \in SUBSET Slots, NEW gs,
           GivenBack(gs, fs, n, S)
    PROVE  BlocksCounted(gs)
  <1> DEFINE held == HeldBlocks(fs, n, S)
             T == {s \in S : fs.inodes[n].direct_blocks[s] # 0}
  <1>1. /\ Cardinality(T) \in Nat
        /\ Cardinality(fs.block_bitmap \ held) \in Nat
        /\ Cardinality(fs.block_bitmap) = Cardinality(fs.block_bitmap \ held) + Cardinality(T)
    <2>1. HeldCounted(fs, held, T)
      BY HeldCount, Zenon
    <2> QED
      BY <2>1, Zenon DEF HeldCounted
  <1>2. fs.free_blocks = MAX_BLOCKS - Cardinality(fs.block_bitmap)
    BY DEF Core, Counted
  <1> HIDE DEF held, T
  <1>3. fs.free_blocks + Cardinality(T) = MAX_BLOCKS - Cardinality(fs.block_bitmap \ held)
    BY <1>1, <1>2, Sizes
  <1> QED
    BY <1>3, Zenon DEF held, T, BlocksCounted, GivenBack

\* Slots are emptied and their blocks freed.
LEMMA CoreTruncate ==
    ASSUME SetFacts, NEW fs, Core(fs), NEW n \in InUse(fs), NEW size \in Nat, size < fs.inodes[n].size
    PROVE  Core(inode_truncate(fs, n, size)) /\ InUse(inode_truncate(fs, n, size)) = InUse(fs)
  <1> DEFINE gs == inode_truncate(fs, n, size)
             S == Beyond(fs.inodes[n], size)
  <1>1. fs \in FsType /\ BlocksMarked(fs) /\ Counted(fs)
    BY DEF Core
  <1>2. CutTo(gs, fs, n, size)
    BY <1>1, TruncateIs, Zenon
  <1> HIDE DEF gs
  <1>3. /\ gs \in FsType
        /\ \A m \in InodeNums \ {n} : gs.inodes[m] = fs.inodes[m]
        /\ gs.inodes[n] \in UsedInode
        /\ \A s \in Slots : gs.inodes[n].direct_blocks[s] =
                              IF s \in S THEN 0 ELSE fs.inodes[n].direct_blocks[s]
        /\ gs.inode_bitmap = fs.inode_bitmap
        /\ gs.block_bitmap = fs.block_bitmap \ HeldBlocks(fs, n, S)
        /\ gs.free_inodes = fs.free_inodes
        /\ gs.free_blocks =
             fs.free_blocks + Cardinality({s \in S : fs.inodes[n].direct_blocks[s] # 0})
    BY <1>2 DEF CutTo
  <1>4. S \in SUBSET Slots
    BY DEF Beyond
  <1> HIDE DEF S
  <1>5. InUse(gs) = InUse(fs)
    BY <1>1, <1>3, SameInUse, Zenon
  <1>6. \A m \in InUse(fs) : m # n => gs.inodes[m] = fs.inodes[m]
    BY <1>1, <1>3, UsedIs
  <1>7. \A b : b \in HeldBlocks(fs, n, S) <=> b # 0 /\ \E s \in S : b = fs.inodes[n].direct_blocks[s]
    BY DEF HeldBlocks
  <1>8. OneSlot(fs) /\ MarkedHeld(fs) /\ HeldMarked(fs)
    BY <1>1, BlocksMarkedIs, Zenon
  <1>9. \A m \in InUse(fs), s \in Slots :
            gs.inodes[m].direct_blocks[s] = IF m = n /\ s \in S THEN 0
                                            ELSE fs.inodes[m].direct_blocks[s]
    BY <1>3, <1>6
  <1>10. OneSlot(gs)
    BY <1>5, <1>8, <1>9 DEF OneSlot
  <1>11. MarkedHeld(gs)
    <2> SUFFICES ASSUME NEW b \in gs.block_bitmap
                 PROVE  \E m \in InUse(gs), s \in Slots : b = gs.inodes[m].direct_blocks[s]
      BY Zenon DEF MarkedHeld
    <2>1. b \in fs.block_bitmap /\ b \notin HeldBlocks(fs, n, S) /\ b # 0
      BY <1>1, <1>3, FsFields
    <2>2. PICK m \in InUse(fs), s \in Slots : b = fs.inodes[m].direct_blocks[s]
      BY <1>8, <2>1, Zenon DEF MarkedHeld
    <2>3. ~(m = n /\ s \in S)
      BY <1>7, <2>1, <2>2, Zenon
    <2>4. b = gs.inodes[m].direct_blocks[s]
      BY <1>9, <2>2, <2>3
    <2> QED
      BY <1>5, <2>4, Zenon
  <1>12. HeldMarked(gs)
    <2> SUFFICES ASSUME NEW m \in InUse(gs), NEW s \in Slots, gs.inodes[m].direct_blocks[s] # 0
                 PROVE  gs.inodes[m].direct_blocks[s] \in gs.block_bitmap
      BY Zenon DEF HeldMarked
    <2>1. m \in InUse(fs) /\ ~(m = n /\ s \in S)
          /\ gs.inodes[m].direct_blocks[s] = fs.inodes[m].direct_blocks[s]
      BY <1>5, <1>9
    <2>2. fs.inodes[m].direct_blocks[s] \in fs.block_bitmap
      BY <1>8, <2>1 DEF HeldMarked
    <2>3. ASSUME NEW t \in S, fs.inodes[m].direct_blocks[s] = fs.inodes[n].direct_blocks[t] PROVE FALSE
      BY <1>4, <1>8, <2>1, <2>3 DEF OneSlot
    <2> QED
      BY <1>3, <1>7, <2>1, <2>2, <2>3
  <1>13. Counted(gs)
    <2>1. gs.free_blocks = MAX_BLOCKS - Cardinality(gs.block_bitmap)
      <3>1. GivenBack(gs, fs, n, S)
        BY <1>3, Zenon DEF GivenBack
      <3>2. BlocksCounted(gs)
        BY <1>4, <3>1, FreeCounted, Zenon
      <3> QED
        BY <3>2, Zenon DEF BlocksCounted
    <2> QED
      BY <1>1, <1>3, <1>5, <2>1, Zenon DEF Counted
  <1> QED
    BY <1>3, <1>5, <1>10, <1>11, <1>12, <1>13, BlocksMarkedIs, Zenon DEF Core, gs

\* An i-node is freed with all its blocks.
LEMMA CoreDropInode ==
    ASSUME SetFacts, NEW fs, Core(fs), NEW n \in InUse(fs),
           \A s \in Slots : fs.inodes[n].direct_blocks[s] # 0 => s < fs.inodes[n].block_count
    PROVE  Core(DropInode(fs, n)) /\ InUse(DropInode(fs, n)) = InUse(fs) \ {n}
  <1> DEFINE gs == DropInode(fs, n)
             S == {s \in Slots : s < fs.inodes[n].block_count}
  <1>1. fs \in FsType /\ BlocksMarked(fs) /\ Counted(fs) /\ n \in InodeNums
    BY UsedIs DEF Core
  <1>2. InodeDropped(gs, fs, n)
    BY <1>1, DropInodeIs, Zenon
  <1> HIDE DEF gs
  <1>3. /\ gs \in FsType
        /\ \A m \in InodeNums \ {n} : gs.inodes[m] = fs.inodes[m]
        /\ gs.inodes[n] = StaleInode
        /\ gs.inode_bitmap = fs.inode_bitmap \ {n}
        /\ gs.block_bitmap = fs.block_bitmap \ HeldBlocks(fs, n, S)
        /\ OneMore(fs.free_inodes, gs.free_inodes)
        /\ gs.free_blocks =
             fs.free_blocks + Cardinality({s \in S : fs.inodes[n].direct_blocks[s] # 0})
    BY <1>2 DEF InodeDropped
  <1>4. /\ S \in SUBSET Slots
        /\ \A s \in Slots : fs.inodes[n].direct_blocks[s] # 0 => s \in S
    OBVIOUS
  <1> HIDE DEF S
  <1>5. ~StaleInode.in_use
    BY DEF StaleInode
  <1>6. InUse(gs) = InUse(fs) \ {n}
    BY <1>1, <1>3, <1>5 DEF InUse
  <1>7. \A m \in InUse(gs) : m # n /\ m \in InUse(fs) /\ gs.inodes[m] = fs.inodes[m]
    BY <1>1, <1>3, <1>6, UsedIs
  <1>8. \A b : b \in HeldBlocks(fs, n, S) <=> b # 0 /\ \E s \in S : b = fs.inodes[n].direct_blocks[s]
    BY DEF HeldBlocks
  <1>9. OneSlot(fs) /\ MarkedHeld(fs) /\ HeldMarked(fs)
    BY <1>1, BlocksMarkedIs, Zenon
  <1>10. OneSlot(gs)
    BY <1>7, <1>9 DEF OneSlot
  <1>11. MarkedHeld(gs)
    <2> SUFFICES ASSUME NEW b \in gs.block_bitmap
                 PROVE  \E m \in InUse(gs), s \in Slots : b = gs.inodes[m].direct_blocks[s]
      BY Zenon DEF MarkedHeld
    <2>1. b \in fs.block_bitmap /\ b \notin HeldBlocks(fs, n, S) /\ b # 0
      BY <1>1, <1>3, FsFields
    <2>2. PICK m \in InUse(fs), s \in Slots : b = fs.inodes[m].direct_blocks[s]
      BY <1>9, <2>1, Zenon DEF MarkedHeld
    <2>3. m # n
      BY <1>4, <1>8, <2>1, <2>2, Zenon
    <2>4. m \in InUse(gs) /\ b = gs.inodes[m].direct_blocks[s]
      BY <1>6, <1>7, <2>2, <2>3
    <2> QED
      BY <2>4, Zenon
  <1>12. HeldMarked(gs)
    <2> SUFFICES ASSUME NEW m \in InUse(gs), NEW s \in Slots, gs.inodes[m].direct_blocks[s] # 0
                 PROVE  gs.inodes[m].direct_blocks[s] \in gs.block_bitmap
      BY Zenon DEF HeldMarked
    <2>1. m \in InUse(fs) /\ m # n
          /\ gs.inodes[m].direct_blocks[s] = fs.inodes[m].direct_blocks[s]
      BY <1>7
    <2>2. fs.inodes[m].direct_blocks[s] \in fs.block_bitmap
      BY <1>9, <2>1 DEF HeldMarked
    <2>3. ASSUME NEW t \in S, fs.inodes[m].direct_blocks[s] = fs.inodes[n].direct_blocks[t] PROVE FALSE
      BY <1>4, <1>9, <2>1, <2>3 DEF OneSlot
    <2> QED
      BY <1>3, <1>8, <2>1, <2>2, <2>3
  <1>13. Counted(gs)
    <2>1. gs.free_blocks = MAX_BLOCKS - Cardinality(gs.block_bitmap)
      <3>1. GivenBack(gs, fs, n, S)
        BY <1>3, Zenon DEF GivenBack
      <3>2. BlocksCounted(gs)
        BY <1>4, <3>1, FreeCounted, Zenon
      <3> QED
        BY <3>2, Zenon DEF BlocksCounted
    <2>2. Cardinality(InUse(fs)) = Cardinality(InUse(gs)) + 1 /\ Cardinality(InUse(gs)) \in Nat
      <3>1. IsFiniteSet(InUse(fs)) /\ Cardinality(InUse(fs)) \in Nat
            /\ Cardinality(InUse(gs)) \in Nat
        BY <1>1, <1>3, Finite, Zenon
      <3>2. Cardinality(InUse(fs) \ {n}) = Cardinality(InUse(fs)) - 1
        <4>1. {n} \subseteq InUse(fs) /\ Cardinality({n}) = 1
          <5>1. Cardinality({} \cup {n}) = Cardinality({}) + 1 /\ IsFiniteSet({})
            <6>1. IsFiniteSet({})
              BY <3>1, FiniteSubset, Zenon
            <6> QED
              BY <6>1, CardinalityMore, Zenon
          <5>2. {} \cup {n} = {n}
            BY Zenon
          <5> QED
            BY <5>1, <5>2 DEF SetFacts
        <4> QED
          BY <3>1, <4>1, CardinalityLess
      <3> QED
        BY <1>6, <3>1, <3>2
    <2>3. /\ fs.free_inodes = MAX_INODE_COUNT - Cardinality(InUse(fs))
          /\ gs.free_inodes \in Int /\ fs.inode_bitmap = InUse(fs)
      BY <1>1, <1>3, FsFields, Zenon DEF Counted
    <2>4. gs.free_inodes = MAX_INODE_COUNT - Cardinality(InUse(gs))
      BY <1>3, <2>2, <2>3, Sizes DEF OneMore
    <2> QED
      BY <1>3, <1>6, <2>1, <2>3, <2>4, Zenon DEF Counted
  <1> QED
    BY <1>3, <1>6, <1>10, <1>11, <1>12, <1>13, BlocksMarkedIs, Zenon DEF Core, gs

\* At the start.
LEMMA CoreInitial ==
    ASSUME SetFacts
    PROVE  Core(InitialFs) /\ InUse(InitialFs) = {}
  <1> DEFINE gs == InitialFs
  <1>1. gs \in FsType
    <2>1. NoBytes \in [BlockOffsets -> Octets]
      BY DEF NoBytes, Octets
    <2> QED
      BY <2>1, Sizes DEF InitialFs, FsType
  <1>2. InUse(gs) = {}
    BY DEF InitialFs, InUse, StaleInode
  <1>3. /\ gs.block_bitmap = {} /\ gs.inode_bitmap = {}
        /\ gs.free_inodes = MAX_INODE_COUNT /\ gs.free_blocks = MAX_BLOCKS
    BY DEF InitialFs
  <1> HIDE DEF gs
  <1>4. OneSlot(gs) /\ MarkedHeld(gs) /\ HeldMarked(gs)
    BY <1>2, <1>3 DEF OneSlot, MarkedHeld, HeldMarked
  <1>5. Cardinality({}) = 0
    BY Zenon DEF SetFacts
  <1>6. Counted(gs)
    BY <1>2, <1>3, <1>5, Sizes DEF Counted
  <1> QED
    BY <1>1, <1>2, <1>4, <1>6, BlocksMarkedIs, Zenon DEF Core, gs

-----------------------------------------------------------------------------
(***************************************************************************)
(* The bytes of a file.                                                    *)
(***************************************************************************)

\* An i-node has the blocks that e bytes take, and no others.
Fits(ino, e) ==
    /\ ino.block_count <= DIRECT_BLOCKS
    /\ Covers(ino.block_count, e)
    /\ \A s \in Slots : ino.direct_blocks[s] # 0 <=> s < ino.block_count

\* The table between two operations.
TableInv(fs) == Core(fs) /\ \A n \in InUse(fs) : Fits(fs.inodes[n], fs.inodes[n].size)

\* Byte i of the file of n, counted from 0.
Byte(fs, n, i) ==
    fs.block_storage[fs.inodes[n].direct_blocks[i \div FS_BLOCK_SIZE]][i % FS_BLOCK_SIZE]

\* The slot of a byte.
HasByte(ino, i) ==
    /\ i \div FS_BLOCK_SIZE \in Slots
    /\ ino.direct_blocks[i \div FS_BLOCK_SIZE] \in Blocks \ {0}

LEMMA FitsByte ==
    ASSUME NEW ino \in UsedInode, NEW e \in Nat, Fits(ino, e), NEW i \in Nat, i < e
    PROVE  HasByte(ino, i)
  <1> DEFINE k == i \div FS_BLOCK_SIZE
             o == i % FS_BLOCK_SIZE
             c == ino.block_count
  <1>1. k \in Nat /\ o \in BlockOffsets /\ i = Start(k) + o
    BY DivMod, Zenon
  <1>2. c \in Nat /\ c <= DIRECT_BLOCKS /\ e <= Start(c)
        /\ (\A s \in Slots : ino.direct_blocks[s] # 0 <=> s < c)
        /\ ino.direct_blocks \in [Slots -> Blocks]
    BY UsedFields DEF Fits, Covers
  <1> HIDE DEF k, o, c
  <1>3. o \in Nat /\ Start(k) \in Nat /\ Start(c) \in Nat
    BY <1>1, <1>2, StartNat DEF BlockOffsets
  <1>4. k < c
    <2>1. CASE k = c
      BY <1>1, <1>2, <1>3, <2>1
    <2>2. CASE c < k
      <3>1. Start(c) + FS_BLOCK_SIZE <= Start(k)
        BY <1>1, <1>2, <2>2, StartMono
      <3> QED
        BY <1>1, <1>2, <1>3, <3>1, Sizes
    <2> QED
      BY <1>1, <1>2, <2>1, <2>2
  <1>5. k \in Slots
    BY <1>1, <1>2, <1>4, Sizes DEF Slots
  <1>6. ino.direct_blocks[k] \in Blocks \ {0}
    BY <1>2, <1>4, <1>5
  <1> QED
    BY <1>5, <1>6, Zenon DEF HasByte, k

\* The block that holds a byte is marked, and no other slot's.
LEMMA ByteOwned ==
    ASSUME NEW fs, Core(fs), NEW n \in InUse(fs), NEW i, HasByte(fs.inodes[n], i)
    PROVE  /\ fs.inodes[n].direct_blocks[i \div FS_BLOCK_SIZE] \in fs.block_bitmap
           /\ \A m \in InUse(fs), s \in Slots :
                fs.inodes[m].direct_blocks[s] = fs.inodes[n].direct_blocks[i \div FS_BLOCK_SIZE]
                => m = n /\ s = i \div FS_BLOCK_SIZE
  <1>1. OneSlot(fs) /\ HeldMarked(fs)
    BY BlocksMarkedIs, Zenon DEF Core
  <1> DEFINE k == i \div FS_BLOCK_SIZE
  <1>2. k \in Slots /\ fs.inodes[n].direct_blocks[k] # 0
    BY DEF HasByte
  <1> HIDE DEF k
  <1>3. fs.inodes[n].direct_blocks[k] \in fs.block_bitmap
    BY <1>1, <1>2, Zenon DEF HeldMarked
  <1>4. ASSUME NEW m \in InUse(fs), NEW s \in Slots,
               fs.inodes[m].direct_blocks[s] = fs.inodes[n].direct_blocks[k]
        PROVE  m = n /\ s = k
    <2>1. fs.inodes[m].direct_blocks[s] # 0
      BY <1>2, <1>4, Zenon
    <2> QED
      BY <1>1, <1>2, <1>4, <2>1 DEF OneSlot
  <1> QED
    BY <1>3, <1>4, Zenon DEF k

\* Bytes of different blocks are not within one another's run.
LEMMA Apart ==
    ASSUME NEW pos \in Nat, NEW len \in Nat, NEW i \in Nat, NEW k \in Nat, NEW idx \in Nat,
           NEW at \in Nat, NEW o \in Nat, pos = Start(idx) + at, i = Start(k) + o,
           at + len <= FS_BLOCK_SIZE, o < FS_BLOCK_SIZE, k # idx
    PROVE  i \notin pos .. (pos + len - 1)
  <1>1. Start(k) \in Nat /\ Start(idx) \in Nat /\ FS_BLOCK_SIZE \in Nat
    BY StartNat, Sizes
  <1>2. CASE k < idx
    <2>1. Start(k) + FS_BLOCK_SIZE <= Start(idx)
      BY <1>2, StartMono
    <2> QED
      BY <1>1, <2>1
  <1>3. CASE idx < k
    <2>1. Start(idx) + FS_BLOCK_SIZE <= Start(k)
      BY <1>3, StartMono
    <2> QED
      BY <1>1, <2>1
  <1> QED
    BY <1>2, <1>3

InOneBlock(pos, len) == (pos % FS_BLOCK_SIZE) + len <= FS_BLOCK_SIZE

\* Positions in one block, and positions in the data.
SameDistance(i, pos, o, at, len, done) ==
    /\ i \in pos .. (pos + len - 1) <=> o \in at .. (at + len - 1)
    /\ done + (i - pos) + 1 = done + o - at + 1

LEMMA SameStart ==
    ASSUME NEW a \in Nat, NEW at \in Nat, NEW o \in Nat, NEW len \in Nat, NEW done \in Nat,
           NEW pos, pos = a + at, NEW i, i = a + o
    PROVE  SameDistance(i, pos, o, at, len, done)
  BY DEF SameDistance

WithinData(i, pos, len, offset, done) ==
    /\ i \in offset .. (offset + (done + len) - 1)
    /\ done + (i - pos) + 1 = i - offset + 1

LEMMA InData ==
    ASSUME NEW offset \in Nat, NEW done \in Nat, NEW len \in Nat,
           NEW pos, pos = offset + done, NEW i \in pos .. (pos + len - 1)
    PROVE  WithinData(i, pos, len, offset, done)
  BY DEF WithinData

\* What writing len bytes at the position pos, within one block, changes.
PutAt(gs, fs, n, e, pos, len, data, done) ==
    /\ \A i \in Nat : i < e =>
         Byte(gs, n, i) = IF i \in pos .. (pos + len - 1) THEN data[done + (i - pos) + 1]
                          ELSE Byte(fs, n, i)
    /\ \A m \in InUse(fs), i \in Nat :
         m # n /\ HasByte(fs.inodes[m], i) => Byte(gs, m, i) = Byte(fs, m, i)

LEMMA BytesAfterPut ==
    ASSUME NEW fs, Core(fs), NEW n \in InUse(fs), NEW e \in Nat, Fits(fs.inodes[n], e),
           NEW pos \in Nat, NEW len \in Nat, pos + len <= e, len > 0,
           InOneBlock(pos, len),
           NEW data \in Seq(0 .. 255), NEW done \in Nat, done + len <= Len(data),
           NEW gs, BytesPut(gs, fs, fs.inodes[n].direct_blocks[pos \div FS_BLOCK_SIZE],
                            pos % FS_BLOCK_SIZE, len, data, done)
    PROVE  PutAt(gs, fs, n, e, pos, len, data, done)
  <1> DEFINE idx == pos \div FS_BLOCK_SIZE
             at == pos % FS_BLOCK_SIZE
             b == fs.inodes[n].direct_blocks[idx]
  <1>1. fs \in FsType /\ fs.inodes[n] \in UsedInode
    BY UsedIs DEF Core
  <1>2. idx \in Nat /\ at \in BlockOffsets /\ pos = Start(idx) + at
    BY DivMod, Zenon
  <1>3. HasByte(fs.inodes[n], pos)
    BY <1>1, FitsByte
  <1>4. idx \in Slots /\ b \in Blocks
    BY <1>3 DEF HasByte
  <1>5. \A m \in InUse(fs), s \in Slots : fs.inodes[m].direct_blocks[s] = b => m = n /\ s = idx
    BY <1>3, ByteOwned, ZenonT(30)
  <1>6. /\ gs.inodes = fs.inodes
        /\ \A c \in Blocks \ {b} : gs.block_storage[c] = fs.block_storage[c]
        /\ \A o \in BlockOffsets :
             gs.block_storage[b][o] = IF o \in at .. (at + len - 1) THEN data[done + o - at + 1]
                                      ELSE fs.block_storage[b][o]
    BY Zenon DEF BytesPut
  <1>7. at + len <= FS_BLOCK_SIZE
    BY DEF InOneBlock
  <1> HIDE DEF idx, at, b
  <1>8. ASSUME NEW m \in InUse(fs), NEW i \in Nat, m # n, HasByte(fs.inodes[m], i)
        PROVE  Byte(gs, m, i) = Byte(fs, m, i)
    <2> DEFINE c == fs.inodes[m].direct_blocks[i \div FS_BLOCK_SIZE]
    <2>1. c \in Blocks /\ c # b
      BY <1>5, <1>8, Zenon DEF HasByte
    <2>2. gs.block_storage[c] = fs.block_storage[c]
      BY <1>6, <2>1, Zenon
    <2> QED
      BY <1>6, <2>2, Zenon DEF Byte
  <1>9. ASSUME NEW i \in Nat, i < e
        PROVE  Byte(gs, n, i) = IF i \in pos .. (pos + len - 1) THEN data[done + (i - pos) + 1]
                                ELSE Byte(fs, n, i)
    <2> DEFINE k == i \div FS_BLOCK_SIZE
               o == i % FS_BLOCK_SIZE
               c == fs.inodes[n].direct_blocks[k]
    <2>1. k \in Nat /\ o \in BlockOffsets /\ i = Start(k) + o
      BY DivMod, Zenon
    <2>2. HasByte(fs.inodes[n], i)
      BY <1>1, <1>9, FitsByte
    <2>3. k \in Slots /\ c \in Blocks
      BY <2>2 DEF HasByte
    <2>4. Byte(gs, n, i) = gs.block_storage[c][o] /\ Byte(fs, n, i) = fs.block_storage[c][o]
      BY <1>6, Zenon DEF Byte
    <2> HIDE DEF k, o
    <2>5. CASE k = idx
      <3>1. c = b
        BY <2>5, Zenon DEF b
      <3> HIDE DEF c
      <3>2. Start(idx) \in Nat /\ at \in Nat /\ o \in Nat
        BY <1>2, <2>1, StartNat DEF BlockOffsets
      <3>3. pos = Start(idx) + at /\ i = Start(idx) + o
        BY <1>2, <2>1, <2>5, Zenon
      <3>4. /\ i \in pos .. (pos + len - 1) <=> o \in at .. (at + len - 1)
            /\ done + (i - pos) + 1 = done + o - at + 1
        <4>1. SameDistance(i, pos, o, at, len, done)
          BY <3>2, <3>3, SameStart, Zenon
        <4> QED
          BY <4>1, Zenon DEF SameDistance
      <3>5. Byte(gs, n, i) = IF o \in at .. (at + len - 1) THEN data[done + o - at + 1]
                             ELSE Byte(fs, n, i)
        BY <1>6, <2>1, <2>4, <3>1, Zenon
      <3> QED
        BY <3>4, <3>5, Zenon
    <2>6. CASE k # idx
      <3>1. c # b
        BY <1>5, <2>3, <2>6, Zenon
      <3>2. gs.block_storage[c] = fs.block_storage[c]
        BY <1>6, <2>3, <3>1
      <3>3. i \notin pos .. (pos + len - 1)
        <4>1. at \in Nat /\ o \in Nat /\ o < FS_BLOCK_SIZE
          BY <1>2, <2>1, Sizes DEF BlockOffsets
        <4> QED
          BY <1>2, <1>7, <2>1, <2>6, <4>1, Apart, Zenon
      <3> QED
        BY <2>4, <3>2, <3>3, Zenon
    <2> QED
      BY <2>5, <2>6
  <1> QED
    BY <1>8, <1>9, Zenon DEF PutAt

-----------------------------------------------------------------------------
(***************************************************************************)
(* The loop of inode_write.                                                *)
(***************************************************************************)

Reach(a, b) == IF b > a THEN b ELSE a

\* The slot of the position pos gets a block: it is the next slot.
LEMMA AddedFits ==
    ASSUME NEW fs, Core(fs), NEW n \in InUse(fs), NEW e \in Nat, Fits(fs.inodes[n], e),
           NEW idx \in Slots, NEW at \in Nat, Start(idx) + at <= e,
           NEW end \in Nat, Start(idx) + at < end, end <= Start(idx) + FS_BLOCK_SIZE,
           fs.inodes[n].direct_blocks[idx] = 0, NEW b \in Blocks \ {0}, NEW gs,
           AddedBlock(gs, fs, n, idx, b)
    PROVE  Fits(gs.inodes[n], end) /\ e < end
  <1> DEFINE c == fs.inodes[n].block_count
  <1>1. fs \in FsType /\ fs.inodes[n] \in UsedInode
    BY UsedIs DEF Core
  <1>2. c \in Nat /\ c <= DIRECT_BLOCKS /\ e <= Start(c)
        /\ \A s \in Slots : fs.inodes[n].direct_blocks[s] # 0 <=> s < c
    BY <1>1, UsedFields DEF Fits, Covers
  <1>3. gs.inodes[n].block_count = c + 1
        /\ \A s \in Slots : gs.inodes[n].direct_blocks[s] =
                              IF s = idx THEN b ELSE fs.inodes[n].direct_blocks[s]
    BY DEF AddedBlock, OneMore
  <1> HIDE DEF c
  <1>4. idx \in Nat /\ idx < DIRECT_BLOCKS /\ Start(idx) \in Nat /\ Start(c) \in Nat
        /\ FS_BLOCK_SIZE \in Nat \ {0}
    BY <1>2, Sizes, StartNat DEF Slots
  <1>5. idx = c
    <2>1. ~(idx < c)
      BY <1>2
    <2>2. ~(c < idx)
      <3>1. c < idx => Start(c) + FS_BLOCK_SIZE <= Start(idx)
        BY <1>2, <1>4, StartMono
      <3> QED
        BY <1>2, <1>4, <3>1
    <2> QED
      BY <1>2, <1>4, <2>1, <2>2
  <1>6. Start(c + 1) = Start(c) + FS_BLOCK_SIZE
    BY <1>2, StartNext
  <1>7. Covers(c + 1, end)
    <2>1. (c + 1) - 1 = c
      BY <1>2
    <2>2. end <= Start(c + 1) /\ Start(c) < end
      BY <1>4, <1>5, <1>6
    <2> QED
      BY <2>1, <2>2 DEF Covers
  <1>8. ASSUME NEW s \in Slots PROVE gs.inodes[n].direct_blocks[s] # 0 <=> s < c + 1
    <2>1. s \in Nat
      BY Sizes DEF Slots
    <2>2. CASE s = idx
      <3>1. gs.inodes[n].direct_blocks[s] = b /\ b # 0
        BY <1>3, <2>2
      <3> QED
        BY <1>5, <2>1, <2>2, <3>1
    <2>3. CASE s # idx
      <3>1. gs.inodes[n].direct_blocks[s] = fs.inodes[n].direct_blocks[s]
        BY <1>3, <2>3
      <3>2. s < c <=> s < c + 1
        BY <1>2, <1>5, <2>1, <2>3
      <3> QED
        BY <1>2, <3>1, <3>2
    <2> QED
      BY <2>2, <2>3
  <1>9. c + 1 <= DIRECT_BLOCKS
    BY <1>2, <1>4, <1>5, Sizes
  <1>10. e < end
    BY <1>2, <1>4, <1>5
  <1>11. Fits(gs.inodes[n], end)
    BY <1>3, <1>7, <1>8, <1>9 DEF Fits
  <1> QED
    BY <1>10, <1>11

\* Bytes in a block that the file has.
LEMMA KeptFits ==
    ASSUME NEW ino \in UsedInode, NEW e \in Nat, Fits(ino, e), NEW idx \in Slots,
           NEW end \in Nat, end <= Start(idx) + FS_BLOCK_SIZE, ino.direct_blocks[idx] # 0
    PROVE  Fits(ino, Reach(e, end))
  <1> DEFINE c == ino.block_count
             r == Reach(e, end)
  <1>1. c \in Nat /\ c <= DIRECT_BLOCKS /\ Covers(c, e)
        /\ \A s \in Slots : ino.direct_blocks[s] # 0 <=> s < c
    BY UsedFields DEF Fits
  <1>2. e <= Start(c) /\ (c > 0 => Start(c - 1) < e)
    BY <1>1 DEF Covers
  <1>3. r \in Nat /\ (r = e \/ r = end) /\ e <= r
    BY DEF Reach
  <1>4. idx \in Nat /\ idx < c /\ Start(idx) \in Nat /\ Start(c) \in Nat
        /\ FS_BLOCK_SIZE \in Nat
    BY <1>1, Sizes, StartNat DEF Slots
  <1> HIDE DEF c, r
  <1>5. Start(idx) + FS_BLOCK_SIZE <= Start(c)
    BY <1>1, <1>4, StartMono
  <1>6. r <= Start(c)
    BY <1>2, <1>3, <1>4, <1>5
  <1>7. c > 0 => Start(c - 1) < r
    <2>1. ASSUME c > 0 PROVE Start(c - 1) < r
      <3>1. c - 1 \in Nat
        BY <1>1, <2>1
      <3>2. Start(c - 1) \in Nat /\ Start(c - 1) < e
        BY <1>2, <2>1, <3>1, StartNat
      <3> QED
        BY <1>3, <3>2
    <2> QED
      BY <2>1
  <1>8. Covers(c, r)
    BY <1>6, <1>7 DEF Covers
  <1> QED
    BY <1>1, <1>8, Zenon DEF Fits, c, r

\* The bytes that a file has stay where they are when a slot gets a block.
LEMMA BytesAfterAdd ==
    ASSUME NEW fs, Core(fs), NEW n \in InUse(fs), NEW idx \in Slots, NEW b \in Blocks \ {0},
           b \notin fs.block_bitmap, fs.inodes[n].direct_blocks[idx] = 0, NEW gs,
           AddedBlock(gs, fs, n, idx, b)
    PROVE  \A m \in InUse(fs), i \in Nat :
              HasByte(fs.inodes[m], i) => Byte(gs, m, i) = Byte(fs, m, i)
  <1> SUFFICES ASSUME NEW m \in InUse(fs), NEW i \in Nat, HasByte(fs.inodes[m], i)
               PROVE  Byte(gs, m, i) = Byte(fs, m, i)
    BY Zenon
  <1> DEFINE k == i \div FS_BLOCK_SIZE
             c == fs.inodes[m].direct_blocks[k]
  <1>1. k \in Slots /\ c \in Blocks \ {0}
    BY Zenon DEF HasByte
  <1>2. c \in fs.block_bitmap
    BY ByteOwned, Zenon
  <1>3. fs \in FsType /\ m \in InodeNums
    BY UsedIs DEF Core
  <1> HIDE DEF k
  <1>4. gs.inodes[m].direct_blocks[k] = c
    <2>1. CASE m = n
      <3>1. k # idx
        BY <1>1, <2>1
      <3> QED
        BY <1>1, <2>1, <3>1 DEF AddedBlock
    <2>2. CASE m # n
      BY <1>3, <2>2 DEF AddedBlock
    <2> QED
      BY <2>1, <2>2
  <1>5. gs.block_storage[c] = fs.block_storage[c]
    BY <1>1, <1>2 DEF AddedBlock
  <1> QED
    BY <1>4, <1>5, Zenon DEF Byte, k

\* The bytes of one round stay in one block.
LEMMA ChunkIs ==
    ASSUME NEW pos \in Nat, NEW left \in Nat, left > 0
    PROVE  LET len == Chunk(pos, left)
               end == Start(pos \div FS_BLOCK_SIZE) + FS_BLOCK_SIZE
           IN  /\ len \in Nat /\ len > 0 /\ len <= left
               /\ InOneBlock(pos, len)
               /\ pos + len <= end
               /\ len = left \/ pos + len = end
  <1> DEFINE k == pos \div FS_BLOCK_SIZE
             at == pos % FS_BLOCK_SIZE
             len == Chunk(pos, left)
  <1>1. k \in Nat /\ at \in BlockOffsets /\ pos = Start(k) + at
    BY DivMod, Zenon
  <1>2. len = IF FS_BLOCK_SIZE - at > left THEN left ELSE FS_BLOCK_SIZE - at
    BY DEF Chunk
  <1>3. InOneBlock(pos, len) <=> at + len <= FS_BLOCK_SIZE
    BY DEF InOneBlock
  <1> HIDE DEF k, at, len
  <1>4. at \in Nat /\ at < FS_BLOCK_SIZE /\ Start(k) \in Nat /\ FS_BLOCK_SIZE \in Nat
    BY <1>1, StartNat, Sizes DEF BlockOffsets
  <1>5. /\ len \in Nat /\ len > 0 /\ len <= left
        /\ at + len <= FS_BLOCK_SIZE /\ (len = left \/ at + len = FS_BLOCK_SIZE)
    BY <1>2, <1>4
  <1>6. /\ pos + len <= Start(k) + FS_BLOCK_SIZE
        /\ len = left \/ pos + len = Start(k) + FS_BLOCK_SIZE
    BY <1>1, <1>4, <1>5
  <1> QED
    BY <1>3, <1>5, <1>6 DEF k, len

\* Byte i after done bytes of data were written at offset.
Written(fs, n, data, offset, done, i) ==
    IF i \in offset .. (offset + done - 1) THEN data[i - offset + 1] ELSE Byte(fs, n, i)

\* The loop started with fs: what holds of the table gs after done bytes.
Writing(gs, done, fs, n, data, offset) ==
    /\ Core(gs) /\ InUse(gs) = InUse(fs)
    /\ \A m \in InodeNums \ {n} : gs.inodes[m] = fs.inodes[m]
    /\ gs.inodes[n].size = fs.inodes[n].size
    /\ \A m \in InUse(fs) \ {n}, i \in Nat :
         HasByte(fs.inodes[m], i) => Byte(gs, m, i) = Byte(fs, m, i)
    /\ \A i \in Nat : i < Reach(fs.inodes[n].size, offset + done) =>
         Byte(gs, n, i) = Written(fs, n, data, offset, done, i)

\* A slot that has no block gets one.
LEMMA AddKeepsWriting ==
    ASSUME SetFacts, NEW fs, Core(fs), NEW n \in InUse(fs), NEW data, NEW offset \in Nat, NEW done \in Nat,
           NEW gs, Writing(gs, done, fs, n, data, offset), NEW idx \in Slots,
           Fits(gs.inodes[n], Reach(fs.inodes[n].size, offset + done)),
           gs.inodes[n].direct_blocks[idx] = 0, NEW b \in FreeBlocks(gs)
    PROVE  Writing(AddBlock(gs, n, idx, b), done, fs, n, data, offset)
  <1> DEFINE hs == AddBlock(gs, n, idx, b)
             r == Reach(fs.inodes[n].size, offset + done)
  <1>1. Core(gs) /\ InUse(gs) = InUse(fs) /\ n \in InUse(gs) /\ n \in InodeNums
        /\ gs \in FsType /\ fs \in FsType /\ gs.inodes[n] \in UsedInode
    BY UsedIs, Zenon DEF Writing, Core
  <1>2. b \in Blocks \ {0} /\ b \notin gs.block_bitmap
    BY Zenon DEF FreeBlocks
  <1>3. AddedBlock(hs, gs, n, idx, b)
    BY <1>1, <1>2, AddBlockIs, Zenon
  <1>4. Core(hs) /\ InUse(hs) = InUse(fs)
    BY <1>1, <1>2, CoreAddBlock
  <1>5. fs.inodes[n].size \in Nat
    BY <1>1, UsedIs, UsedFields, Zenon
  <1>6. r \in Nat
    BY <1>5 DEF Reach
  <1> HIDE DEF hs, r
  <1>7. \A m \in InUse(gs), i \in Nat :
            HasByte(gs.inodes[m], i) => Byte(hs, m, i) = Byte(gs, m, i)
    BY <1>1, <1>2, <1>3, BytesAfterAdd
  <1>8. \A m \in InodeNums \ {n} : hs.inodes[m] = gs.inodes[m]
    BY <1>3, Zenon DEF AddedBlock
  <1>9. hs.inodes[n].size = gs.inodes[n].size
    BY <1>3, Zenon DEF AddedBlock
  <1>10. \A m \in InodeNums \ {n} : hs.inodes[m] = fs.inodes[m] /\ gs.inodes[m] = fs.inodes[m]
    BY <1>8, Zenon DEF Writing
  <1>11. hs.inodes[n].size = fs.inodes[n].size
    BY <1>9, Zenon DEF Writing
  <1>12. ASSUME NEW m \in InUse(fs) \ {n}, NEW i \in Nat, HasByte(fs.inodes[m], i)
         PROVE  Byte(hs, m, i) = Byte(fs, m, i)
    <2>1. m \in InodeNums \ {n}
      BY <1>1, UsedIs
    <2>2. HasByte(gs.inodes[m], i)
      BY <1>10, <1>12, <2>1, Zenon
    <2>3. Byte(hs, m, i) = Byte(gs, m, i)
      BY <1>1, <1>7, <2>2, Zenon
    <2>4. Byte(gs, m, i) = Byte(fs, m, i)
      BY <1>12, Zenon DEF Writing
    <2> QED
      BY <2>3, <2>4, Zenon
  <1>13. ASSUME NEW i \in Nat, i < r PROVE Byte(hs, n, i) = Written(fs, n, data, offset, done, i)
    <2>1. HasByte(gs.inodes[n], i)
      BY <1>1, <1>6, <1>13, FitsByte, Zenon DEF r
    <2>2. Byte(hs, n, i) = Byte(gs, n, i)
      BY <1>1, <1>7, <2>1, Zenon
    <2>3. Byte(gs, n, i) = Written(fs, n, data, offset, done, i)
      BY <1>13, Zenon DEF Writing, r
    <2> QED
      BY <2>2, <2>3, Zenon
  <1> QED
    BY <1>4, <1>10, <1>11, <1>12, <1>13, Zenon DEF Writing, hs, r

LEMMA ReachFacts ==
    ASSUME NEW a \in Nat, NEW b \in Nat
    PROVE  Reach(a, b) \in Nat /\ a <= Reach(a, b) /\ b <= Reach(a, b)
           /\ (Reach(a, b) = a \/ Reach(a, b) = b)
  BY DEF Reach

\* Bytes of data go into a block of the file.
LEMMA PutKeepsWriting ==
    ASSUME NEW fs, Core(fs), NEW n \in InUse(fs), NEW data \in Seq(0 .. 255), NEW offset \in Nat,
           NEW done \in Nat, NEW gs, Writing(gs, done, fs, n, data, offset),
           NEW pos, pos = offset + done, NEW len \in Nat, len > 0, InOneBlock(pos, len),
           done + len <= Len(data),
           Fits(gs.inodes[n], Reach(fs.inodes[n].size, pos + len))
    PROVE  Writing(PutBytes(gs, gs.inodes[n].direct_blocks[pos \div FS_BLOCK_SIZE],
                            pos % FS_BLOCK_SIZE, len, data, done),
                   done + len, fs, n, data, offset)
  <1> DEFINE b == gs.inodes[n].direct_blocks[pos \div FS_BLOCK_SIZE]
             at == pos % FS_BLOCK_SIZE
             hs == PutBytes(gs, b, at, len, data, done)
             size == fs.inodes[n].size
             e == Reach(size, pos + len)
  <1>1. Core(gs) /\ InUse(gs) = InUse(fs) /\ n \in InUse(gs) /\ n \in InodeNums
        /\ gs \in FsType /\ fs \in FsType /\ gs.inodes[n] \in UsedInode
    BY UsedIs, Zenon DEF Writing, Core
  <1>2. size \in Nat
    BY <1>1, UsedIs, UsedFields, Zenon
  <1>3. pos \in Nat
    OBVIOUS
  <1>4. e \in Nat /\ size <= e /\ pos + len <= e /\ (e = size \/ e = pos + len)
    <2>1. pos + len \in Nat
      BY <1>3
    <2> QED
      BY <1>2, <2>1, ReachFacts, Zenon
  <1>5. Fits(gs.inodes[n], e)
    OBVIOUS
  <1> HIDE DEF e
  <1>6. HasByte(gs.inodes[n], pos)
    <2>1. pos < e
      BY <1>3, <1>4
    <2> QED
      BY <1>1, <1>3, <1>4, <1>5, <2>1, FitsByte, Zenon
  <1>7. b \in Blocks
    BY <1>6, Zenon DEF HasByte
  <1>8. at \in Nat
    BY <1>3, DivMod DEF BlockOffsets
  <1> HIDE DEF at, b
  <1>9. BytesPut(hs, gs, b, at, len, data, done)
    BY <1>1, <1>7, <1>8, PutBytesIs, Zenon
  <1>10. Core(hs) /\ InUse(hs) = InUse(fs)
    BY <1>1, <1>7, <1>8, CorePutBytes
  <1> HIDE DEF hs
  <1>11. hs.inodes = gs.inodes
    BY <1>9, Zenon DEF BytesPut
  <1>12. /\ \A i \in Nat : i < e =>
              Byte(hs, n, i) = IF i \in pos .. (pos + len - 1) THEN data[done + (i - pos) + 1]
                               ELSE Byte(gs, n, i)
         /\ \A m \in InUse(gs), i \in Nat :
              m # n /\ HasByte(gs.inodes[m], i) => Byte(hs, m, i) = Byte(gs, m, i)
    <2>1. BytesPut(hs, gs, gs.inodes[n].direct_blocks[pos \div FS_BLOCK_SIZE],
                   pos % FS_BLOCK_SIZE, len, data, done)
      BY <1>9 DEF b, at
    <2>2. PutAt(hs, gs, n, e, pos, len, data, done)
      BY <1>1, <1>3, <1>4, <1>5, <2>1, BytesAfterPut, SMTT(30)
    <2> QED
      BY <2>2, Zenon DEF PutAt
  <1>13. \A m \in InodeNums \ {n} : hs.inodes[m] = fs.inodes[m]
    BY <1>11, Zenon DEF Writing
  <1>14. hs.inodes[n].size = size
    BY <1>11, Zenon DEF Writing
  <1>15. ASSUME NEW m \in InUse(fs) \ {n}, NEW i \in Nat, HasByte(fs.inodes[m], i)
         PROVE  Byte(hs, m, i) = Byte(fs, m, i)
    <2>1. m \in InodeNums \ {n}
      BY <1>1, UsedIs
    <2>2. HasByte(gs.inodes[m], i)
      BY <1>11, <1>13, <1>15, <2>1, Zenon
    <2>3. Byte(hs, m, i) = Byte(gs, m, i)
      BY <1>1, <1>12, <2>2, Zenon
    <2>4. Byte(gs, m, i) = Byte(fs, m, i)
      BY <1>15, Zenon DEF Writing
    <2> QED
      BY <2>3, <2>4, Zenon
  <1>16. ASSUME NEW i \in Nat, i < e
         PROVE  Byte(hs, n, i) = Written(fs, n, data, offset, done + len, i)
    <2>1. CASE i \in pos .. (pos + len - 1)
      <3>1. i \in offset .. (offset + (done + len) - 1) /\ done + (i - pos) + 1 = i - offset + 1
        <4>1. WithinData(i, pos, len, offset, done)
          BY <2>1, InData, Zenon
        <4> QED
          BY <4>1, Zenon DEF WithinData
      <3>2. Byte(hs, n, i) = data[done + (i - pos) + 1]
        BY <1>12, <1>16, <2>1, Zenon
      <3> QED
        BY <3>1, <3>2 DEF Written
    <2>2. CASE i \notin pos .. (pos + len - 1)
      <3>1. Byte(hs, n, i) = Byte(gs, n, i)
        BY <1>12, <1>16, <2>2, Zenon
      <3>2. i < Reach(size, offset + done)
        BY <1>2, <1>3, <1>4, <1>16, <2>2 DEF Reach
      <3>3. Byte(gs, n, i) = Written(fs, n, data, offset, done, i)
        BY <3>2, Zenon DEF Writing
      <3>4. i \in offset .. (offset + (done + len) - 1) <=> i \in offset .. (offset + done - 1)
        BY <1>3, <2>2
      <3> QED
        BY <3>1, <3>3, <3>4, Zenon DEF Written
    <2> QED
      BY <2>1, <2>2, Zenon
  <1>17. offset + (done + len) = pos + len
    OBVIOUS
  <1> QED
    <2>1. \A i \in Nat : i < Reach(fs.inodes[n].size, offset + (done + len)) =>
            Byte(hs, n, i) = Written(fs, n, data, offset, done + len, i)
      BY <1>16, <1>17, Zenon DEF e
    <2> QED
      BY <1>10, <1>13, <1>14, <1>15, <2>1, Zenon DEF Writing, hs, b, at

\* The invariant of the loop.
WriteInv(s, fs, n, data, offset) ==
    /\ s.done \in 0 .. Len(data)
    /\ Writing(s.fs, s.done, fs, n, data, offset)
    /\ Fits(s.fs.inodes[n], Reach(fs.inodes[n].size, offset + s.done))

LEMMA WriteStepKeeps ==
    ASSUME SetFacts, NEW fs, Core(fs), NEW n \in InUse(fs), NEW data \in Seq(0 .. 255), NEW offset \in Nat,
           NEW s, WriteInv(s, fs, n, data, offset)
    PROVE  WriteInv(WriteStep(n, data, offset, s), fs, n, data, offset)
  <1> DEFINE gs == s.fs
             done == s.done
             pos == offset + done
             idx == pos \div FS_BLOCK_SIZE
             at == pos % FS_BLOCK_SIZE
             len == Chunk(pos, Len(data) - done)
             missing == gs.inodes[n].direct_blocks[idx] = 0
             b == Least(FreeBlocks(gs))
             hs == IF missing THEN AddBlock(gs, n, idx, b) ELSE gs
             c == hs.inodes[n].direct_blocks[idx]
             stops == done >= Len(data) \/ idx >= DIRECT_BLOCKS \/ (missing /\ FreeBlocks(gs) = {})
             size == fs.inodes[n].size
             t == [fs |-> PutBytes(hs, c, at, len, data, done), done |-> done + len]
  <1>1. WriteStep(n, data, offset, s) = IF stops THEN s ELSE t
    BY Zenon DEF WriteStep
  <1>2. CASE stops
    BY <1>1, <1>2, Zenon
  <1>3. CASE ~stops
    <2>1. done \in Nat /\ Len(data) \in Nat /\ done < Len(data) /\ pos \in Nat
          /\ Len(data) - done \in Nat /\ Len(data) - done > 0
      <3>1. done \in 0 .. Len(data) /\ ~(done >= Len(data))
        BY <1>3, Zenon DEF WriteInv
      <3>2. Len(data) \in Nat
        OBVIOUS
      <3> HIDE DEF done
      <3> QED
        BY <3>1, <3>2
    <2>2. /\ Writing(gs, done, fs, n, data, offset)
          /\ Fits(gs.inodes[n], Reach(size, pos))
      BY Zenon DEF WriteInv
    <2>3. Core(gs) /\ InUse(gs) = InUse(fs) /\ gs \in FsType /\ fs \in FsType
          /\ gs.inodes[n] \in UsedInode
      BY <2>2, UsedIs, Zenon DEF Writing, Core
    <2>4. size \in Nat
      BY <2>3, UsedIs, UsedFields, Zenon
    <2>5. ~(idx >= DIRECT_BLOCKS) /\ ~(missing /\ FreeBlocks(gs) = {})
      BY <1>3, Zenon
    <2>6. t.fs = PutBytes(hs, c, at, len, data, done) /\ t.done = done + len
      BY Zenon
    <2> HIDE DEF gs, done, pos, size
    <2>7. idx \in Nat /\ at \in Nat /\ pos = Start(idx) + at
      <3>1. idx \in Nat /\ at \in BlockOffsets /\ pos = Start(idx) + at
        BY <2>1, DivMod, Zenon
      <3> HIDE DEF idx, at
      <3> QED
        BY <3>1, Sizes DEF BlockOffsets
    <2>8. /\ len \in Nat /\ len > 0 /\ len <= Len(data) - done
          /\ InOneBlock(pos, len)
          /\ pos + len <= Start(idx) + FS_BLOCK_SIZE
      BY <2>1, ChunkIs, Zenon
    <2>9. idx \in Slots
      <3> HIDE DEF idx
      <3> QED
        BY <2>5, <2>7, Sizes DEF Slots
    <2> HIDE DEF len, t, stops
    <2> DEFINE e == Reach(size, pos)
               end == pos + len
    <2>10. e \in Nat /\ pos <= e /\ end \in Nat /\ pos < end /\ size <= e /\ (e = size \/ e = pos)
      <3>1. e \in Nat /\ pos <= e /\ size <= e /\ (e = size \/ e = pos)
        BY <2>1, <2>4, ReachFacts, Zenon
      <3> HIDE DEF e
      <3> QED
        BY <2>1, <2>8, <3>1
    <2>11. Reach(e, end) = Reach(size, end) /\ (e < end => Reach(size, end) = end)
      <3> HIDE DEF end
      <3>1. size <= e /\ (e = size \/ e = pos) /\ pos < end
        BY <2>10
      <3> HIDE DEF e
      <3> QED
        BY <2>1, <2>4, <2>10, <3>1 DEF Reach
    <2>12. /\ Writing(hs, done, fs, n, data, offset)
           /\ Fits(hs.inodes[n], Reach(size, end))
      <3>1. CASE missing
        <4>1. b \in FreeBlocks(gs)
          <5>1. FreeBlocks(gs) # {}
            BY <2>5, <3>1, Zenon
          <5>2. FreeBlocks(gs) \subseteq Nat
            BY Sizes DEF FreeBlocks, Blocks
          <5> QED
            BY <5>1, <5>2, LeastIs, Zenon
        <4>2. hs = AddBlock(gs, n, idx, b)
          BY <3>1, Zenon
        <4>3. b \in Blocks \ {0} /\ n \in InUse(gs) /\ gs.inodes[n].direct_blocks[idx] = 0
          BY <2>3, <3>1, <4>1, Zenon DEF FreeBlocks
        <4> HIDE DEF b, hs, idx, e, end, at
        <4>4. Writing(hs, done, fs, n, data, offset)
          BY <2>1, <2>2, <2>9, <4>1, <4>2, <4>3, AddKeepsWriting, Zenon DEF pos, size
        <4>5. AddedBlock(hs, gs, n, idx, b)
          BY <2>3, <2>9, <4>2, <4>3, AddBlockIs, Zenon
        <4>6. Fits(hs.inodes[n], end) /\ e < end
          <5>1. Start(idx) + at <= e /\ Start(idx) + at < end /\ end <= Start(idx) + FS_BLOCK_SIZE
            BY <2>7, <2>8, <2>10 DEF end
          <5>2. Fits(gs.inodes[n], e)
            BY <2>2, Zenon DEF e
          <5> QED
            BY <2>3, <2>7, <2>9, <2>10, <4>3, <4>5, <5>1, <5>2, AddedFits
        <4> QED
          BY <2>11, <4>4, <4>6, Zenon
      <3>2. CASE ~missing
        <4>1. hs = gs
          BY <3>2, Zenon
        <4>2. gs.inodes[n].direct_blocks[idx] # 0
          BY <3>2, Zenon
        <4>3. Fits(gs.inodes[n], e) /\ end <= Start(idx) + FS_BLOCK_SIZE
          BY <2>2, <2>8, Zenon
        <4> HIDE DEF hs, idx, e, end
        <4>4. Fits(gs.inodes[n], Reach(e, end))
          BY <2>3, <2>9, <2>10, <4>2, <4>3, KeptFits, Zenon
        <4> QED
          BY <2>2, <2>11, <4>1, <4>4, Zenon
      <3> QED
        BY <3>1, <3>2, Zenon
    <2> HIDE DEF hs
    <2>13. done + len \in 0 .. Len(data) /\ done + len <= Len(data)
      BY <2>1, <2>8
    <2>14. Writing(t.fs, done + len, fs, n, data, offset)
      <3>1. Writing(PutBytes(hs, hs.inodes[n].direct_blocks[pos \div FS_BLOCK_SIZE],
                             pos % FS_BLOCK_SIZE, len, data, done),
                    done + len, fs, n, data, offset)
        BY <2>1, <2>8, <2>12, <2>13, PutKeepsWriting DEF pos, size
      <3> QED
        BY <2>6, <3>1, Zenon
    <2>15. t.fs.inodes = hs.inodes
      <3>1. t.fs = PutBytes(hs, c, at, len, data, done)
        BY <2>6
      <3>2. hs \in FsType
        BY <2>12, Zenon DEF Writing, Core
      <3>3. [hs EXCEPT !.block_storage[c] =
               [o \in BlockOffsets |-> IF o \in at .. (at + len - 1) THEN data[done + o - at + 1]
                                       ELSE hs.block_storage[c][o]]].inodes = hs.inodes
        BY <3>2 DEF FsType
      <3> QED
        BY <3>1, <3>3, Zenon DEF PutBytes
    <2>16. WriteInv(t, fs, n, data, offset)
      <3>1. pos + len = offset + (done + len)
        BY <2>1, <2>8 DEF pos
      <3> QED
        BY <2>6, <2>12, <2>13, <2>14, <2>15, <3>1, Zenon DEF WriteInv, size
    <2> QED
      BY <1>1, <1>3, <2>16, Zenon
  <1> QED
    BY <1>2, <1>3, Zenon

\* The rounds up to k, of a loop that starts with fs.
IsWrites(W, fs, n, data, offset, k) ==
    W = [r \in 0 .. k |-> IF r = 0 THEN [fs |-> fs, done |-> 0]
                          ELSE WriteStep(n, data, offset, W[r - 1])]

LEMMA WritesExist ==
    ASSUME SetFacts, NEW fs, NEW n, NEW data, NEW offset, NEW last \in Nat
    PROVE  \E W : IsWrites(W, fs, n, data, offset, last)
  <1> DEFINE s0 == [fs |-> fs, done |-> 0]
             G == {k \in 0 .. last : \E W : IsWrites(W, fs, n, data, offset, k)}
  <1>1. 0 \in G
    <2> DEFINE T == [r \in 0 .. 0 |-> s0]
    <2>1. T = [r \in 0 .. 0 |-> IF r = 0 THEN s0 ELSE WriteStep(n, data, offset, T[r - 1])]
      <3>1. \A r \in 0 .. 0 : r = 0
        OBVIOUS
      <3> QED
        BY <3>1, Zenon
    <2>2. IsWrites(T, fs, n, data, offset, 0)
      BY <2>1, Zenon DEF IsWrites
    <2> HIDE DEF T
    <2> QED
      BY <2>2
  <1>2. ASSUME NEW m \in 1 .. last, m - 1 \in G PROVE m \in G
    <2>1. PICK W : IsWrites(W, fs, n, data, offset, m - 1)
      BY <1>2
    <2> DEFINE T == [r \in 0 .. m |-> IF r = m THEN WriteStep(n, data, offset, W[m - 1]) ELSE W[r]]
    <2> HIDE DEF s0
    <2>2. \A r \in 0 .. (m - 1) : W[r] = IF r = 0 THEN s0 ELSE WriteStep(n, data, offset, W[r - 1])
      BY <2>1, Zenon DEF IsWrites, s0
    <2>3. ASSUME NEW r \in 0 .. m
          PROVE  T[r] = IF r = 0 THEN s0 ELSE WriteStep(n, data, offset, T[r - 1])
      <3>1. CASE r = m
        <4>1. m \in 0 .. m /\ m - 1 \in 0 .. m /\ m - 1 # m /\ m # 0
          OBVIOUS
        <4>2. T[m - 1] = W[m - 1] /\ T[m] = WriteStep(n, data, offset, W[m - 1])
          BY <4>1, Zenon
        <4> QED
          BY <3>1, <4>1, <4>2, Zenon
      <3>2. CASE r # m
        <4>1. r \in 0 .. (m - 1) /\ (r # 0 => r - 1 \in 0 .. m /\ r - 1 # m)
          BY <3>2
        <4>2. T[r] = W[r] /\ (r # 0 => T[r - 1] = W[r - 1])
          BY <3>2, <4>1, Zenon
        <4> QED
          BY <2>2, <4>1, <4>2, Zenon
      <3> QED
        BY <3>1, <3>2, Zenon
    <2>4. T = [r \in 0 .. m |-> T[r]]
      BY Zenon
    <2> HIDE DEF T
    <2>5. T = [r \in 0 .. m |-> IF r = 0 THEN s0 ELSE WriteStep(n, data, offset, T[r - 1])]
      BY <2>3, <2>4
    <2>6. IsWrites(T, fs, n, data, offset, m)
      BY <2>5, Zenon DEF IsWrites, s0
    <2>7. m \in 0 .. last
      OBVIOUS
    <2> QED
      BY <2>6, <2>7, Zenon
  <1> HIDE DEF G
  <1>3. last \in G
    <2>1. \A k \in 0 .. last : k \in G
      BY <1>1, <1>2, UpTo, Zenon
    <2>2. last \in 0 .. last
      OBVIOUS
    <2> QED
      BY <2>1, <2>2, Zenon
  <1> QED
    BY <1>3, Zenon DEF G

LEMMA WriteRoundsAre ==
    ASSUME SetFacts, NEW fs, NEW n, NEW data, NEW offset
    PROVE  LET W == WriteRounds(fs, n, data, offset)
           IN  /\ W[0] = [fs |-> fs, done |-> 0]
               /\ \A r \in 1 .. DIRECT_BLOCKS : W[r] = WriteStep(n, data, offset, W[r - 1])
  <1> DEFINE P(T) == T = [r \in 0 .. DIRECT_BLOCKS |->
                            IF r = 0 THEN [fs |-> fs, done |-> 0]
                            ELSE WriteStep(n, data, offset, T[r - 1])]
             W == WriteRounds(fs, n, data, offset)
  <1>1. W = CHOOSE T : P(T)
    BY Zenon DEF WriteRounds
  <1>2. \E T : P(T)
    <2>1. DIRECT_BLOCKS \in Nat
      BY Sizes
    <2>2. PICK T : IsWrites(T, fs, n, data, offset, DIRECT_BLOCKS)
      BY <2>1, WritesExist, Zenon
    <2> QED
      BY <2>2, Zenon DEF IsWrites
  <1> HIDE DEF P, W
  <1>3. P(W)
    BY <1>1, <1>2, Zenon
  <1>4. \A r \in 0 .. DIRECT_BLOCKS : W[r] = IF r = 0 THEN [fs |-> fs, done |-> 0]
                                             ELSE WriteStep(n, data, offset, W[r - 1])
    BY <1>3, Zenon DEF P
  <1>5. 0 \in 0 .. DIRECT_BLOCKS /\ \A r \in 1 .. DIRECT_BLOCKS : r \in 0 .. DIRECT_BLOCKS /\ r # 0
    BY Sizes
  <1> QED
    BY <1>4, <1>5, Zenon DEF W

\* What inode_write does to the table.
Wrote(gs, w, fs, n, data, offset) ==
    /\ TableInv(gs) /\ InUse(gs) = InUse(fs)
    /\ w \in 0 .. Len(data)
    /\ gs.inodes[n].size = Reach(fs.inodes[n].size, offset + w)
    /\ \A m \in InUse(fs) \ {n} : gs.inodes[m] = fs.inodes[m]
    /\ \A m \in InUse(fs) \ {n}, i \in Nat :
         i < fs.inodes[m].size => Byte(gs, m, i) = Byte(fs, m, i)
    /\ \A i \in Nat : i < gs.inodes[n].size =>
         Byte(gs, n, i) = Written(fs, n, data, offset, w, i)

LEMMA RoundsKeep ==
    ASSUME SetFacts, NEW fs, TableInv(fs), NEW n \in InUse(fs), NEW data \in Seq(0 .. 255), NEW offset \in Nat,
           offset <= fs.inodes[n].size
    PROVE  WriteInv(WriteRounds(fs, n, data, offset)[DIRECT_BLOCKS], fs, n, data, offset)
  <1> DEFINE W == WriteRounds(fs, n, data, offset)
             G == {r \in 0 .. DIRECT_BLOCKS : WriteInv(W[r], fs, n, data, offset)}
             s0 == [fs |-> fs, done |-> 0]
             size == fs.inodes[n].size
  <1>1. W[0] = s0 /\ \A r \in 1 .. DIRECT_BLOCKS : W[r] = WriteStep(n, data, offset, W[r - 1])
    BY WriteRoundsAre
  <1> HIDE DEF W
  <1>2. Core(fs) /\ Fits(fs.inodes[n], size)
    BY Zenon DEF TableInv
  <1>3. s0.fs = fs /\ s0.done = 0
    OBVIOUS
  <1>4. size \in Nat
    BY <1>2, UsedIs, UsedFields, Zenon DEF Core
  <1>5. Reach(size, offset + 0) = size
    <2> HIDE DEF size
    <2>1. offset <= size
      BY DEF size
    <2> QED
      BY <1>4, <2>1 DEF Reach
  <1>6. \A i : Written(fs, n, data, offset, 0, i) = Byte(fs, n, i)
    <2>1. offset .. (offset + 0 - 1) = {}
      OBVIOUS
    <2> QED
      BY <2>1, Zenon DEF Written
  <1>7. Writing(fs, 0, fs, n, data, offset)
    BY <1>2, <1>6, Zenon DEF Writing
  <1>8. 0 \in G
    <2>1. 0 \in 0 .. Len(data) /\ 0 \in 0 .. DIRECT_BLOCKS
      BY Sizes
    <2> HIDE DEF s0
    <2>2. WriteInv(s0, fs, n, data, offset)
      BY <1>2, <1>3, <1>5, <1>7, <2>1, Zenon DEF WriteInv, size
    <2> QED
      BY <1>1, <2>1, <2>2, Zenon
  <1>9. \A r \in 1 .. DIRECT_BLOCKS : r - 1 \in G => r \in G
    <2> TAKE r \in 1 .. DIRECT_BLOCKS
    <2> HAVE r - 1 \in G
    <2>1. WriteInv(W[r - 1], fs, n, data, offset)
      OBVIOUS
    <2>2. WriteInv(WriteStep(n, data, offset, W[r - 1]), fs, n, data, offset)
      BY <1>2, <2>1, WriteStepKeeps, Zenon
    <2>3. r \in 0 .. DIRECT_BLOCKS
      BY Sizes
    <2> QED
      BY <1>1, <2>2, <2>3, Zenon
  <1> HIDE DEF G
  <1>10. DIRECT_BLOCKS \in Nat /\ DIRECT_BLOCKS \in 0 .. DIRECT_BLOCKS
    BY Sizes
  <1>11. DIRECT_BLOCKS \in G
    BY <1>8, <1>9, <1>10, UpTo, Zenon
  <1> QED
    BY <1>11, Zenon DEF G, W

LEMMA InodeWriteIs ==
    ASSUME SetFacts, NEW fs, TableInv(fs), NEW n \in InUse(fs), NEW data \in Seq(0 .. 255), NEW offset \in Nat,
           offset <= fs.inodes[n].size
    PROVE  LET r == inode_write(fs, n, data, offset)
           IN  Wrote(r.fs, r.ret, fs, n, data, offset)
  <1> DEFINE s == WriteRounds(fs, n, data, offset)[DIRECT_BLOCKS]
             ws == s.fs
             w == s.done
             end == offset + w
             size == fs.inodes[n].size
             gs == IF end > ws.inodes[n].size THEN [ws EXCEPT !.inodes[n].size = end] ELSE ws
  <1>1. inode_write(fs, n, data, offset).fs = gs /\ inode_write(fs, n, data, offset).ret = w
    BY DEF inode_write
  <1>2. WriteInv(s, fs, n, data, offset)
    BY RoundsKeep, Zenon
  <1> HIDE DEF s
  <1>3. /\ w \in 0 .. Len(data)
        /\ Writing(ws, w, fs, n, data, offset)
        /\ Fits(ws.inodes[n], Reach(size, end))
    BY <1>2, Zenon DEF WriteInv
  <1>4. /\ Core(ws) /\ InUse(ws) = InUse(fs)
        /\ \A m \in InodeNums \ {n} : ws.inodes[m] = fs.inodes[m]
        /\ ws.inodes[n].size = size
        /\ \A m \in InUse(fs) \ {n}, i \in Nat :
             HasByte(fs.inodes[m], i) => Byte(ws, m, i) = Byte(fs, m, i)
        /\ \A i \in Nat : i < Reach(size, end) => Byte(ws, n, i) = Written(fs, n, data, offset, w, i)
    BY <1>3, Zenon DEF Writing
  <1>5. Core(fs) /\ fs \in FsType /\ ws \in FsType /\ n \in InUse(ws)
        /\ \A m \in InUse(fs) : Fits(fs.inodes[m], fs.inodes[m].size)
    BY <1>4, Zenon DEF TableInv, Core
  <1>6. size \in Nat /\ n \in InodeNums /\ ws.inodes[n] \in UsedInode
    BY <1>5, UsedIs, UsedFields, Zenon
  <1>7. end \in Nat
    BY <1>3
  <1> HIDE DEF ws, w, end, size
  <1> DEFINE Same == /\ Core(gs) /\ InUse(gs) = InUse(fs)
                     /\ \A m \in InodeNums \ {n} : gs.inodes[m] = ws.inodes[m]
                     /\ gs.inodes[n].size = Reach(size, end)
                     /\ gs.inodes[n].block_count = ws.inodes[n].block_count
                     /\ gs.inodes[n].direct_blocks = ws.inodes[n].direct_blocks
                     /\ gs.block_storage = ws.block_storage
  <1>8. Same
    <2>1. CASE end > size
      <3>1. gs = [ws EXCEPT !.inodes[n].size = end]
        BY <1>4, <2>1, Zenon
      <3>2. Reach(size, end) = end
        BY <2>1, Zenon DEF Reach
      <3> DEFINE hs == [ws EXCEPT !.inodes[n].size = end]
      <3>3. Core(hs) /\ InUse(hs) = InUse(ws)
        BY <1>4, <1>5, <1>7, CoreSize, Zenon
      <3>4. SizeSet(hs, ws, n, end)
        BY <1>5, <1>7, SizeIs, Zenon
      <3> HIDE DEF hs, gs
      <3>5. gs = hs
        BY <3>1, Zenon DEF hs
      <3> QED
        BY <1>4, <3>2, <3>3, <3>4, <3>5, Zenon DEF SizeSet
    <2>2. CASE ~(end > size)
      <3>1. gs = ws
        BY <1>4, <2>2, Zenon
      <3>2. Reach(size, end) = size
        BY <2>2, Zenon DEF Reach
      <3> HIDE DEF gs
      <3> QED
        BY <1>4, <3>1, <3>2, Zenon
    <2> QED
      BY <2>1, <2>2, Zenon
  <1> HIDE DEF gs
  <1>9. Fits(gs.inodes[n], gs.inodes[n].size)
    BY <1>3, <1>8, Zenon DEF Fits
  <1>10. \A m \in InUse(fs) \ {n} : gs.inodes[m] = fs.inodes[m]
    <2>1. \A m \in InUse(fs) : m \in InodeNums
      BY <1>5, UsedIs, Zenon
    <2> QED
      BY <1>4, <1>8, <2>1, Zenon
  <1>11. TableInv(gs)
    BY <1>5, <1>8, <1>9, <1>10, Zenon DEF TableInv
  <1>12. \A m \in InUse(fs), i \in Nat : Byte(gs, m, i) = Byte(ws, m, i)
    <2>1. \A m \in InUse(fs) : gs.inodes[m].direct_blocks = ws.inodes[m].direct_blocks
      <3>1. \A m \in InUse(fs) : m \in InodeNums
        BY <1>5, UsedIs, Zenon
      <3> QED
        BY <1>8, <3>1, Zenon
    <2> QED
      BY <1>8, <2>1, Zenon DEF Byte
  <1>13. ASSUME NEW m \in InUse(fs) \ {n}, NEW i \in Nat, i < fs.inodes[m].size
         PROVE  Byte(gs, m, i) = Byte(fs, m, i)
    <2>1. fs.inodes[m] \in UsedInode /\ Fits(fs.inodes[m], fs.inodes[m].size)
      BY <1>5, UsedIs, Zenon
    <2>2. fs.inodes[m].size \in Nat
      BY <2>1, UsedFields, Zenon
    <2>3. HasByte(fs.inodes[m], i)
      BY <1>13, <2>1, <2>2, FitsByte, Zenon
    <2> QED
      BY <1>4, <1>12, <2>3, Zenon
  <1>14. \A i \in Nat : i < gs.inodes[n].size => Byte(gs, n, i) = Written(fs, n, data, offset, w, i)
    BY <1>4, <1>8, <1>12, Zenon
  <1>15. Wrote(gs, w, fs, n, data, offset)
    BY <1>3, <1>8, <1>10, <1>11, <1>13, <1>14, Zenon DEF Wrote, size, end
  <1> QED
    BY <1>1, <1>15, Zenon

-----------------------------------------------------------------------------
(***************************************************************************)
(* The loop of inode_read.                                                 *)
(***************************************************************************)
\* k bytes of a file, from offset on.
Slice(fs, n, offset, k) == [i \in 1 .. k |-> Byte(fs, n, offset + i - 1)]

\* One round's bytes: those of one block.
Piece(fs, b, at, len) == [i \in 1 .. len |-> fs.block_storage[b][at + i - 1]]

LEMMA IsSequence ==
    ASSUME NEW k \in Nat, NEW T, NEW f \in [1 .. k -> T]
    PROVE  f \in Seq(T) /\ Len(f) = k
  OBVIOUS

\* The byte j of a run within one block.
LEMMA RunByte ==
    ASSUME NEW pos \in Nat, NEW len \in Nat, InOneBlock(pos, len), NEW j \in 1 .. len
    PROVE  /\ (pos + j - 1) \div FS_BLOCK_SIZE = pos \div FS_BLOCK_SIZE
           /\ (pos + j - 1) % FS_BLOCK_SIZE = (pos % FS_BLOCK_SIZE) + j - 1
           /\ (pos % FS_BLOCK_SIZE) + j - 1 \in BlockOffsets
  <1> DEFINE k == pos \div FS_BLOCK_SIZE
             at == pos % FS_BLOCK_SIZE
  <1>1. k \in Nat /\ at \in BlockOffsets /\ pos = Start(k) + at /\ at + len <= FS_BLOCK_SIZE
    BY DivMod DEF InOneBlock
  <1> HIDE DEF k, at
  <1>2. pos + j - 1 \in Nat /\ at + j - 1 \in BlockOffsets /\ pos + j - 1 = Start(k) + (at + j - 1)
    <2>1. Start(k) \in Nat
      BY <1>1, StartNat
    <2> QED
      BY <1>1, <2>1, Sizes DEF BlockOffsets
  <1> DEFINE p == pos + j - 1
             o == at + j - 1
  <1>3. p \in Nat /\ o \in BlockOffsets /\ p = Start(k) + o
    BY <1>2
  <1> HIDE DEF p, o
  <1>4. p \div FS_BLOCK_SIZE = k /\ p % FS_BLOCK_SIZE = o
    BY <1>1, <1>3, DivModUnique
  <1> QED
    BY <1>3, <1>4 DEF p, o, k, at

LEMMA SliceType ==
    ASSUME NEW fs, TableInv(fs), NEW n \in InUse(fs), NEW offset \in Nat, NEW k \in Nat,
           offset + k <= fs.inodes[n].size
    PROVE  Slice(fs, n, offset, k) \in Seq(Octets) /\ Len(Slice(fs, n, offset, k)) = k
  <1> DEFINE size == fs.inodes[n].size
  <1>1. fs \in FsType /\ Fits(fs.inodes[n], size)
    BY Zenon DEF TableInv, Core
  <1>2. fs.inodes[n] \in UsedInode /\ size \in Nat
    BY <1>1, UsedIs, UsedFields, Zenon
  <1>3. offset + k <= size
    OBVIOUS
  <1> HIDE DEF size
  <1>4. ASSUME NEW i \in 1 .. k PROVE Byte(fs, n, offset + i - 1) \in Octets
    <2> DEFINE p == offset + i - 1
    <2>1. p \in Nat /\ p < size
      BY <1>2, <1>3
    <2> HIDE DEF p
    <2>2. HasByte(fs.inodes[n], p)
      BY <1>1, <1>2, <2>1, FitsByte, Zenon
    <2>3. fs.block_storage \in [Blocks -> [BlockOffsets -> Octets]]
      BY <1>1, FsFields, Zenon
    <2>4. p % FS_BLOCK_SIZE \in BlockOffsets
      BY <2>1, DivMod, Zenon
    <2>5. Byte(fs, n, p) \in Octets
      <3> DEFINE b == fs.inodes[n].direct_blocks[p \div FS_BLOCK_SIZE]
                 o == p % FS_BLOCK_SIZE
      <3>1. b \in Blocks
        BY <2>2, Zenon DEF HasByte
      <3> HIDE DEF b
      <3> QED
        BY <2>3, <2>4, <3>1, Zenon DEF Byte, b
    <2> QED
      BY <2>5 DEF p
  <1> DEFINE f == Slice(fs, n, offset, k)
  <1>5. f \in [1 .. k -> Octets]
    BY <1>4, Zenon DEF Slice
  <1> HIDE DEF f
  <1>6. f \in Seq(Octets) /\ Len(f) = k
    BY <1>5, IsSequence, Zenon
  <1> QED
    BY <1>6, Zenon DEF f

\* One round reads on to the end of a block.
SumIs(c, a, b) == c = a + b

ReadsOn(fs, n, offset, k, pos, len, all) ==
    Slice(fs, n, offset, k) \o
        Piece(fs, fs.inodes[n].direct_blocks[pos \div FS_BLOCK_SIZE], pos % FS_BLOCK_SIZE, len)
    = Slice(fs, n, offset, all)

LEMMA Concatenated ==
    ASSUME NEW S, NEW s \in Seq(S), NEW t \in Seq(S)
    PROVE  /\ s \o t \in Seq(S) /\ Len(s \o t) = Len(s) + Len(t)
           /\ \A i \in 1 .. Len(s) + Len(t) :
                (s \o t)[i] = IF i <= Len(s) THEN s[i] ELSE t[i - Len(s)]
  <1>1. s \o t \in Seq(S)
    OBVIOUS
  <1>2. Len(s \o t) = Len(s) + Len(t)
    OBVIOUS
  <1>3. ASSUME NEW i \in 1 .. Len(s) + Len(t)
        PROVE  (s \o t)[i] = IF i <= Len(s) THEN s[i] ELSE t[i - Len(s)]
    OBVIOUS
  <1> QED
    BY <1>1, <1>2, <1>3

LEMMA SliceOn ==
    ASSUME NEW fs, TableInv(fs), NEW n \in InUse(fs), NEW offset \in Nat, NEW k \in Nat,
           NEW pos, SumIs(pos, offset, k), NEW len \in Nat, InOneBlock(pos, len), len > 0,
           pos + len <= fs.inodes[n].size, NEW all, SumIs(all, k, len)
    PROVE  ReadsOn(fs, n, offset, k, pos, len, all)
  <1> DEFINE b == fs.inodes[n].direct_blocks[pos \div FS_BLOCK_SIZE]
             at == pos % FS_BLOCK_SIZE
             s == Slice(fs, n, offset, k)
             t == Piece(fs, b, at, len)
             u == Slice(fs, n, offset, all)
             size == fs.inodes[n].size
  <1> pos = offset + k /\ all = k + len
    BY DEF SumIs
  <1>1. size \in Nat
    <2>1. fs \in FsType
      BY Zenon DEF TableInv, Core
    <2> QED
      BY <2>1, UsedIs, UsedFields, Zenon
  <1>2. all \in Nat /\ offset + all <= size /\ offset + k <= size /\ pos \in Nat
    <2>1. pos + len <= size
      OBVIOUS
    <2> HIDE DEF size
    <2> QED
      BY <1>1, <2>1
  <1>3. s \in Seq(Octets) /\ Len(s) = k /\ u \in Seq(Octets) /\ Len(u) = all
    BY <1>2, SliceType, Zenon
  <1>4. ASSUME NEW j \in 1 .. len PROVE t[j] = Byte(fs, n, offset + (k + j) - 1)
    <2>1. /\ (pos + j - 1) \div FS_BLOCK_SIZE = pos \div FS_BLOCK_SIZE
          /\ (pos + j - 1) % FS_BLOCK_SIZE = at + j - 1
      BY <1>2, RunByte, Zenon
    <2>2. offset + (k + j) - 1 = pos + j - 1
      OBVIOUS
    <2>3. t[j] = fs.block_storage[b][at + j - 1]
      BY Zenon DEF Piece
    <2>4. Byte(fs, n, pos + j - 1) = fs.block_storage[b][at + j - 1]
      BY <2>1, Zenon DEF Byte
    <2> QED
      BY <2>2, <2>3, <2>4, Zenon
  <1>5. \A i \in 1 .. k : s[i] = Byte(fs, n, offset + i - 1)
    BY Zenon DEF Slice
  <1>6. \A i \in 1 .. all : u[i] = Byte(fs, n, offset + i - 1)
    BY Zenon DEF Slice
  <1>7. t = [j \in 1 .. len |-> t[j]]
    BY Zenon DEF Piece
  <1> HIDE DEF s, t, u, b, at
  <1>8. \A j \in 1 .. len : k + j \in 1 .. all /\ t[j] = u[k + j]
    <2>1. \A j \in 1 .. len : k + j \in 1 .. all
      OBVIOUS
    <2> QED
      BY <1>4, <1>6, <2>1, Zenon
  <1>9. t \in Seq(Octets) /\ Len(t) = len
    <2>1. \A j \in 1 .. len : t[j] \in Octets
      <3>1. \A i \in 1 .. all : u[i] \in Octets
        BY <1>3, ElementIs, Zenon
      <3> QED
        BY <1>8, <3>1, Zenon
    <2>2. t \in [1 .. len -> Octets]
      BY <1>7, <2>1
    <2> QED
      BY <2>2, IsSequence, Zenon
  <1>10. /\ s \o t \in Seq(Octets) /\ Len(s \o t) = all
         /\ \A i \in 1 .. all : (s \o t)[i] = IF i <= k THEN s[i] ELSE t[i - k]
    BY <1>3, <1>9, Concatenated
  <1>11. ASSUME NEW i \in 1 .. all PROVE (s \o t)[i] = u[i]
    <2>1. CASE i <= k
      <3>1. i \in 1 .. k
        BY <2>1
      <3> QED
        BY <1>5, <1>6, <1>10, <2>1, <3>1, Zenon
    <2>2. CASE ~(i <= k)
      <3>1. i - k \in 1 .. len /\ k + (i - k) = i
        BY <2>2
      <3>2. (s \o t)[i] = t[i - k]
        BY <1>10, <2>2, Zenon
      <3> DEFINE j == i - k
      <3>3. j \in 1 .. len /\ k + j = i /\ (s \o t)[i] = t[j]
        BY <3>1, <3>2, Zenon
      <3> HIDE DEF j
      <3> QED
        BY <1>8, <3>3, Zenon
    <2> QED
      BY <2>1, <2>2, Zenon
  <1>12. s \o t = u
    <2>1. \A i \in 1 .. all : (s \o t)[i] = u[i]
      BY <1>11, Zenon
    <2> QED
      BY <1>3, <1>10, <2>1, SMTT(30)
  <1> QED
    BY <1>12, Zenon DEF s, t, u, b, at, ReadsOn

\* The rounds up to k.
IsReads(R, fs, n, offset, want, k) ==
    R = [r \in 0 .. k |-> IF r = 0 THEN <<>> ELSE ReadStep(fs, n, offset, want, R[r - 1])]

LEMMA ReadsExist ==
    ASSUME SetFacts, NEW fs, NEW n, NEW offset, NEW want, NEW last \in Nat
    PROVE  \E R : IsReads(R, fs, n, offset, want, last)
  <1> DEFINE s0 == <<>>
             G == {k \in 0 .. last : \E R : IsReads(R, fs, n, offset, want, k)}
  <1>1. 0 \in G
    <2> DEFINE T == [r \in 0 .. 0 |-> s0]
    <2>1. T = [r \in 0 .. 0 |-> IF r = 0 THEN s0 ELSE ReadStep(fs, n, offset, want, T[r - 1])]
      <3>1. \A r \in 0 .. 0 : r = 0
        OBVIOUS
      <3> QED
        BY <3>1, Zenon
    <2>2. IsReads(T, fs, n, offset, want, 0)
      BY <2>1, Zenon DEF IsReads
    <2> HIDE DEF T
    <2> QED
      BY <2>2
  <1>2. ASSUME NEW m \in 1 .. last, m - 1 \in G PROVE m \in G
    <2>1. PICK R : IsReads(R, fs, n, offset, want, m - 1)
      BY <1>2
    <2> DEFINE T == [r \in 0 .. m |-> IF r = m THEN ReadStep(fs, n, offset, want, R[m - 1]) ELSE R[r]]
    <2> HIDE DEF s0
    <2>2. \A r \in 0 .. (m - 1) : R[r] = IF r = 0 THEN s0 ELSE ReadStep(fs, n, offset, want, R[r - 1])
      BY <2>1, Zenon DEF IsReads, s0
    <2>3. ASSUME NEW r \in 0 .. m
          PROVE  T[r] = IF r = 0 THEN s0 ELSE ReadStep(fs, n, offset, want, T[r - 1])
      <3>1. CASE r = m
        <4>1. m \in 0 .. m /\ m - 1 \in 0 .. m /\ m - 1 # m /\ m # 0
          OBVIOUS
        <4>2. T[m - 1] = R[m - 1] /\ T[m] = ReadStep(fs, n, offset, want, R[m - 1])
          BY <4>1, Zenon
        <4> QED
          BY <3>1, <4>1, <4>2, Zenon
      <3>2. CASE r # m
        <4>1. r \in 0 .. (m - 1) /\ (r # 0 => r - 1 \in 0 .. m /\ r - 1 # m)
          BY <3>2
        <4>2. T[r] = R[r] /\ (r # 0 => T[r - 1] = R[r - 1])
          BY <3>2, <4>1, Zenon
        <4> QED
          BY <2>2, <4>1, <4>2, Zenon
      <3> QED
        BY <3>1, <3>2, Zenon
    <2>4. T = [r \in 0 .. m |-> T[r]]
      BY Zenon
    <2> HIDE DEF T
    <2>5. T = [r \in 0 .. m |-> IF r = 0 THEN s0 ELSE ReadStep(fs, n, offset, want, T[r - 1])]
      BY <2>3, <2>4
    <2>6. IsReads(T, fs, n, offset, want, m)
      BY <2>5, Zenon DEF IsReads, s0
    <2>7. m \in 0 .. last
      OBVIOUS
    <2> QED
      BY <2>6, <2>7, Zenon
  <1> HIDE DEF G
  <1>3. last \in G
    <2>1. \A k \in 0 .. last : k \in G
      BY <1>1, <1>2, UpTo, Zenon
    <2>2. last \in 0 .. last
      OBVIOUS
    <2> QED
      BY <2>1, <2>2, Zenon
  <1> QED
    BY <1>3, Zenon DEF G

LEMMA ReadRoundsAre ==
    ASSUME SetFacts, NEW fs, NEW n, NEW offset, NEW want
    PROVE  LET R == ReadRounds(fs, n, offset, want)
           IN  /\ R[0] = <<>>
               /\ \A r \in 1 .. DIRECT_BLOCKS : R[r] = ReadStep(fs, n, offset, want, R[r - 1])
  <1> DEFINE P(T) == T = [r \in 0 .. DIRECT_BLOCKS |->
                            IF r = 0 THEN <<>>
                            ELSE ReadStep(fs, n, offset, want, T[r - 1])]
             R == ReadRounds(fs, n, offset, want)
  <1>1. R = CHOOSE T : P(T)
    BY Zenon DEF ReadRounds
  <1>2. \E T : P(T)
    <2>1. DIRECT_BLOCKS \in Nat
      BY Sizes
    <2>2. PICK T : IsReads(T, fs, n, offset, want, DIRECT_BLOCKS)
      BY <2>1, ReadsExist, Zenon
    <2> QED
      BY <2>2, Zenon DEF IsReads
  <1> HIDE DEF P, R
  <1>3. P(R)
    BY <1>1, <1>2, Zenon
  <1>4. \A r \in 0 .. DIRECT_BLOCKS : R[r] = IF r = 0 THEN <<>>
                                             ELSE ReadStep(fs, n, offset, want, R[r - 1])
    BY <1>3, Zenon DEF P
  <1>5. 0 \in 0 .. DIRECT_BLOCKS /\ \A r \in 1 .. DIRECT_BLOCKS : r \in 0 .. DIRECT_BLOCKS /\ r # 0
    BY Sizes
  <1> QED
    BY <1>4, <1>5, Zenon DEF R

\* The invariant of the loop: after the round r all is read, or the blocks
\* before the block r.
ReadInv(buf, fs, n, offset, want, r) ==
    \E k \in 0 .. want : /\ buf = Slice(fs, n, offset, k)
                         /\ k = want \/ Start(r) <= offset + k

LEMMA ReadStepKeeps ==
    ASSUME NEW fs, TableInv(fs), NEW n \in InUse(fs), NEW offset \in Nat, NEW want \in Nat,
           offset + want <= fs.inodes[n].size, NEW r \in Nat, NEW buf,
           ReadInv(buf, fs, n, offset, want, r)
    PROVE  ReadInv(ReadStep(fs, n, offset, want, buf), fs, n, offset, want, r + 1)
  <1> DEFINE size == fs.inodes[n].size
             ino == fs.inodes[n]
  <1>1. PICK k \in 0 .. want : /\ buf = Slice(fs, n, offset, k)
                               /\ k = want \/ Start(r) <= offset + k
    BY Zenon DEF ReadInv
  <1>2. ino \in UsedInode /\ size \in Nat /\ Fits(ino, size)
    BY UsedIs, UsedFields, Zenon DEF TableInv, Core
  <1>3. offset + want <= size
    OBVIOUS
  <1>4. Len(buf) = k
    <2>1. k \in Nat /\ offset + k <= size
      <3> HIDE DEF size
      <3> QED
        BY <1>2, <1>3
    <2> QED
      BY <1>1, <2>1, SliceType, Zenon
  <1> DEFINE pos == offset + k
             idx == pos \div FS_BLOCK_SIZE
             at == pos % FS_BLOCK_SIZE
             b == ino.direct_blocks[idx]
             len == Chunk(pos, want - k)
             stops == k >= want \/ idx >= DIRECT_BLOCKS \/ b = 0
  <1>5. ReadStep(fs, n, offset, want, buf) =
          IF stops THEN buf ELSE buf \o Piece(fs, b, at, len)
    BY <1>4, Zenon DEF ReadStep, Piece
  <1>6. CASE k = want
    <2>1. stops
      BY <1>6
    <2>2. ReadStep(fs, n, offset, want, buf) = buf
      BY <1>5, <2>1, Zenon
    <2> QED
      BY <1>1, <1>6, <2>2, Zenon DEF ReadInv
  <1>7. CASE k # want
    <2>1. pos \in Nat /\ pos < size /\ k < want /\ want - k \in Nat /\ want - k > 0 /\ k \in Nat
          /\ ~(k >= want) /\ Start(r) <= pos
      <3> HIDE DEF size
      <3> QED
        BY <1>1, <1>2, <1>3, <1>7
    <2> HIDE DEF pos
    <2>2. HasByte(ino, pos)
      BY <1>2, <2>1, FitsByte, Zenon
    <2>3. idx \in Slots /\ b # 0
      BY <2>2 DEF HasByte
    <2>4. ~(idx >= DIRECT_BLOCKS) /\ idx \in Nat
      <3> HIDE DEF idx
      <3> QED
        BY <2>3, Sizes DEF Slots
    <2>5. ~stops
      BY <2>1, <2>3, <2>4, Zenon
    <2>6. ReadStep(fs, n, offset, want, buf) = buf \o Piece(fs, b, at, len)
      BY <1>5, <2>5, Zenon
    <2>7. /\ len \in Nat /\ len > 0 /\ len <= want - k
          /\ InOneBlock(pos, len)
          /\ len = want - k \/ pos + len = Start(idx) + FS_BLOCK_SIZE
      BY <2>1, ChunkIs, Zenon
    <2>8. pos = Start(idx) + at /\ at \in BlockOffsets
      BY <2>1, DivMod, Zenon
    <2> HIDE DEF len, idx, at, stops
    <2> DEFINE all == k + len
    <2>9. all \in 0 .. want /\ pos + len = offset + all /\ pos + len <= size
      <3> HIDE DEF size
      <3> QED
        BY <1>2, <1>3, <2>1, <2>7 DEF pos
    <2>10. buf \o Piece(fs, b, at, len) = Slice(fs, n, offset, all)
      <3>1. ReadsOn(fs, n, offset, k, pos, len, all)
        <4> HIDE DEF all
        <4>1. SumIs(all, k, len)
          BY DEF all, SumIs
        <4>2. SumIs(pos, offset, k)
          BY DEF pos, SumIs
        <4>3. pos + len <= fs.inodes[n].size
          BY <2>9
        <4> QED
          BY <2>1, <2>7, <4>1, <4>2, <4>3, SliceOn, Zenon
      <3> QED
        BY <1>1, <3>1, Zenon DEF idx, at, ReadsOn
    <2>11. all = want \/ Start(r + 1) <= offset + all
      <3>1. CASE len = want - k
        BY <2>1, <3>1
      <3>2. CASE pos + len = Start(idx) + FS_BLOCK_SIZE
        <4>1. Start(r + 1) = Start(r) + FS_BLOCK_SIZE /\ Start(idx) \in Nat /\ Start(r) \in Nat
              /\ FS_BLOCK_SIZE \in Nat
          BY <2>4, StartNext, StartNat, Sizes
        <4>2. Start(r) <= Start(idx)
          <5>1. CASE idx < r
            <6>1. Start(idx) + FS_BLOCK_SIZE <= Start(r)
              BY <2>4, <5>1, StartMono, Zenon
            <6>2. at < FS_BLOCK_SIZE /\ at \in Nat
              BY <2>8, Sizes DEF BlockOffsets
            <6> QED
              BY <2>1, <2>8, <4>1, <6>1, <6>2
          <5>2. CASE r < idx
            <6>1. Start(r) + FS_BLOCK_SIZE <= Start(idx)
              BY <2>4, <5>2, StartMono, Zenon
            <6> QED
              BY <4>1, <6>1
          <5>3. CASE r = idx
            BY <4>1, <5>3
          <5> QED
            BY <2>4, <5>1, <5>2, <5>3
        <4> QED
          BY <2>9, <3>2, <4>1, <4>2
      <3> QED
        BY <2>7, <3>1, <3>2, Zenon
    <2> HIDE DEF all
    <2> QED
      BY <2>6, <2>9, <2>10, <2>11, Zenon DEF ReadInv
  <1> QED
    BY <1>6, <1>7, Zenon

\* The contents of the file of n.
Contents(fs, n) == Slice(fs, n, 0, fs.inodes[n].size)

\* A file is not longer than its slots allow.
LEMMA SizeBound ==
    ASSUME NEW fs, TableInv(fs), NEW n \in InUse(fs)
    PROVE  fs.inodes[n].size \in Nat /\ fs.inodes[n].size <= Start(DIRECT_BLOCKS)
  <1> DEFINE ino == fs.inodes[n]
             size == ino.size
             k == ino.block_count
  <1>1. ino \in UsedInode /\ Fits(ino, size)
    BY UsedIs, Zenon DEF TableInv, Core
  <1>2. size \in Nat /\ k \in Nat
    BY <1>1, UsedFields, Zenon
  <1>3. k <= DIRECT_BLOCKS /\ size <= Start(k)
    BY <1>1, Zenon DEF Fits, Covers
  <1> HIDE DEF size, k
  <1>4. Start(k) <= Start(DIRECT_BLOCKS)
    <2>1. DIRECT_BLOCKS \in Nat /\ FS_BLOCK_SIZE \in Nat /\ Start(k) \in Nat /\ Start(DIRECT_BLOCKS) \in Nat
      BY <1>2, Sizes, StartNat
    <2>2. CASE k < DIRECT_BLOCKS
      <3>1. Start(k) + FS_BLOCK_SIZE <= Start(DIRECT_BLOCKS)
        BY <1>2, <2>1, <2>2, StartMono, Zenon
      <3> QED
        BY <2>1, <3>1
    <2>3. CASE k = DIRECT_BLOCKS
      BY <2>1, <2>3
    <2> QED
      BY <1>2, <1>3, <2>1, <2>2, <2>3
  <1>5. Start(k) \in Nat /\ Start(DIRECT_BLOCKS) \in Nat
    BY <1>2, Sizes, StartNat
  <1>6. size <= Start(DIRECT_BLOCKS)
    BY <1>2, <1>3, <1>4, <1>5
  <1> QED
    BY <1>2, <1>6 DEF size

LEMMA ContentsType ==
    ASSUME NEW fs, TableInv(fs), NEW n \in InUse(fs)
    PROVE  Contents(fs, n) \in Seq(Octets) /\ Len(Contents(fs, n)) = fs.inodes[n].size
  <1> DEFINE size == fs.inodes[n].size
  <1>1. size \in Nat
    BY SizeBound, Zenon
  <1>2. 0 \in Nat /\ 0 + size <= size
    <2> HIDE DEF size
    <2> QED
      BY <1>1
  <1>3. Slice(fs, n, 0, size) \in Seq(Octets) /\ Len(Slice(fs, n, 0, size)) = size
    BY <1>1, <1>2, SliceType, Zenon
  <1> QED
    BY <1>3, Zenon DEF Contents

\* inode_read reads what it is asked for.
LEMMA RoundsRead ==
    ASSUME SetFacts, NEW fs, TableInv(fs), NEW n \in InUse(fs), NEW offset \in Nat, NEW want \in Nat,
           offset + want <= fs.inodes[n].size
    PROVE  ReadRounds(fs, n, offset, want)[DIRECT_BLOCKS] = Slice(fs, n, offset, want)
  <1> DEFINE R == ReadRounds(fs, n, offset, want)
             G == {r \in 0 .. DIRECT_BLOCKS : ReadInv(R[r], fs, n, offset, want, r)}
             size == fs.inodes[n].size
  <1>1. R[0] = <<>> /\ \A r \in 1 .. DIRECT_BLOCKS : R[r] = ReadStep(fs, n, offset, want, R[r - 1])
    BY ReadRoundsAre
  <1> HIDE DEF R
  <1>2. 0 \in G
    <2>1. Slice(fs, n, offset, 0) = <<>>
      BY DEF Slice
    <2>2. 0 \in 0 .. want /\ Start(0) <= offset + 0 /\ 0 \in 0 .. DIRECT_BLOCKS
      BY StartZero, Sizes
    <2> QED
      BY <1>1, <2>1, <2>2, Zenon DEF ReadInv
  <1>3. \A r \in 1 .. DIRECT_BLOCKS : r - 1 \in G => r \in G
    <2> TAKE r \in 1 .. DIRECT_BLOCKS
    <2> HAVE r - 1 \in G
    <2> DEFINE q == r - 1
    <2>1. q \in Nat /\ r = q + 1 /\ r \in 0 .. DIRECT_BLOCKS
      BY Sizes
    <2>2. ReadInv(R[q], fs, n, offset, want, q)
      BY Zenon
    <2>3. R[r] = ReadStep(fs, n, offset, want, R[q])
      BY <1>1, Zenon
    <2> HIDE DEF q
    <2>4. ReadInv(ReadStep(fs, n, offset, want, R[q]), fs, n, offset, want, q + 1)
      BY <2>1, <2>2, ReadStepKeeps, Zenon
    <2> QED
      BY <2>1, <2>3, <2>4, Zenon
  <1> HIDE DEF G
  <1>4. DIRECT_BLOCKS \in Nat /\ DIRECT_BLOCKS \in 0 .. DIRECT_BLOCKS
    BY Sizes
  <1>5. DIRECT_BLOCKS \in G
    BY <1>2, <1>3, <1>4, UpTo, Zenon
  <1>6. PICK k \in 0 .. want : /\ R[DIRECT_BLOCKS] = Slice(fs, n, offset, k)
                               /\ k = want \/ Start(DIRECT_BLOCKS) <= offset + k
    BY <1>5, Zenon DEF G, ReadInv
  <1>7. k = want
    <2>1. size \in Nat /\ size <= Start(DIRECT_BLOCKS) /\ Start(DIRECT_BLOCKS) \in Nat
      BY <1>4, SizeBound, StartNat, Zenon
    <2>2. offset + want <= size
      OBVIOUS
    <2> HIDE DEF size
    <2> QED
      BY <1>6, <2>1, <2>2
  <1> QED
    BY <1>6, <1>7, Zenon DEF R

\* The whole file, read with a buffer that is longer than any file.
LEMMA ReadsContents ==
    ASSUME SetFacts, NEW fs, TableInv(fs), NEW n \in InUse(fs)
    PROVE  inode_read(fs, n, 0, DIRECT_BLOCKS * FS_BLOCK_SIZE + 1) = Contents(fs, n)
  <1> DEFINE size == fs.inodes[n].size
             room == DIRECT_BLOCKS * FS_BLOCK_SIZE + 1
  <1>1. size \in Nat /\ size <= Start(DIRECT_BLOCKS)
    BY SizeBound, Zenon
  <1>2. Wanted(fs, n, 0, room) = size
    <2>1. Wanted(fs, n, 0, room) = IF 0 >= size THEN 0 ELSE IF 0 + room > size THEN size - 0 ELSE room
      BY Zenon DEF Wanted
    <2> HIDE DEF size, room
    <2>2. room \in Nat /\ room = Start(DIRECT_BLOCKS) + 1 /\ Start(DIRECT_BLOCKS) \in Nat
      BY Sizes DEF Start, room
    <2> QED
      BY <1>1, <2>1, <2>2
  <1>3. 0 \in Nat /\ 0 + size <= size
    <2> HIDE DEF size
    <2> QED
      BY <1>1
  <1>4. ReadRounds(fs, n, 0, size)[DIRECT_BLOCKS] = Slice(fs, n, 0, size)
    BY <1>1, <1>3, RoundsRead, Zenon
  <1> QED
    BY <1>2, <1>4, Zenon DEF inode_read, Contents

-----------------------------------------------------------------------------
(***************************************************************************)
(* What the operations do to the contents of the files.                    *)
(***************************************************************************)
\* The blocks of a file are those its size takes, in its first slots.
LEMMA TableHasNoHoles ==
    ASSUME NEW fs, TableInv(fs), NEW n \in InUse(fs)
    PROVE  NoHoles(fs.inodes[n])
  <1> DEFINE ino == fs.inodes[n]
             k == ino.block_count
             size == ino.size
  <1>1. ino \in UsedInode /\ Fits(ino, size)
    BY UsedIs, Zenon DEF TableInv, Core
  <1>2. size \in Nat /\ k \in Nat
    BY <1>1, UsedFields, Zenon
  <1>3. Covers(k, size)
    BY <1>1, Zenon DEF Fits
  <1> HIDE DEF size, k
  <1>4. BlocksFor(size) \in Nat /\ Covers(BlocksFor(size), size)
    BY <1>2, BlocksForCovers, Zenon
  <1>5. k = BlocksFor(size)
    BY <1>2, <1>3, <1>4, CoversUnique, Zenon
  <1> QED
    BY <1>1, <1>5, Zenon DEF NoHoles, Fits, k, size

\* A file whose size and bytes stay the same.
LEMMA ContentsKept ==
    ASSUME NEW fs, NEW gs, NEW m, fs.inodes[m].size \in Nat,
           gs.inodes[m].size = fs.inodes[m].size,
           \A i \in Nat : i < fs.inodes[m].size => Byte(gs, m, i) = Byte(fs, m, i)
    PROVE  Contents(gs, m) = Contents(fs, m)
  <1> DEFINE size == fs.inodes[m].size
  <1>1. size \in Nat /\ gs.inodes[m].size = size
        /\ \A i \in Nat : i < size => Byte(gs, m, i) = Byte(fs, m, i)
    BY Zenon
  <1> HIDE DEF size
  <1>2. \A i \in 1 .. size : 0 + i - 1 \in Nat /\ 0 + i - 1 < size
    BY <1>1
  <1>3. \A i \in 1 .. size : Byte(gs, m, 0 + i - 1) = Byte(fs, m, 0 + i - 1)
    BY <1>1, <1>2, Zenon
  <1>4. Slice(gs, m, 0, size) = Slice(fs, m, 0, size)
    BY <1>3, Zenon DEF Slice
  <1> QED
    BY <1>1, <1>4, Zenon DEF Contents, size

\* Only the blocks of the slots in S of n may have changed.
OthersStored(gs, fs, n, S) ==
    \A b \in Blocks \ HeldBlocks(fs, n, S) : gs.block_storage[b] = fs.block_storage[b]

\* Byte i of the file of m is in the block that it was in, and in no slot in S of n.
StaysIn(gs, fs, m, i, n, S) ==
    /\ gs.inodes[m].direct_blocks[i \div FS_BLOCK_SIZE] =
         fs.inodes[m].direct_blocks[i \div FS_BLOCK_SIZE]
    /\ m = n => i \div FS_BLOCK_SIZE \notin S

\* A byte in a block that is not among those freed.
LEMMA ByteKept ==
    ASSUME NEW fs, Core(fs), NEW n \in InUse(fs), NEW S \in SUBSET Slots, NEW gs,
           OthersStored(gs, fs, n, S), NEW m \in InUse(fs), NEW i \in Nat,
           HasByte(fs.inodes[m], i), StaysIn(gs, fs, m, i, n, S)
    PROVE  Byte(gs, m, i) = Byte(fs, m, i)
  <1> DEFINE k == i \div FS_BLOCK_SIZE
             b == fs.inodes[m].direct_blocks[k]
  <1>1. \A p \in InUse(fs), s \in Slots : fs.inodes[p].direct_blocks[s] = b => p = m /\ s = k
    BY ByteOwned
  <1>2. b \in Blocks
    BY Zenon DEF HasByte
  <1>3. b \notin HeldBlocks(fs, n, S)
    BY <1>1, Zenon DEF HeldBlocks, StaysIn
  <1> QED
    BY <1>2, <1>3, Zenon DEF Byte, OthersStored, StaysIn

\* The files of the i-nodes in M are as they were.
FilesAsBefore(gs, fs, M) ==
    \A m \in M : gs.inodes[m] = fs.inodes[m] /\ Contents(gs, m) = Contents(fs, m)

\* inode_truncate to a smaller size.
Truncated(gs, fs, n, size) ==
    /\ TableInv(gs) /\ InUse(gs) = InUse(fs)
    /\ FilesAsBefore(gs, fs, InUse(fs) \ {n})
    /\ gs.inodes[n].size = size
    /\ \A i \in Nat : i < size => Byte(gs, n, i) = Byte(fs, n, i)

LEMMA TruncateKeeps ==
    ASSUME SetFacts, NEW fs, TableInv(fs), NEW n \in InUse(fs), NEW size \in Nat, size < fs.inodes[n].size,
           NEW gs, gs = inode_truncate(fs, n, size)
    PROVE  Truncated(gs, fs, n, size)
  <1> DEFINE ino == fs.inodes[n]
             new == gs.inodes[n]
             S == Beyond(ino, size)
             k == ino.block_count
             c == BlocksFor(size)
             old == ino.size
  <1>1. Core(fs) /\ fs \in FsType /\ \A m \in InUse(fs) : Fits(fs.inodes[m], fs.inodes[m].size)
    BY Zenon DEF TableInv, Core
  <1>2. Core(gs) /\ InUse(gs) = InUse(fs)
    BY <1>1, CoreTruncate, Zenon
  <1>3. CutTo(gs, fs, n, size)
    BY <1>1, TruncateIs, Zenon
  <1>4. /\ \A m \in InodeNums \ {n} : gs.inodes[m] = fs.inodes[m]
        /\ new \in UsedInode
        /\ new.size = size
        /\ new.block_count = c
        /\ \A s \in Slots : new.direct_blocks[s] = IF s \in S THEN 0 ELSE ino.direct_blocks[s]
        /\ OthersStored(gs, fs, n, S)
    BY <1>3, Zenon DEF CutTo, OthersStored
  <1>5. ino \in UsedInode /\ old \in Nat /\ k \in Nat /\ size < old
    BY <1>1, UsedIs, UsedFields, Zenon
  <1>6. Fits(ino, old)
    BY <1>1, Zenon
  <1>7. k <= DIRECT_BLOCKS /\ Covers(k, old) /\ \A s \in Slots : ino.direct_blocks[s] # 0 <=> s < k
    BY <1>6, Zenon DEF Fits
  <1>8. c \in Nat /\ Covers(c, size)
    BY BlocksForCovers, Zenon
  <1>9. S = {s \in Slots : c <= s /\ s < k}
    BY Zenon DEF Beyond
  <1> HIDE DEF k, c, old, S
  <1>10. c <= k
    <2>1. size <= old
      BY <1>5
    <2> QED
      BY <1>5, <1>7, <1>8, <2>1, CoversMono, Zenon
  <1>11. c <= DIRECT_BLOCKS
    BY <1>5, <1>7, <1>8, <1>10, Sizes
  <1>12. ASSUME NEW s \in Slots PROVE new.direct_blocks[s] # 0 <=> s < c
    <2>1. new.direct_blocks[s] = IF s \in S THEN 0 ELSE ino.direct_blocks[s]
      BY <1>4, Zenon
    <2>2. ino.direct_blocks[s] # 0 <=> s < k
      BY <1>7, Zenon
    <2>3. s \in S <=> c <= s /\ s < k
      BY <1>9, Zenon
    <2>4. s \in Nat
      BY Sizes DEF Slots
    <2> HIDE DEF ino, new
    <2> QED
      BY <1>5, <1>8, <1>10, <2>1, <2>2, <2>3, <2>4
  <1>13. Fits(new, size)
    BY <1>4, <1>8, <1>11, <1>12, Zenon DEF Fits
  <1>14. \A m \in InUse(fs) \ {n} : gs.inodes[m] = fs.inodes[m]
    <2>1. \A m \in InUse(fs) : m \in InodeNums
      BY <1>1, UsedIs, Zenon
    <2> QED
      BY <1>4, <2>1, Zenon
  <1>15. TableInv(gs)
    BY <1>1, <1>2, <1>4, <1>13, <1>14, Zenon DEF TableInv
  <1>16. S \in SUBSET Slots
    BY <1>9, Zenon
  <1>17. ASSUME NEW m \in InUse(fs) \ {n} PROVE Contents(gs, m) = Contents(fs, m)
    <2> DEFINE e == fs.inodes[m].size
    <2>1. fs.inodes[m] \in UsedInode /\ Fits(fs.inodes[m], e) /\ e \in Nat
      BY <1>1, UsedIs, UsedFields, Zenon
    <2>2. ASSUME NEW i \in Nat, i < e PROVE Byte(gs, m, i) = Byte(fs, m, i)
      <3>1. HasByte(fs.inodes[m], i)
        BY <2>1, <2>2, FitsByte, Zenon
      <3>2. StaysIn(gs, fs, m, i, n, S) /\ m \in InUse(fs)
        BY <1>14, Zenon DEF StaysIn
      <3> QED
        BY <1>1, <1>4, <1>16, <3>1, <3>2, ByteKept
    <2>3. gs.inodes[m].size = e
      BY <1>14, Zenon
    <2> QED
      BY <2>1, <2>2, <2>3, ContentsKept, Zenon
  <1>18. ASSUME NEW i \in Nat, i < size PROVE Byte(gs, n, i) = Byte(fs, n, i)
    <2> DEFINE q == i \div FS_BLOCK_SIZE
    <2>1. HasByte(new, i)
      BY <1>4, <1>13, <1>18, FitsByte, Zenon
    <2>2. q \in Slots /\ new.direct_blocks[q] # 0
      BY <2>1 DEF HasByte
    <2>3. q \notin S /\ new.direct_blocks[q] = ino.direct_blocks[q]
      BY <1>4, <2>2, Zenon
    <2>4. i < old
      BY <1>5, <1>18
    <2>5. HasByte(ino, i)
      BY <1>5, <1>6, <2>4, FitsByte, Zenon
    <2>6. StaysIn(gs, fs, n, i, n, S)
      BY <2>3, Zenon DEF StaysIn
    <2> QED
      BY <1>1, <1>4, <1>16, <2>5, <2>6, ByteKept
  <1> QED
    BY <1>2, <1>4, <1>14, <1>15, <1>17, <1>18, Zenon DEF FilesAsBefore, Truncated

LEMMA DropKeeps ==
    ASSUME SetFacts, NEW fs, TableInv(fs), NEW n \in InUse(fs), NEW gs, gs = DropInode(fs, n)
    PROVE  /\ TableInv(gs) /\ InUse(gs) = InUse(fs) \ {n}
           /\ FilesAsBefore(gs, fs, InUse(gs))
  <1> DEFINE ino == fs.inodes[n]
             S == {s \in Slots : s < ino.block_count}
  <1>1. Core(fs) /\ fs \in FsType /\ \A m \in InUse(fs) : Fits(fs.inodes[m], fs.inodes[m].size)
    BY Zenon DEF TableInv, Core
  <1>2. \A s \in Slots : ino.direct_blocks[s] # 0 => s < ino.block_count
    BY <1>1, Zenon DEF Fits
  <1>3. Core(gs) /\ InUse(gs) = InUse(fs) \ {n}
    BY <1>1, <1>2, CoreDropInode, Zenon
  <1>4. InodeDropped(gs, fs, n)
    BY <1>1, DropInodeIs, Zenon
  <1>5. /\ \A m \in InodeNums \ {n} : gs.inodes[m] = fs.inodes[m]
        /\ OthersStored(gs, fs, n, S)
    BY <1>4, Zenon DEF InodeDropped, OthersStored
  <1>6. \A m \in InUse(gs) : gs.inodes[m] = fs.inodes[m]
    <2>1. \A m \in InUse(fs) : m \in InodeNums
      BY <1>1, UsedIs, Zenon
    <2> QED
      BY <1>3, <1>5, <2>1, Zenon
  <1>7. TableInv(gs)
    BY <1>1, <1>3, <1>6, Zenon DEF TableInv
  <1>8. S \in SUBSET Slots
    BY Zenon
  <1> HIDE DEF S
  <1>9. ASSUME NEW m \in InUse(gs) PROVE Contents(gs, m) = Contents(fs, m)
    <2> DEFINE e == fs.inodes[m].size
    <2>1. m \in InUse(fs) /\ m # n
      BY <1>3, Zenon
    <2>2. fs.inodes[m] \in UsedInode /\ Fits(fs.inodes[m], e) /\ e \in Nat
      BY <1>1, <2>1, UsedIs, UsedFields, Zenon
    <2>3. ASSUME NEW i \in Nat, i < e PROVE Byte(gs, m, i) = Byte(fs, m, i)
      <3>1. HasByte(fs.inodes[m], i)
        BY <2>2, <2>3, FitsByte, Zenon
      <3>2. StaysIn(gs, fs, m, i, n, S)
        BY <1>6, <2>1, Zenon DEF StaysIn
      <3> QED
        BY <1>1, <1>5, <1>8, <2>1, <3>1, <3>2, ByteKept
    <2>4. gs.inodes[m].size = e
      BY <1>6, Zenon
    <2> QED
      BY <2>2, <2>3, <2>4, ContentsKept, Zenon
  <1> QED
    BY <1>3, <1>6, <1>7, <1>9, Zenon DEF FilesAsBefore

LEMMA TakeKeeps ==
    ASSUME SetFacts, NEW fs, TableInv(fs), NEW n \in FreeInodeNums(fs), NEW gs, gs = TakeInode(fs, n)
    PROVE  /\ TableInv(gs) /\ InUse(gs) = InUse(fs) \cup {n} /\ n \notin InUse(fs)
           /\ FilesAsBefore(gs, fs, InUse(fs))
           /\ Contents(gs, n) = <<>>
  <1>1. /\ Core(fs) /\ fs \in FsType /\ n \in InodeNums
        /\ \A m \in InUse(fs) : Fits(fs.inodes[m], fs.inodes[m].size)
    BY Zenon DEF TableInv, Core, FreeInodeNums
  <1>2. Core(gs) /\ InUse(gs) = InUse(fs) \cup {n} /\ n \notin InUse(fs)
    BY <1>1, CoreTakeInode, Zenon
  <1>3. InodeTaken(gs, fs, n)
    BY <1>1, TakeInodeIs
  <1>4. /\ \A m \in InodeNums \ {n} : gs.inodes[m] = fs.inodes[m]
        /\ gs.inodes[n] = FreshInode
        /\ gs.block_storage = fs.block_storage
    BY <1>3, Zenon DEF InodeTaken
  <1>5. \A m \in InUse(fs) : gs.inodes[m] = fs.inodes[m]
    <2>1. \A m \in InUse(fs) : m \in InodeNums
      BY <1>1, UsedIs, Zenon
    <2> QED
      BY <1>2, <1>4, <2>1, Zenon
  <1>6. Fits(FreshInode, 0) /\ FreshInode.size = 0
    BY StartZero, Sizes DEF Fits, Covers, FreshInode, Slots
  <1>7. TableInv(gs)
    BY <1>1, <1>2, <1>4, <1>5, <1>6, Zenon DEF TableInv
  <1>8. \A m \in InUse(fs) : Contents(gs, m) = Contents(fs, m)
    BY <1>4, <1>5, Zenon DEF Contents, Slice, Byte
  <1>9. Contents(gs, n) = <<>>
    <2>1. Slice(gs, n, 0, 0) = <<>>
      BY DEF Slice
    <2> QED
      BY <1>4, <1>6, <2>1, Zenon DEF Contents
  <1> QED
    BY <1>2, <1>5, <1>7, <1>8, <1>9, Zenon DEF FilesAsBefore

\* What inode_write leaves in the file, and in the others.
LEMMA WriteContents ==
    ASSUME NEW tab, TableInv(tab), NEW n \in InUse(tab), NEW data \in Seq(0 .. 255),
           NEW offset \in Nat, offset <= tab.inodes[n].size, NEW gs, NEW w,
           Wrote(gs, w, tab, n, data, offset)
    PROVE  /\ Contents(gs, n) = Overwrite(Contents(tab, n), data, offset, w)
           /\ \A m \in InUse(tab) \ {n} : Contents(gs, m) = Contents(tab, m)
  <1> DEFINE size == tab.inodes[n].size
             c == Contents(tab, n)
             end == offset + w
             len == Reach(size, end)
  <1>1. tab \in FsType
    BY Zenon DEF TableInv, Core
  <1>2. size \in Nat /\ offset <= size
    BY <1>1, UsedIs, UsedFields, Zenon
  <1>3. /\ w \in 0 .. Len(data)
        /\ gs.inodes[n].size = len
        /\ \A m \in InUse(tab) \ {n} : gs.inodes[m] = tab.inodes[m]
        /\ \A m \in InUse(tab) \ {n}, i \in Nat :
             i < tab.inodes[m].size => Byte(gs, m, i) = Byte(tab, m, i)
        /\ \A i \in Nat : i < len => Byte(gs, n, i) = Written(tab, n, data, offset, w, i)
    BY Zenon DEF Wrote
  <1>4. w \in Nat /\ end \in Nat /\ len \in Nat /\ len = IF end > size THEN end ELSE size
    <2>1. w \in Nat /\ end \in Nat
      BY <1>3
    <2> HIDE DEF end, size
    <2> QED
      BY <1>2, <2>1 DEF Reach
  <1>5. Len(c) = size /\ \A i \in 1 .. size : c[i] = Byte(tab, n, 0 + i - 1)
    <2>2. Len(c) = size
      BY ContentsType, Zenon
    <2>3. \A i \in 1 .. size : Slice(tab, n, 0, size)[i] = Byte(tab, n, 0 + i - 1)
      BY Zenon DEF Slice
    <2> QED
      BY <2>2, <2>3, Zenon DEF Contents
  <1> HIDE DEF size, c, len
  <1>6. Overwrite(c, data, offset, w) =
          [i \in 1 .. len |-> IF i \in (offset + 1) .. (offset + w) THEN data[i - offset] ELSE c[i]]
    BY <1>4, <1>5, Zenon DEF Overwrite
  <1>7. Contents(gs, n) = [i \in 1 .. len |-> Byte(gs, n, 0 + i - 1)]
    BY <1>3, Zenon DEF Contents, Slice
  <1>8. ASSUME NEW i \in 1 .. len
        PROVE  Byte(gs, n, 0 + i - 1)
                 = IF i \in (offset + 1) .. (offset + w) THEN data[i - offset] ELSE c[i]
    <2> DEFINE j == 0 + i - 1
    <2>1. j \in Nat /\ j < len /\ j = i - 1
      <3>1. len \in Nat
        BY <1>4, Zenon
      <3> QED
        BY <3>1
    <2>2. Byte(gs, n, j) = Written(tab, n, data, offset, w, j)
      BY <1>3, <2>1, Zenon
    <2>3. j \in offset .. (offset + w - 1) <=> i \in (offset + 1) .. (offset + w)
      BY <1>4, <2>1
    <2>4. j - offset + 1 = i - offset
      BY <2>1
    <2>5. CASE i \in (offset + 1) .. (offset + w)
      BY <2>2, <2>3, <2>4, <2>5, Zenon DEF Written
    <2>6. CASE i \notin (offset + 1) .. (offset + w)
      <3>1. i \in 1 .. size
        BY <1>2, <1>4, <2>6
      <3>2. Byte(gs, n, j) = Byte(tab, n, j)
        BY <2>2, <2>3, <2>6, Zenon DEF Written
      <3> QED
        BY <1>5, <2>6, <3>1, <3>2, Zenon
    <2> QED
      BY <2>5, <2>6, Zenon
  <1>9. Contents(gs, n) = Overwrite(c, data, offset, w)
    BY <1>6, <1>7, <1>8, Zenon
  <1>10. ASSUME NEW m \in InUse(tab) \ {n} PROVE Contents(gs, m) = Contents(tab, m)
    <2>1. tab.inodes[m].size \in Nat
      BY <1>1, UsedIs, UsedFields, Zenon
    <2> QED
      BY <1>3, <2>1, ContentsKept, Zenon
  <1> QED
    BY <1>9, <1>10, Zenon DEF c

\* What inode_truncate leaves in the file.
LEMMA TruncateContents ==
    ASSUME NEW tab, TableInv(tab), NEW n \in InUse(tab), NEW size \in Nat,
           size < tab.inodes[n].size, NEW gs, gs.inodes[n].size = size,
           \A i \in Nat : i < size => Byte(gs, n, i) = Byte(tab, n, i)
    PROVE  /\ size < Len(Contents(tab, n))
           /\ Contents(gs, n) = SubSeq(Contents(tab, n), 1, size)
  <1> DEFINE old == tab.inodes[n].size
             c == Contents(tab, n)
  <1>1. old \in Nat /\ size < old
    <2>1. tab \in FsType
      BY Zenon DEF TableInv, Core
    <2> QED
      BY <2>1, UsedIs, UsedFields, Zenon
  <1>2. /\ c \in Seq(Octets) /\ Len(c) = old
        /\ \A i \in 1 .. old : c[i] = Byte(tab, n, 0 + i - 1)
    <2>2. c \in Seq(Octets) /\ Len(c) = old
      BY ContentsType, Zenon
    <2>3. \A i \in 1 .. old : Slice(tab, n, 0, old)[i] = Byte(tab, n, 0 + i - 1)
      BY Zenon DEF Slice
    <2> QED
      BY <2>2, <2>3, Zenon DEF Contents
  <1> HIDE DEF c, old
  <1>3. SubSeq(c, 1, size) = [i \in 1 .. size |-> c[i]]
    BY <1>1, <1>2
  <1>4. Contents(gs, n) = [i \in 1 .. size |-> Byte(gs, n, 0 + i - 1)]
    BY Zenon DEF Contents, Slice
  <1>5. ASSUME NEW i \in 1 .. size PROVE Byte(gs, n, 0 + i - 1) = c[i]
    <2>1. 0 + i - 1 \in Nat /\ 0 + i - 1 < size /\ i \in 1 .. old
      BY <1>1
    <2> QED
      BY <1>2, <2>1, Zenon
  <1>6. [i \in 1 .. size |-> Byte(gs, n, 0 + i - 1)] = [i \in 1 .. size |-> c[i]]
    BY <1>5, Zenon
  <1> QED
    BY <1>1, <1>2, <1>3, <1>4, <1>6, Zenon DEF c

=============================================================================
