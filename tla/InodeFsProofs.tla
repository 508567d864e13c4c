--------------------------- MODULE InodeFsProofs ---------------------------
(***************************************************************************)
(* The i-node file system: for every size of the table and of the blocks,  *)
(* every set of names and every data, as long as the two B-trees give back *)
(* what was put into them.                                                 *)
(***************************************************************************)
EXTENDS InodeFs, InodesProofs, FiniteSetTheorems

LEMMA LeastNumber ==
    ASSUME NEW T, T \subseteq Nat, T # {}
    PROVE  \E x \in T : \A y \in T : x <= y
  <1>1. \E x \in T : \A y \in T : ~(<<y, x>> \in OpToRel(<, Nat))
    BY NatLessThanWellFounded, WFMin, Zenon
  <1>2. PICK x \in T : \A y \in T : ~(<<y, x>> \in OpToRel(<, Nat))
    BY <1>1, Zenon
  <1>3. \A y, z \in Nat : y < z => <<y, z>> \in OpToRel(<, Nat)
    <2> TAKE y, z \in Nat
    <2> HAVE y < z
    <2> DEFINE ss == <<y, z>>
    <2>1. ss \in Nat \X Nat /\ ss[1] < ss[2]
      OBVIOUS
    <2>2. ss \in {r \in Nat \X Nat : r[1] < r[2]}
      BY <2>1
    <2> QED
      BY <2>2, Zenon DEF OpToRel
  <1>4. ASSUME NEW y \in T PROVE x <= y
    <2>1. x \in Nat /\ y \in Nat
      BY <1>4
    <2>2. ~(y < x)
      BY <1>2, <1>3, <2>1, Zenon
    <2> QED
      BY <2>1, <2>2
  <1> QED
    BY <1>4

\* The facts on sets that the lemmas on the i-nodes rest on.
LEMMA LibraryFacts == SetFacts
  <1>1. \A S \in SUBSET Nat : S # {} => \E x \in S : \A y \in S : x <= y
    BY LeastNumber, Zenon
  <1>2. \A a, b \in Int : IsFiniteSet(a .. b)
    BY FS_Interval, Zenon
  <1>3. \A S : IsFiniteSet(S) => Cardinality(S) \in Nat
    BY FS_CardinalityType, Zenon
  <1>4. \A S, T : IsFiniteSet(S) /\ T \subseteq S => IsFiniteSet(T)
    BY FS_Subset, Zenon
  <1>5. Cardinality({}) = 0
    BY FS_EmptySet, Zenon
  <1>6. \A S, x : IsFiniteSet(S) /\ x \notin S => Cardinality(S \cup {x}) = Cardinality(S) + 1
    BY FS_AddElement, Zenon
  <1>7. \A S, T : IsFiniteSet(S) /\ T \subseteq S =>
                  Cardinality(S \ T) = Cardinality(S) - Cardinality(T)
    <2> TAKE S, T
    <2> HAVE IsFiniteSet(S) /\ T \subseteq S
    <2>1. S \cap T = T
      BY Zenon
    <2>2. Cardinality(S \ T) = Cardinality(S) - Cardinality(S \cap T)
      BY FS_Difference, Zenon
    <2> QED
      BY <2>1, <2>2, Zenon
  <1>8. \A S, T, f : IsFiniteSet(S) /\ T = {f[x] : x \in S}
                       /\ (\A x, y \in S : f[x] = f[y] => x = y) =>
                    Cardinality(T) = Cardinality(S)
    <2> TAKE S, T, f
    <2> HAVE IsFiniteSet(S) /\ T = {f[x] : x \in S}
             /\ (\A x, y \in S : f[x] = f[y] => x = y)
    <2> DEFINE g == [x \in S |-> f[x]]
    <2>1. g \in Surjection(S, T)
      BY DEF Surjection
    <2>2. g \in Injection(S, T)
      BY DEF Injection, IsInjective
    <2>3. ExistsBijection(S, T)
      <3>1. g \in Bijection(S, T)
        BY <2>1, <2>2 DEF Bijection
      <3> QED
        BY <3>1, Zenon DEF ExistsBijection
    <2> QED
      BY <2>3, FS_Bijection, Zenon
  <1> QED
    BY <1>1, <1>2, <1>3, <1>4, <1>5, <1>6, <1>7, <1>8, Zenon DEF SetFacts

\* The file of a name, and the i-node it was created with.
NameKept(name) ==
    /\ number[name] \in InUse(fs)
    /\ number[name] \notin lost.unnamed
    /\ files[name] = Contents(fs, number[name])
    /\ number[name] \in lost.unindexed => files[name] = <<>>

\* The i-nodes of the names in D.
Numbers(f, D) == {f[name] : name \in D}

\* The inductive invariant.  A file whose i-node is not found by number was
\* never written.
FilesInv ==
    state = "running" =>
        /\ TableInv(fs)
        /\ DOMAIN files = DOMAIN number /\ DOMAIN files \subseteq Names
        /\ \A name \in DOMAIN files : NameKept(name)
        /\ \A name, other \in DOMAIN files : number[name] = number[other] => name = other
        /\ InUse(fs) = lost.unnamed \cup Numbers(number, DOMAIN files)

\* A name that is found has a file, and the i-node is the file's.
LEMMA OpenIs ==
    ASSUME FilesInv, TreesRight, state = "running", NEW name \in Names, btree_fs_open(name) # -1
    PROVE  /\ name \in DOMAIN files /\ name \in DOMAIN number
           /\ btree_fs_open(name) = number[name]
  BY Zenon DEF FilesInv, TreesRight

LEMMA OpenFails ==
    ASSUME FilesInv, TreesRight, state = "running", NEW name \in Names, btree_fs_open(name) = -1
    PROVE  name \notin DOMAIN files /\ name \notin DOMAIN number
  <1> SUFFICES ASSUME name \in DOMAIN number PROVE FALSE
    BY Zenon DEF FilesInv
  <1>1. number[name] = -1
    BY Zenon DEF TreesRight
  <1>2. number[name] \in InodeNums
    BY Zenon DEF FilesInv, NameKept, InUse
  <1> QED
    BY <1>1, <1>2 DEF InodeNums

\* At the start there is no file.
LEMMA FilesInit == Init => FilesInv
  <1> SUFFICES ASSUME Init PROVE FilesInv
    OBVIOUS
  <1>1. Core(fs) /\ InUse(fs) = {}
    BY LibraryFacts, CoreInitial, Zenon DEF Init
  <1>2. DOMAIN files = {} /\ DOMAIN number = {} /\ lost.unnamed = {}
    BY DEF Init
  <1> QED
    BY <1>1, <1>2, Zenon DEF FilesInv, TableInv, Numbers

\* The i-nodes of one name more, and of one name less.
LEMMA NumbersMore ==
    ASSUME NEW f, NEW g, NEW D, NEW name, \A m \in D : g[m] = f[m]
    PROVE  Numbers(g, D \cup {name}) = Numbers(f, D) \cup {g[name]}
  BY Zenon DEF Numbers

LEMMA NumbersLess ==
    ASSUME NEW f, NEW g, NEW D, NEW name \in D,
           \A m \in D \ {name} : g[m] = f[m] /\ f[m] # f[name]
    PROVE  Numbers(g, D \ {name}) = Numbers(f, D) \ {f[name]}
  BY Zenon DEF Numbers

\* The file of a name whose i-node does not change.
LEMMA NameStays ==
    ASSUME NEW name \in DOMAIN files, NameKept(name), FilesAsBefore(fs', fs, {number[name]}),
           number'[name] = number[name], files'[name] = files[name],
           number[name] \in InUse(fs'),
           number[name] \in lost'.unnamed => number[name] \in lost.unnamed,
           number[name] \in lost'.unindexed => number[name] \in lost.unindexed
    PROVE  NameKept(name)'
  BY Zenon DEF NameKept, FilesAsBefore

LEMMA WriteKeepsFiles ==
    ASSUME FilesInv, TreesRight, NEW name \in Names, NEW data \in Data,
           NEW offset \in 0 .. (DIRECT_BLOCKS * FS_BLOCK_SIZE), write(name, data, offset)
    PROVE  FilesInv'
  <1> DEFINE n == btree_fs_open(name)
             r == inode_write(fs, n, data, offset)
  <1>1. /\ state = "running" /\ n # -1 /\ inode_get(n)
        /\ offset = 0 \/ offset = fs.inodes[n].size
        /\ fs' = r.fs
        /\ files' = [files EXCEPT ![name] = Overwrite(files[name], data, offset, r.ret)]
        /\ number' = number /\ lost' = lost /\ state' = state
    BY Zenon DEF write
  <1>2. name \in DOMAIN files /\ name \in DOMAIN number /\ n = number[name]
    BY <1>1, OpenIs, Zenon
  <1>3. n \notin lost.unindexed
    BY <1>1, <1>2, Zenon DEF TreesRight
  <1> HIDE DEF n
  <1>4. /\ TableInv(fs)
        /\ DOMAIN files = DOMAIN number /\ DOMAIN files \subseteq Names
        /\ \A other \in DOMAIN files : NameKept(other)
        /\ \A one, other \in DOMAIN files : number[one] = number[other] => one = other
        /\ InUse(fs) = lost.unnamed \cup Numbers(number, DOMAIN files)
    BY <1>1, Zenon DEF FilesInv
  <1>5. n \in InUse(fs) /\ n \notin lost.unnamed /\ files[name] = Contents(fs, n)
    BY <1>2, <1>4, Zenon DEF NameKept
  <1>6. data \in Seq(0 .. 255)
    BY InodeFsAssumption, Zenon
  <1>7. offset \in Nat /\ offset <= fs.inodes[n].size
    <2> DEFINE size == fs.inodes[n].size
    <2>1. size \in Nat
      BY <1>4, <1>5, SizeBound, Zenon
    <2>2. offset = 0 \/ offset = size
      BY <1>1, Zenon
    <2> HIDE DEF size
    <2>3. offset \in Nat /\ offset <= size
      BY <2>1, <2>2
    <2> QED
      BY <2>3, Zenon DEF size
  <1>8. Wrote(fs', r.ret, fs, n, data, offset)
    BY <1>1, <1>4, <1>5, <1>6, <1>7, LibraryFacts, InodeWriteIs
  <1> DEFINE w == r.ret
  <1> HIDE DEF w, r
  <1>9. Wrote(fs', w, fs, n, data, offset)
    BY <1>8, Zenon DEF w
  <1>10. /\ Contents(fs', n) = Overwrite(Contents(fs, n), data, offset, w)
         /\ \A m \in InUse(fs) \ {n} : Contents(fs', m) = Contents(fs, m)
    <2>1. TableInv(fs) /\ n \in InUse(fs)
      BY <1>4, <1>5, Zenon
    <2>2. PICK gs : gs = fs'
      BY Zenon
    <2>3. Wrote(gs, w, fs, n, data, offset)
      BY <1>9, <2>2, Zenon
    <2>4. /\ Contents(gs, n) = Overwrite(Contents(fs, n), data, offset, w)
          /\ \A m \in InUse(fs) \ {n} : Contents(gs, m) = Contents(fs, m)
      BY <1>6, <1>7, <2>1, <2>3, WriteContents
    <2> QED
      BY <2>2, <2>4, Zenon
  <1>11. TableInv(fs') /\ InUse(fs') = InUse(fs) /\ \A m \in InUse(fs) \ {n} : fs'.inodes[m] = fs.inodes[m]
    BY <1>9, Zenon DEF Wrote
  <1>12. DOMAIN files' = DOMAIN files /\ files'[name] = Overwrite(files[name], data, offset, w)
         /\ \A other \in DOMAIN files : other # name => files'[other] = files[other]
    BY <1>1, <1>2, Zenon DEF w
  <1>13. NameKept(name)'
    BY <1>1, <1>2, <1>3, <1>5, <1>10, <1>11, <1>12, Zenon DEF NameKept
  <1>14. ASSUME NEW other \in DOMAIN files, other # name PROVE NameKept(other)'
    <2>1. number[other] # n /\ NameKept(other)
      BY <1>2, <1>4, <1>14, Zenon
    <2>2. number[other] \in InUse(fs)
      BY <2>1, Zenon DEF NameKept
    <2> QED
      BY <1>1, <1>10, <1>11, <1>12, <1>14, <2>1, <2>2, Zenon DEF NameKept
  <1> QED
    <2>1. \A other \in DOMAIN files' : NameKept(other)'
      BY <1>12, <1>13, <1>14, Zenon
    <2>2. InUse(fs') = lost'.unnamed \cup Numbers(number', DOMAIN files')
      BY <1>1, <1>4, <1>11, <1>12, Zenon
    <2> QED
      BY <1>1, <1>4, <1>11, <1>12, <2>1, <2>2, Zenon DEF FilesInv

LEMMA TruncateKeepsFiles ==
    ASSUME FilesInv, TreesRight, NEW name \in Names,
           NEW size \in 0 .. (DIRECT_BLOCKS * FS_BLOCK_SIZE), truncate(name, size)
    PROVE  FilesInv'
  <1> DEFINE n == btree_fs_open(name)
             old == fs.inodes[n].size
  <1>1. /\ state = "running" /\ n # -1 /\ inode_get(n)
        /\ fs' = inode_truncate(fs, n, size)
        /\ files' = [files EXCEPT ![name] =
                        IF size < Len(files[name]) THEN SubSeq(files[name], 1, size) ELSE files[name]]
        /\ number' = number /\ lost' = lost /\ state' = state
    BY Zenon DEF truncate
  <1>2. name \in DOMAIN files /\ name \in DOMAIN number /\ n = number[name]
    BY <1>1, OpenIs, Zenon
  <1>3. n \notin lost.unindexed
    BY <1>1, <1>2, Zenon DEF TreesRight
  <1> HIDE DEF n
  <1>4. /\ TableInv(fs)
        /\ DOMAIN files = DOMAIN number /\ DOMAIN files \subseteq Names
        /\ \A other \in DOMAIN files : NameKept(other)
        /\ \A one, other \in DOMAIN files : number[one] = number[other] => one = other
        /\ InUse(fs) = lost.unnamed \cup Numbers(number, DOMAIN files)
    BY <1>1, Zenon DEF FilesInv
  <1>5. n \in InUse(fs) /\ n \notin lost.unnamed /\ files[name] = Contents(fs, n)
    BY <1>2, <1>4, Zenon DEF NameKept
  <1>6. old \in Nat /\ size \in Nat
    BY <1>4, <1>5, SizeBound
  <1>7. Len(files[name]) = old
    <2>1. TableInv(fs)
      BY <1>4, Zenon
    <2> QED
      BY <1>5, <2>1, ContentsType, Zenon
  <1>8. CASE size < old
    <2>1. /\ TableInv(fs') /\ InUse(fs') = InUse(fs)
          /\ FilesAsBefore(fs', fs, InUse(fs) \ {n})
          /\ fs'.inodes[n].size = size
          /\ \A i \in Nat : i < size => Byte(fs', n, i) = Byte(fs, n, i)
      <3>1. TableInv(fs) /\ n \in InUse(fs) /\ size < fs.inodes[n].size
        BY <1>4, <1>5, <1>8, Zenon
      <3>2. PICK gs : gs = fs'
        BY Zenon
      <3>3. gs = inode_truncate(fs, n, size)
        BY <1>1, <3>2, Zenon
      <3>4. Truncated(gs, fs, n, size)
        BY <1>6, <3>1, <3>3, LibraryFacts, TruncateKeeps
      <3> QED
        BY <3>2, <3>4, Zenon DEF Truncated
    <2>2. Contents(fs', n) = SubSeq(Contents(fs, n), 1, size)
      <3>1. TableInv(fs) /\ n \in InUse(fs) /\ size < fs.inodes[n].size
        BY <1>4, <1>5, <1>8, Zenon
      <3>2. PICK gs : gs = fs'
        BY Zenon
      <3>3. gs.inodes[n].size = size /\ \A i \in Nat : i < size => Byte(gs, n, i) = Byte(fs, n, i)
        BY <2>1, <3>2, Zenon
      <3>4. Contents(gs, n) = SubSeq(Contents(fs, n), 1, size)
        BY <1>6, <3>1, <3>3, TruncateContents
      <3> QED
        BY <3>2, <3>4, Zenon
    <2>3. DOMAIN files' = DOMAIN files /\ files'[name] = SubSeq(files[name], 1, size)
          /\ \A other \in DOMAIN files : other # name => files'[other] = files[other]
      BY <1>1, <1>2, <1>7, <1>8, Zenon
    <2>4. NameKept(name)'
      BY <1>1, <1>2, <1>3, <1>5, <2>1, <2>2, <2>3, Zenon DEF NameKept
    <2>5. ASSUME NEW other \in DOMAIN files, other # name PROVE NameKept(other)'
      <3>1. number[other] # n /\ NameKept(other)
        BY <1>2, <1>4, <2>5, Zenon
      <3>2. number[other] \in InUse(fs)
        BY <3>1, Zenon DEF NameKept
      <3> QED
        BY <1>1, <2>1, <2>3, <2>5, <3>1, <3>2, Zenon DEF NameKept, FilesAsBefore
    <2> QED
      <3>1. \A other \in DOMAIN files' : NameKept(other)'
        BY <2>3, <2>4, <2>5, Zenon
      <3>2. InUse(fs') = lost'.unnamed \cup Numbers(number', DOMAIN files')
        BY <1>1, <1>4, <2>1, <2>3, Zenon
      <3> QED
        BY <1>1, <1>4, <2>1, <2>3, <3>1, <3>2, Zenon DEF FilesInv
  <1>9. CASE ~(size < old)
    <2>1. size >= old
      <3> HIDE DEF old
      <3> QED
        BY <1>6, <1>9
    <2>2. fs' = fs
      BY <1>1, <2>1, Zenon DEF inode_truncate
    <2>3. files' = [files EXCEPT ![name] = files[name]]
      BY <1>1, <1>7, <1>9, Zenon
    <2>4. DOMAIN files' = DOMAIN files /\ \A other \in DOMAIN files : files'[other] = files[other]
      BY <2>3, Zenon
    <2> QED
      <3>1. \A other \in DOMAIN files' : NameKept(other)'
        BY <1>1, <1>4, <2>2, <2>4, Zenon DEF NameKept
      <3>2. InUse(fs') = lost'.unnamed \cup Numbers(number', DOMAIN files')
        BY <1>1, <1>4, <2>2, <2>4, Zenon
      <3> QED
        BY <1>1, <1>4, <2>2, <2>4, <3>1, <3>2, Zenon DEF FilesInv
  <1> QED
    BY <1>8, <1>9, Zenon

LEMMA CreateKeepsFiles ==
    ASSUME FilesInv, TreesRight, NEW name \in Names, NEW room, btree_fs_create(name, room)
    PROVE  FilesInv'
  <1>1. state = "running" /\ ~create_refused(name)
    BY Zenon DEF btree_fs_create
  <1>2. PICK n, ret, missed :
            /\ n = Least(FreeInodeNums(fs))
            /\ fs' = TakeInode(fs, n)
            /\ files' = IF ret = 0 THEN With(files, name, <<>>) ELSE files
            /\ number' = IF ret = 0 THEN With(number, name, n) ELSE number
            /\ lost' = [unnamed |-> lost.unnamed \cup (IF ret = 0 THEN {} ELSE {n}),
                        unindexed |-> lost.unindexed \cup missed]
            /\ missed \subseteq {n}
    <2>1. PICK n \in {Least(FreeInodeNums(fs))} :
          \E o1 \in {btree_insert(mem, inode_tree, n, InodeAt(n), room)} :
          \E o2 \in {btree_insert(o1.mem, name_tree, hash_string(name), InodeAt(n),
                                  RoomLeft(room, o1.mem))} :
              /\ fs' = TakeInode(fs, n)
              /\ files' = IF o2.ret = 0 THEN With(files, name, <<>>) ELSE files
              /\ number' = IF o2.ret = 0 THEN With(number, name, n) ELSE number
              /\ lost' = [unnamed |-> lost.unnamed \cup (IF o2.ret = 0 THEN {} ELSE {n}),
                          unindexed |-> lost.unindexed \cup
                            (IF btree_search(o1.mem, o1.tree.root, n) # NULL THEN {} ELSE {n})]
      BY Zenon DEF btree_fs_create
    <2>2. PICK o1, o2 :
              /\ fs' = TakeInode(fs, n)
              /\ files' = IF o2.ret = 0 THEN With(files, name, <<>>) ELSE files
              /\ number' = IF o2.ret = 0 THEN With(number, name, n) ELSE number
              /\ lost' = [unnamed |-> lost.unnamed \cup (IF o2.ret = 0 THEN {} ELSE {n}),
                          unindexed |-> lost.unindexed \cup
                            (IF btree_search(o1.mem, o1.tree.root, n) # NULL THEN {} ELSE {n})]
      BY <2>1, Zenon
    <2>3. PICK missed : missed = IF btree_search(o1.mem, o1.tree.root, n) # NULL THEN {} ELSE {n}
      BY Zenon
    <2>4. missed \subseteq {n}
      BY <2>3, Zenon
    <2>5. n = Least(FreeInodeNums(fs))
      BY <2>1, Zenon
    <2> QED
      BY <2>2, <2>3, <2>4, <2>5, Zenon
  <1>3. name \notin DOMAIN files /\ name \notin DOMAIN number
    BY <1>1, OpenFails, Zenon DEF create_refused
  <1>4. /\ TableInv(fs)
        /\ DOMAIN files = DOMAIN number /\ DOMAIN files \subseteq Names
        /\ \A other \in DOMAIN files : NameKept(other)
        /\ \A one, other \in DOMAIN files : number[one] = number[other] => one = other
        /\ InUse(fs) = lost.unnamed \cup Numbers(number, DOMAIN files)
    BY <1>1, Zenon DEF FilesInv
  <1>5. n \in FreeInodeNums(fs)
    <2>1. FreeInodeNums(fs) # {}
      BY <1>1, Zenon DEF create_refused
    <2>2. FreeInodeNums(fs) \subseteq Nat
      BY Sizes DEF FreeInodeNums, InodeNums
    <2> QED
      BY <1>2, <2>1, <2>2, LibraryFacts, LeastIs, Zenon
  <1>6. /\ TableInv(fs') /\ InUse(fs') = InUse(fs) \cup {n} /\ n \notin InUse(fs)
        /\ FilesAsBefore(fs', fs, InUse(fs))
        /\ Contents(fs', n) = <<>>
    <2>1. TableInv(fs)
      BY <1>4, Zenon
    <2>2. PICK gs : gs = fs'
      BY Zenon
    <2>3. gs = TakeInode(fs, n)
      BY <1>2, <2>2, Zenon
    <2>4. /\ TableInv(gs) /\ InUse(gs) = InUse(fs) \cup {n} /\ n \notin InUse(fs)
          /\ FilesAsBefore(gs, fs, InUse(fs))
          /\ Contents(gs, n) = <<>>
      BY <1>5, <2>1, <2>3, LibraryFacts, TakeKeeps
    <2> QED
      BY <2>2, <2>4, Zenon
  <1>7. /\ lost'.unnamed = lost.unnamed \cup (IF ret = 0 THEN {} ELSE {n})
        /\ lost'.unindexed = lost.unindexed \cup missed
    BY <1>2
  <1>8. n \notin lost.unnamed /\ n \notin Numbers(number, DOMAIN files)
    BY <1>4, <1>6, Zenon
  <1>9. ASSUME NEW other \in DOMAIN files PROVE NameKept(other)'
    <2>1. NameKept(other)
      BY <1>4, Zenon
    <2>2. number[other] \in InUse(fs) /\ number[other] # n
      BY <1>6, <2>1, Zenon DEF NameKept
    <2>3. number[other] \in InUse(fs') /\ FilesAsBefore(fs', fs, {number[other]})
      BY <1>6, <2>2, Zenon DEF FilesAsBefore
    <2>4. /\ number[other] \in lost'.unnamed => number[other] \in lost.unnamed
          /\ number[other] \in lost'.unindexed => number[other] \in lost.unindexed
      BY <1>2, <1>7, <2>2, Zenon
    <2>5. number'[other] = number[other] /\ files'[other] = files[other]
      BY <1>2, <1>3, <1>4, Zenon DEF With
    <2> QED
      BY <2>1, <2>3, <2>4, <2>5, NameStays, Zenon
  <1>10. CASE ret = 0
    <2>1. /\ files' = With(files, name, <<>>)
          /\ number' = With(number, name, n)
          /\ lost'.unnamed = lost.unnamed
      BY <1>2, <1>7, <1>10, Zenon
    <2>2. /\ DOMAIN files' = DOMAIN files \cup {name} /\ DOMAIN number' = DOMAIN number \cup {name}
          /\ files'[name] = <<>> /\ number'[name] = n
          /\ \A other \in DOMAIN files : number'[other] = number[other]
      BY <1>3, <1>4, <2>1, Zenon DEF With
    <2>3. NameKept(name)'
      BY <1>6, <1>8, <2>1, <2>2, Zenon DEF NameKept
    <2>4. \A other \in DOMAIN files' : NameKept(other)'
      BY <1>9, <2>2, <2>3, Zenon
    <2>5. \A other \in DOMAIN files : number[other] # n
      BY <1>8, Zenon DEF Numbers
    <2>6. \A one, other \in DOMAIN files' : number'[one] = number'[other] => one = other
      BY <1>4, <2>2, <2>5, Zenon
    <2>7. InUse(fs') = lost'.unnamed \cup Numbers(number', DOMAIN files')
      <3>1. Numbers(number', DOMAIN files') = Numbers(number, DOMAIN files) \cup {n}
        <4>1. PICK g : g = number'
          BY Zenon
        <4>2. PICK D : D = DOMAIN files
          BY Zenon
        <4>3. \A m \in D : g[m] = number[m]
          BY <2>2, <4>1, <4>2, Zenon
        <4>4. Numbers(g, D \cup {name}) = Numbers(number, D) \cup {g[name]}
          BY <4>3, NumbersMore
        <4> QED
          BY <2>2, <4>1, <4>2, <4>4, Zenon
      <3> QED
        BY <1>4, <1>6, <2>1, <3>1, Zenon
    <2> QED
      BY <1>4, <1>6, <2>2, <2>4, <2>6, <2>7, Zenon DEF FilesInv
  <1>11. CASE ret # 0
    <2>1. files' = files /\ number' = number /\ lost'.unnamed = lost.unnamed \cup {n}
      BY <1>2, <1>7, <1>11, Zenon
    <2>2. InUse(fs') = lost'.unnamed \cup Numbers(number', DOMAIN files')
      BY <1>4, <1>6, <2>1, Zenon
    <2>3. \A other \in DOMAIN files' : NameKept(other)'
      BY <1>9, <2>1, Zenon
    <2> QED
      BY <1>4, <1>6, <2>1, <2>2, <2>3, Zenon DEF FilesInv
  <1> QED
    BY <1>10, <1>11, Zenon

LEMMA DeleteKeepsFiles ==
    ASSUME FilesInv, TreesRight, NEW name \in Names, btree_fs_delete(name)
    PROVE  FilesInv'
  <1> DEFINE n == btree_fs_open(name)
  <1>1. /\ state = "running" /\ n # -1
        /\ fs' = DropInode(fs, n)
        /\ lost' = [unnamed |-> lost.unnamed, unindexed |-> lost.unindexed \ {n}]
        /\ files' = Without(files, name)
        /\ number' = Without(number, name)
    BY Zenon DEF btree_fs_delete
  <1>2. name \in DOMAIN files /\ name \in DOMAIN number /\ n = number[name]
    BY <1>1, OpenIs, Zenon
  <1> HIDE DEF n
  <1>3. /\ TableInv(fs)
        /\ DOMAIN files = DOMAIN number /\ DOMAIN files \subseteq Names
        /\ \A other \in DOMAIN files : NameKept(other)
        /\ \A one, other \in DOMAIN files : number[one] = number[other] => one = other
        /\ InUse(fs) = lost.unnamed \cup Numbers(number, DOMAIN files)
    BY <1>1, Zenon DEF FilesInv
  <1>4. n \in InUse(fs) /\ n \notin lost.unnamed
    BY <1>2, <1>3, Zenon DEF NameKept
  <1>5. TableInv(fs') /\ InUse(fs') = InUse(fs) \ {n} /\ FilesAsBefore(fs', fs, InUse(fs'))
    <2>1. TableInv(fs)
      BY <1>3, Zenon
    <2>2. PICK gs : gs = fs'
      BY Zenon
    <2>3. gs = DropInode(fs, n)
      BY <1>1, <2>2, Zenon
    <2>4. TableInv(gs) /\ InUse(gs) = InUse(fs) \ {n} /\ FilesAsBefore(gs, fs, InUse(gs))
      BY <1>4, <2>1, <2>3, LibraryFacts, DropKeeps
    <2> QED
      BY <2>2, <2>4, Zenon
  <1>6. lost'.unnamed = lost.unnamed /\ lost'.unindexed \subseteq lost.unindexed
    BY <1>1
  <1>7. /\ DOMAIN files' = DOMAIN files \ {name} /\ DOMAIN number' = DOMAIN number \ {name}
        /\ \A other \in DOMAIN files' : number'[other] = number[other] /\ files'[other] = files[other]
    BY <1>1, <1>3, Zenon DEF Without
  <1>8. ASSUME NEW other \in DOMAIN files' PROVE NameKept(other)' /\ number[other] # n
    <2>1. other \in DOMAIN files /\ other # name /\ NameKept(other)
      BY <1>3, <1>7, Zenon
    <2>2. number[other] \in InUse(fs) /\ number[other] # n
      BY <1>2, <1>3, <2>1, Zenon DEF NameKept
    <2>3. number[other] \in InUse(fs') /\ FilesAsBefore(fs', fs, {number[other]})
      BY <1>5, <2>2, Zenon DEF FilesAsBefore
    <2> QED
      BY <1>6, <1>7, <2>1, <2>2, <2>3, NameStays, Zenon
  <1>9. InUse(fs') = lost'.unnamed \cup Numbers(number', DOMAIN files')
    <2>1. Numbers(number', DOMAIN files') = Numbers(number, DOMAIN files) \ {n}
      <3>1. \A m \in DOMAIN files \ {name} : number'[m] = number[m] /\ number[m] # number[name]
        BY <1>2, <1>7, <1>8, Zenon
      <3> QED
        <4>1. PICK g : g = number'
          BY Zenon
        <4>2. PICK D : D = DOMAIN files
          BY Zenon
        <4>3. name \in D /\ \A m \in D \ {name} : g[m] = number[m] /\ number[m] # number[name]
          BY <1>2, <3>1, <4>1, <4>2, Zenon
        <4>4. Numbers(g, D \ {name}) = Numbers(number, D) \ {number[name]}
          BY <4>3, NumbersLess
        <4> QED
          BY <1>2, <1>7, <4>1, <4>2, <4>4, Zenon
    <2> QED
      BY <1>3, <1>4, <1>5, <1>6, <2>1, Zenon
  <1>10. \A one, other \in DOMAIN files' : number'[one] = number'[other] => one = other
    BY <1>3, <1>7, Zenon
  <1> QED
    BY <1>3, <1>5, <1>7, <1>8, <1>9, <1>10, Zenon DEF FilesInv

LEMMA FilesNext ==
    ASSUME FilesInv, TreesRight, [Next]_vars
    PROVE  FilesInv'
  <1>1. CASE UNCHANGED vars
    <2>1. fs' = fs /\ files' = files /\ number' = number /\ lost' = lost /\ state' = state
      BY <1>1, Zenon DEF vars
    <2> QED
      BY <2>1, Zenon DEF FilesInv, NameKept
  <1>2. ASSUME NEW name \in Names, NEW room \in 0 .. MaxRoom, btree_fs_create(name, room)
        PROVE  FilesInv'
    BY <1>2, CreateKeepsFiles, Zenon
  <1>3. ASSUME NEW name \in Names, NEW data \in Data,
               NEW offset \in 0 .. (DIRECT_BLOCKS * FS_BLOCK_SIZE), write(name, data, offset)
        PROVE  FilesInv'
    BY <1>3, WriteKeepsFiles, Zenon
  <1>4. ASSUME NEW name \in Names, NEW size \in 0 .. (DIRECT_BLOCKS * FS_BLOCK_SIZE),
               truncate(name, size)
        PROVE  FilesInv'
    BY <1>4, TruncateKeepsFiles, Zenon
  <1>5. ASSUME NEW name \in Names, btree_fs_delete(name) PROVE FilesInv'
    BY <1>5, DeleteKeepsFiles, Zenon
  <1>6. ASSUME NEW name \in Names, refused(name) PROVE FilesInv'
    BY <1>1, <1>6, Zenon DEF refused
  <1>7. CASE Over
    BY <1>1, <1>7, Zenon DEF Over
  <1> QED
    BY <1>1, <1>2, <1>3, <1>4, <1>5, <1>6, <1>7, Zenon DEF Next

\* Every file reads back what was written to it, whatever happened to other
\* files, their i-nodes and their blocks, as long as the trees are right.
THEOREM FilesReadBack == Spec /\ []TreesRight => []FilesRead
  <1>1. FilesInv /\ TreesRight => FilesRead
    <2> SUFFICES ASSUME FilesInv, TreesRight, state = "running"
                 PROVE  /\ \A name \in Names : name \in DOMAIN files <=> btree_fs_open(name) # -1
                        /\ \A name \in DOMAIN files :
                             LET n == btree_fs_open(name)
                             IN  /\ n \in InUse(fs)
                                 /\ \A other \in DOMAIN files \ {name} : btree_fs_open(other) # n
                                 /\ btree_fs_read(name, DIRECT_BLOCKS * FS_BLOCK_SIZE + 1) = files[name]
                        /\ InUse(fs) = lost.unnamed \cup {btree_fs_open(name) : name \in DOMAIN files}
      BY Zenon DEF FilesRead
    <2>1. \A name \in Names : name \in DOMAIN files <=> btree_fs_open(name) # -1
      BY OpenIs, OpenFails, Zenon
    <2>2. /\ TableInv(fs)
          /\ DOMAIN files = DOMAIN number /\ DOMAIN files \subseteq Names
          /\ \A other \in DOMAIN files : NameKept(other)
          /\ \A one, other \in DOMAIN files : number[one] = number[other] => one = other
          /\ InUse(fs) = lost.unnamed \cup Numbers(number, DOMAIN files)
      BY Zenon DEF FilesInv
    <2>3. \A name \in DOMAIN files : btree_fs_open(name) = number[name]
      BY <2>2, Zenon DEF TreesRight
    <2>4. ASSUME NEW name \in DOMAIN files
          PROVE  btree_fs_read(name, DIRECT_BLOCKS * FS_BLOCK_SIZE + 1) = files[name]
      <3> DEFINE n == number[name]
                 size == DIRECT_BLOCKS * FS_BLOCK_SIZE + 1
      <3>1. /\ n \in InUse(fs) /\ files[name] = Contents(fs, n)
            /\ n \in lost.unindexed => files[name] = <<>>
        BY <2>2, Zenon DEF NameKept
      <3>2. n # -1
        BY <2>1, <2>2, <2>3, Zenon
      <3>3. btree_fs_read(name, size) = IF ~inode_get(n) THEN <<>> ELSE inode_read(fs, n, 0, size)
        BY <2>3, <3>2, Zenon DEF btree_fs_read
      <3>4. inode_get(n) <=> n \notin lost.unindexed
        BY <2>2, Zenon DEF TreesRight
      <3>5. TableInv(fs)
        BY <2>2, Zenon
      <3>6. inode_read(fs, n, 0, size) = Contents(fs, n)
        BY <3>1, <3>5, LibraryFacts, ReadsContents, Zenon
      <3> HIDE DEF size
      <3> QED
        BY <3>1, <3>3, <3>4, <3>6, Zenon DEF size
    <2>5. \A name \in DOMAIN files : btree_fs_open(name) \in InUse(fs)
      BY <2>2, <2>3, Zenon DEF NameKept
    <2>6. \A name, other \in DOMAIN files : other # name => btree_fs_open(other) # btree_fs_open(name)
      BY <2>2, <2>3, Zenon
    <2>7. Numbers(number, DOMAIN files) = {btree_fs_open(name) : name \in DOMAIN files}
      BY <2>3, Zenon DEF Numbers
    <2> QED
      BY <2>1, <2>2, <2>4, <2>5, <2>6, <2>7, Zenon
  <1>2. FilesInv /\ TreesRight /\ [Next]_vars => FilesInv'
    BY FilesNext, Zenon
  <1> QED
    BY <1>1, <1>2, FilesInit, PTL DEF Spec

\* No block is lost or held twice, and the counters count, as long as the trees
\* are right.
THEOREM BlocksSafe == Spec /\ []TreesRight => []BlocksOwned
  <1>1. FilesInv => BlocksOwned
    <2> SUFFICES ASSUME FilesInv, state = "running"
                 PROVE  BlocksMarked(fs) /\ Counted(fs) /\ \A n \in InUse(fs) : NoHoles(fs.inodes[n])
      BY Zenon DEF BlocksOwned
    <2>1. TableInv(fs)
      BY Zenon DEF FilesInv
    <2>2. \A n \in InUse(fs) : NoHoles(fs.inodes[n])
      BY <2>1, TableHasNoHoles, Zenon
    <2> QED
      BY <2>1, <2>2, Zenon DEF TableInv, Core
  <1>2. FilesInv /\ TreesRight /\ [Next]_vars => FilesInv'
    BY FilesNext, Zenon
  <1> QED
    BY <1>1, <1>2, FilesInit, PTL DEF Spec

=============================================================================
