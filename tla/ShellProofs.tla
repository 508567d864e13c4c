---------------------------- MODULE ShellProofs ----------------------------
(***************************************************************************)
(* The RAM file system, for every number of slots, every heap and every    *)
(* set of names and sizes; and the shell on top of it, for every set of    *)
(* lines.                                                                  *)
(***************************************************************************)
EXTENDS Shell, TLAPS, FiniteSetTheorems


\* A set of natural numbers has a least element.
LEMMA LeastNat ==
    ASSUME NEW T, T \subseteq Nat, T # {}
    PROVE  \E x \in T : \A y \in T : x <= y
  <1>1. \E x \in T : \A y \in T : ~(<<y, x>> \in OpToRel(<, Nat))
    BY NatLessThanWellFounded, WFMin, Zenon
  <1>2. PICK x \in T : \A y \in T : ~(<<y, x>> \in OpToRel(<, Nat))
    BY <1>1, Zenon
  <1>3. \A y, z \in Nat : y < z => <<y, z>> \in OpToRel(<, Nat)
    <2> TAKE y, z \in Nat
    <2> HAVE y < z
    <2> DEFINE ss == <<y, z>>
    <2>1. ss \in Nat \X Nat /\ ss[1] < ss[2]
      OBVIOUS
    <2>2. ss \in {r \in Nat \X Nat : r[1] < r[2]}
      BY <2>1
    <2> QED
      BY <2>2, Zenon DEF OpToRel
  <1>4. ASSUME NEW y \in T PROVE x <= y
    <2>1. x \in Nat /\ y \in Nat
      BY <1>4
    <2>2. ~(y < x)
      BY <1>2, <1>3, <2>1, Zenon
    <2> QED
      BY <2>1, <2>2
  <1> QED
    BY <1>4

\* The loops of the code find a slot if there is one.
LEMMA FirstFound ==
    ASSUME NEW S, S \subseteq Slots, S # {}
    PROVE  First(S) \in S
  <1>1. S \subseteq Nat
    BY FileSystemAssumption DEF Slots
  <1> QED
    BY <1>1, LeastNat, Zenon DEF First

LEMMA LookupFound ==
    ASSUME NEW name, fs_exists(name)
    PROVE  Lookup(name) \in Used /\ files[Lookup(name)].name = name
  <1> DEFINE S == {i \in Used : files[i].name = name}
  <1>1. S \subseteq Slots /\ S # {}
    BY DEF fs_exists, Used
  <1>2. First(S) \in S
    BY <1>1, FirstFound
  <1> QED
    BY <1>2 DEF Lookup

-----------------------------------------------------------------------------
(***************************************************************************)
(* The inductive invariant: each file owns a range of the heap, and the    *)
(* ranges in use do not overlap.  The file system need not be the only     *)
(* user of the heap: it leaves the other ranges alone.                     *)
(***************************************************************************)

RangesApart ==
    /\ \A p \in DOMAIN live : p \in Nat /\ live[p] \in Nat \ {0} /\ p + live[p] <= HEAP_SIZE
    /\ \A p, q \in DOMAIN live : p # q => H!Apart(p, live[p], q, live[q])

FileData == {files[i].data : i \in Used}

FilesOwned ==
    /\ TypeOK
    /\ \A i, j \in Used : files[i].data = files[j].data => i = j
    /\ FileData \subseteq DOMAIN live
    /\ \A i \in Used : live[files[i].data] = files[i].size
    /\ file_count = Cardinality(Used)

FsInv == FilesOwned /\ NamesUnique /\ RangesApart

\* The buffers that belong to no file.
Others == DOMAIN live \ FileData

FileType == [name : Names \cup {NoName}, data : 0 .. HEAP_SIZE \cup {NULL},
             size : 0 .. MAX_FILESIZE, is_used : BOOLEAN]

\* The number of files, by sets of slots.
LEMMA SlotsFinite ==
    /\ IsFiniteSet(Slots) /\ Cardinality(Slots) = MAX_FILES
    /\ \A S : S \subseteq Slots => IsFiniteSet(S) /\ Cardinality(S) \in 0 .. MAX_FILES
  <1>1. MAX_FILES \in Nat \ {0}
    BY FileSystemAssumption
  <1>2. IsFiniteSet(Slots) /\ Cardinality(Slots) = MAX_FILES
    BY <1>1, FS_Interval DEF Slots
  <1>3. ASSUME NEW S, S \subseteq Slots
        PROVE  IsFiniteSet(S) /\ Cardinality(S) \in 0 .. MAX_FILES
    <2>1. IsFiniteSet(S) /\ Cardinality(S) <= Cardinality(Slots)
      BY <1>2, <1>3, FS_Subset
    <2>2. Cardinality(S) \in Nat
      BY <2>1, FS_CardinalityType
    <2> QED
      BY <1>1, <1>2, <2>1, <2>2
  <1> QED
    BY <1>2, <1>3

\* A successful kmalloc keeps the ranges apart and returns a new address.
LEMMA AllocApart ==
    ASSUME RangesApart, NEW n \in Nat, NEW p \in 0 .. HEAP_SIZE, H!Alloc(n, p)
    PROVE  /\ RangesApart' /\ p \notin DOMAIN live /\ n # 0
           /\ DOMAIN live' = DOMAIN live \cup {p} /\ live'[p] = n
           /\ \A q \in DOMAIN live : live'[q] = live[q]
  <1>0. HEAP_SIZE \in Nat /\ p \in Nat
    BY FileSystemAssumption
  <1>1. /\ n # 0 /\ p + n <= HEAP_SIZE
        /\ \A q \in DOMAIN live : H!Apart(p, n, q, live[q])
        /\ live' = [q \in DOMAIN live \cup {p} |-> IF q = p THEN n ELSE live[q]]
    BY DEF H!Alloc
  <1>2. \A q \in DOMAIN live : q # p
    BY <1>0, <1>1 DEF H!Apart, RangesApart
  <1>3. /\ DOMAIN live' = DOMAIN live \cup {p} /\ live'[p] = n
        /\ \A q \in DOMAIN live : live'[q] = live[q]
    BY <1>1, <1>2
  <1>4. \A q \in DOMAIN live' : q \in Nat /\ live'[q] \in Nat \ {0} /\ q + live'[q] <= HEAP_SIZE
    BY <1>0, <1>1, <1>3 DEF RangesApart
  <1>5. ASSUME NEW q \in DOMAIN live', NEW r \in DOMAIN live', q # r
        PROVE  H!Apart(q, live'[q], r, live'[r])
    <2>1. CASE q = p
      BY <1>1, <1>3, <1>5, <2>1
    <2>2. CASE r = p
      <3>1. H!Apart(p, n, q, live[q])
        BY <1>1, <1>3, <1>5, <2>2
      <3> QED
        BY <1>3, <1>5, <2>2, <3>1 DEF H!Apart
    <2>3. CASE q # p /\ r # p
      BY <1>3, <1>5, <2>3 DEF RangesApart
    <2> QED
      BY <2>1, <2>2, <2>3
  <1> QED
    BY <1>1, <1>2, <1>3, <1>4, <1>5 DEF RangesApart

\* So does kfree.
LEMMA FreeApart ==
    ASSUME RangesApart, NEW p, H!Free(p)
    PROVE  /\ RangesApart' /\ p \in DOMAIN live
           /\ DOMAIN live' = DOMAIN live \ {p}
           /\ \A q \in DOMAIN live' : live'[q] = live[q]
  <1>1. /\ p \in DOMAIN live /\ live' = [q \in DOMAIN live \ {p} |-> live[q]]
    BY DEF H!Free
  <1>2. DOMAIN live' = DOMAIN live \ {p} /\ \A q \in DOMAIN live' : live'[q] = live[q]
    BY <1>1
  <1>3. RangesApart'
    BY <1>2 DEF RangesApart
  <1> QED
    BY <1>1, <1>2, <1>3

LEMMA InitFs == Init => FsInv /\ Others = {}
  <1> SUFFICES ASSUME Init PROVE FsInv /\ Others = {}
    OBVIOUS
  <1>1. Used = {} /\ live = [p \in {} |-> 0] /\ file_count = 0
    BY DEF Init, Used, H!Init
  <1>2. files \in [Slots -> FileType]
    BY FileSystemAssumption DEF Init, FileType
  <1>3. Cardinality(Used) = 0
    BY <1>1, FS_EmptySet
  <1>4. TypeOK
    BY <1>1, <1>2, FileSystemAssumption DEF TypeOK, FileType, Init
  <1>5. DOMAIN live = {} /\ FileData = {}
    BY <1>1 DEF FileData
  <1> QED
    BY <1>1, <1>3, <1>4, <1>5 DEF FsInv, FilesOwned, NamesUnique, RangesApart, Others

\* A creation that fails half-way leaves a name in an unused slot.
LEMMA CreateFails ==
    ASSUME FsInv, NEW name \in Names, NEW size \in Nat, create_fails(name, size)
    PROVE  FsInv' /\ Others' = Others /\ Used' = Used /\ \A i \in Used : files'[i] = files[i]
  <1> DEFINE s == First(Slots \ Used)
  <1>1. TypeOK
    BY DEF FsInv, FilesOwned
  <1>2. s \in Slots \ Used
    <2>1. Slots \ Used # {}
      BY DEF create_fails, Refused, Used
    <2> QED
      BY <2>1, FirstFound
  <1> HIDE DEF s
  <1>3. files' = [files EXCEPT ![s] = [files[s] EXCEPT !.name = name, !.data = NULL]]
    <2>1. files \in [Slots -> FileType] /\ files[s] \in FileType
      BY <1>1, <1>2 DEF TypeOK, FileType
    <2>2. files' = [files EXCEPT ![s].name = name, ![s].data = NULL]
      BY DEF create_fails, s
    <2> QED
      BY <1>2, <2>1, <2>2, Zenon DEF FileType
  <1>4. files \in [Slots -> FileType] /\ files[s] \in FileType
    BY <1>1, <1>2 DEF TypeOK, FileType
  <1> DEFINE f == [files[s] EXCEPT !.name = name, !.data = NULL]
  <1>5. f \in FileType /\ f.is_used = files[s].is_used
    BY <1>4, Zenon DEF FileType
  <1> HIDE DEF f
  <1>6. files' \in [Slots -> FileType] /\ \A i \in Slots : i # s => files'[i] = files[i]
    BY <1>3, <1>4, <1>5, Zenon DEF f
  <1>7. files'[s].is_used = files[s].is_used
    BY <1>2, <1>3, <1>4, <1>5 DEF f
  <1>8. Used' = Used /\ \A i \in Used : files'[i] = files[i]
    BY <1>2, <1>6, <1>7 DEF Used
  <1>9. file_count' = file_count /\ live' = live /\ mem' = mem
    BY DEF create_fails
  <1>10. TypeOK'
    BY <1>1, <1>6, <1>8, <1>9 DEF TypeOK, FileType
  <1>11. FileData' = FileData /\ Others' = Others
    BY <1>8, <1>9 DEF FileData, Others
  <1>12. FilesOwned'
    BY <1>8, <1>9, <1>10, <1>11 DEF FsInv, FilesOwned
  <1>13. NamesUnique' /\ RangesApart'
    BY <1>8, <1>9 DEF FsInv, NamesUnique, RangesApart
  <1> QED
    BY <1>8, <1>11, <1>12, <1>13 DEF FsInv

\* The slot and the buffer of a new file.
LEMMA CreateFacts ==
    ASSUME FsInv, NEW name \in Names, NEW size \in Nat, create_succeeds(name, size)
    PROVE  \E s \in Slots, p \in 0 .. HEAP_SIZE :
             /\ s \notin Used /\ Used' = Used \cup {s}
             /\ H!Alloc(size, p) /\ size \in 1 .. MAX_FILESIZE
             /\ files' \in [Slots -> FileType]
             /\ files'[s] = [name |-> name, data |-> p, size |-> size, is_used |-> TRUE]
             /\ \A i \in Slots : i # s => files'[i] = files[i]
             /\ file_count' = file_count + 1 /\ mem' = mem
             /\ \A i \in Used : files[i].name # name
  <1> DEFINE s == First(Slots \ Used)
  <1>1. files \in [Slots -> FileType]
    BY DEF FsInv, FilesOwned, TypeOK, FileType
  <1>2. s \in Slots /\ s \notin Used
    <2>1. Slots \ Used # {}
      BY DEF create_succeeds, Refused, Used
    <2> QED
      BY <2>1, FirstFound
  <1>3. PICK p \in 0 .. HEAP_SIZE :
          /\ H!Alloc(size, p)
          /\ files' = [files EXCEPT ![s] =
                         [name |-> name, data |-> p, size |-> size, is_used |-> TRUE]]
    BY Zenon DEF create_succeeds
  <1> HIDE DEF s
  <1>4. size \in 1 .. MAX_FILESIZE
    <2>1. size # 0
      BY <1>3 DEF H!Alloc
    <2>2. ~(size > MAX_FILESIZE)
      BY DEF create_succeeds, Refused
    <2> QED
      BY <2>1, <2>2, FileSystemAssumption
  <1> DEFINE f == [name |-> name, data |-> p, size |-> size, is_used |-> TRUE]
  <1>5. f \in FileType /\ f.is_used
    BY <1>4 DEF FileType
  <1>6. files' = [files EXCEPT ![s] = f]
    BY <1>3
  <1> HIDE DEF f
  <1>7. /\ files' \in [Slots -> FileType] /\ files'[s] = f
        /\ \A i \in Slots : i # s => files'[i] = files[i]
    BY <1>1, <1>2, <1>5, <1>6
  <1>8. Used' = Used \cup {s}
    BY <1>2, <1>5, <1>7 DEF Used
  <1>9. file_count' = file_count + 1 /\ mem' = mem
    BY DEF create_succeeds
  <1>10. \A i \in Used : files[i].name # name
    BY DEF create_succeeds, Refused, fs_exists
  <1> QED
    BY <1>2, <1>3, <1>4, <1>7, <1>8, <1>9, <1>10, Zenon DEF f

LEMMA CreateKeeps ==
    ASSUME FsInv, NEW name \in Names, NEW size \in Nat, create_succeeds(name, size)
    PROVE  FsInv' /\ Others' = Others
  <1>1. PICK s \in Slots, p \in 0 .. HEAP_SIZE :
             /\ s \notin Used /\ Used' = Used \cup {s}
             /\ H!Alloc(size, p) /\ size \in 1 .. MAX_FILESIZE
             /\ files' \in [Slots -> FileType]
             /\ files'[s] = [name |-> name, data |-> p, size |-> size, is_used |-> TRUE]
             /\ \A i \in Slots : i # s => files'[i] = files[i]
             /\ file_count' = file_count + 1 /\ mem' = mem
             /\ \A i \in Used : files[i].name # name
    BY CreateFacts, Zenon
  <1>2. \A i \in Used : i # s /\ i \in Slots /\ files'[i] = files[i]
    BY <1>1 DEF Used
  <1>3. files'[s].name = name /\ files'[s].data = p /\ files'[s].size = size
    BY <1>1
  <1>4. /\ RangesApart' /\ p \notin DOMAIN live
        /\ DOMAIN live' = DOMAIN live \cup {p} /\ live'[p] = size
        /\ \A q \in DOMAIN live : live'[q] = live[q]
    BY <1>1, AllocApart, FileSystemAssumption, Zenon DEF FsInv
  <1>5. \A i \in Used : files[i].data \in DOMAIN live
    BY DEF FsInv, FilesOwned, FileData
  <1>6. file_count' = Cardinality(Used') /\ file_count' \in 0 .. MAX_FILES
    <2>1. IsFiniteSet(Used) /\ Used' \subseteq Slots
      BY <1>1, SlotsFinite DEF Used
    <2>2. Cardinality(Used \cup {s}) = Cardinality(Used) + 1
      BY <1>1, <2>1, FS_AddElement, Zenon
    <2>3. Cardinality(Used') \in 0 .. MAX_FILES
      BY <2>1, SlotsFinite
    <2>4. file_count = Cardinality(Used)
      BY DEF FsInv, FilesOwned
    <2> QED
      BY <1>1, <2>2, <2>3, <2>4
  <1>7. TypeOK'
    <2>1. \A i \in Used' : files'[i].data # NULL /\ files'[i].name # NoName
      <3>1. \A i \in Used : files[i].data # NULL /\ files[i].name # NoName
        BY DEF FsInv, FilesOwned, TypeOK
      <3>2. p # NULL /\ name # NoName
        BY NamesAssumption, FileSystemAssumption DEF NULL
      <3> QED
        BY <1>1, <1>2, <1>3, <3>1, <3>2
    <2>2. mem' \in [0 .. (HEAP_SIZE - 1) -> Bytes]
      BY <1>1 DEF FsInv, FilesOwned, TypeOK
    <2> QED
      BY <1>1, <1>6, <2>1, <2>2 DEF TypeOK, FileType
  <1>8. NamesUnique'
    BY <1>1, <1>2, <1>3 DEF FsInv, NamesUnique
  <1>9. \A i, j \in Used' : files'[i].data = files'[j].data => i = j
    <2>1. \A i \in Used : files'[i].data # p
      BY <1>2, <1>4, <1>5
    <2>2. \A i, j \in Used : files'[i].data = files'[j].data => i = j
      BY <1>2 DEF FsInv, FilesOwned
    <2> QED
      BY <1>1, <1>3, <2>1, <2>2
  <1>10. FileData' \subseteq DOMAIN live' /\ Others' = Others
    <2>1. FileData \subseteq DOMAIN live
      BY DEF FsInv, FilesOwned
    <2>2. FileData' = FileData \cup {p}
      BY <1>1, <1>2, <1>3 DEF FileData
    <2> QED
      BY <1>4, <2>1, <2>2 DEF Others
  <1>11. \A i \in Used' : live'[files'[i].data] = files'[i].size
    <2>1. \A i \in Used : live[files[i].data] = files[i].size
      BY DEF FsInv, FilesOwned
    <2> QED
      BY <1>1, <1>2, <1>3, <1>4, <1>5, <2>1
  <1> QED
    BY <1>4, <1>6, <1>7, <1>8, <1>9, <1>10, <1>11, Zenon DEF FsInv, FilesOwned

\* A store to heap[] changes nothing outside its range.
LEMMA StoredFacts ==
    ASSUME mem \in [0 .. (HEAP_SIZE - 1) -> Bytes], NEW d \in Nat, NEW n \in Nat,
           NEW s \in [1 .. n -> Bytes], mem' = Stored(d, s)
    PROVE  /\ mem' \in [0 .. (HEAP_SIZE - 1) -> Bytes]
           /\ \A a \in 0 .. (HEAP_SIZE - 1) : ~(d <= a /\ a < d + n) => mem'[a] = mem[a]
  <1>1. Len(s) = n
    OBVIOUS
  <1>2. mem' = [a \in 0 .. (HEAP_SIZE - 1) |->
                  IF a \in d .. (d + n - 1) THEN s[a - d + 1] ELSE mem[a]]
    BY <1>1 DEF Stored
  <1>3. ASSUME NEW a \in 0 .. (HEAP_SIZE - 1)
        PROVE  mem'[a] \in Bytes /\ (~(d <= a /\ a < d + n) => mem'[a] = mem[a])
    <2>0. a \in Int
      BY FileSystemAssumption
    <2>1. CASE a \in d .. (d + n - 1)
      <3>1. a - d + 1 \in 1 .. n /\ d <= a /\ a < d + n
        BY <2>0, <2>1
      <3>2. mem'[a] = s[a - d + 1]
        BY <1>2, <2>1
      <3> QED
        BY <3>1, <3>2
    <2>2. CASE a \notin d .. (d + n - 1)
      BY <1>2, <2>2
    <2> QED
      BY <2>1, <2>2
  <1>4. mem' \in [0 .. (HEAP_SIZE - 1) -> Bytes]
    BY <1>2, <1>3
  <1> QED
    BY <1>3, <1>4

\* A file whose buffer is apart from that range keeps its contents.
LEMMA ContentsApart ==
    ASSUME FsInv, NEW i \in Used, files'[i] = files[i],
           NEW d \in Nat, NEW n \in Nat, H!Apart(d, n, files[i].data, files[i].size),
           \A a \in 0 .. (HEAP_SIZE - 1) : ~(d <= a /\ a < d + n) => mem'[a] = mem[a]
    PROVE  Contents(i)' = Contents(i)
  <1>1. files[i].data \in DOMAIN live /\ live[files[i].data] = files[i].size
    BY DEF FsInv, FilesOwned, FileData
  <1> DEFINE e == files[i].data
             z == files[i].size
  <1>2. e \in Nat /\ z \in Nat /\ e + z <= HEAP_SIZE /\ (d + n <= e \/ e + z <= d)
    BY <1>1 DEF FsInv, RangesApart, H!Apart
  <1> HIDE DEF e, z
  <1>3. \A j \in 1 .. z : e + j - 1 \in 0 .. (HEAP_SIZE - 1) /\ ~(d <= e + j - 1 /\ e + j - 1 < d + n)
    BY <1>2, FileSystemAssumption
  <1>4. \A j \in 1 .. z : mem'[e + j - 1] = mem[e + j - 1]
    BY <1>3
  <1> QED
    BY <1>4 DEF Contents, e, z

\* fs_write.
LEMMA WriteFacts ==
    ASSUME FsInv, NEW s \in Data, NEW i \in Used,
           Len(s) <= files[i].size, mem' = Stored(files[i].data, s)
    PROVE  /\ mem' \in [0 .. (HEAP_SIZE - 1) -> Bytes]
           /\ files[i].data \in Nat /\ files[i].size \in Nat
           /\ \A a \in 0 .. (HEAP_SIZE - 1) :
                ~(files[i].data <= a /\ a < files[i].data + files[i].size) => mem'[a] = mem[a]
  <1>1. mem \in [0 .. (HEAP_SIZE - 1) -> Bytes] /\ files[i].data \in Nat /\ files[i].size \in Nat
    <2>1. files[i].data \in DOMAIN live /\ live[files[i].data] = files[i].size
      BY DEF FsInv, FilesOwned, FileData
    <2> QED
      BY <2>1 DEF FsInv, FilesOwned, TypeOK, RangesApart
  <1>2. PICK n \in Sizes : s \in [1 .. n -> Bytes]
    BY DEF Data
  <1>3. n \in Nat /\ Len(s) = n
    BY <1>2, FileSystemAssumption
  <1> DEFINE d == files[i].data
             z == files[i].size
  <1>4. d \in Nat /\ z \in Nat /\ n <= z
    BY <1>1, <1>3
  <1>5. mem' = Stored(d, s)
    OBVIOUS
  <1> HIDE DEF d, z
  <1>6. /\ mem' \in [0 .. (HEAP_SIZE - 1) -> Bytes]
        /\ \A a \in 0 .. (HEAP_SIZE - 1) : ~(d <= a /\ a < d + n) => mem'[a] = mem[a]
    BY <1>1, <1>2, <1>3, <1>4, <1>5, StoredFacts
  <1>7. \A a \in 0 .. (HEAP_SIZE - 1) : ~(d <= a /\ a < d + z) => ~(d <= a /\ a < d + n)
    BY <1>3, <1>4, FileSystemAssumption
  <1>8. \A a \in 0 .. (HEAP_SIZE - 1) : ~(d <= a /\ a < d + z) => mem'[a] = mem[a]
    BY <1>6, <1>7
  <1> QED
    BY <1>4, <1>6, <1>8 DEF d, z

LEMMA StutterKeeps ==
    ASSUME FsInv, UNCHANGED vars
    PROVE  FsInv' /\ Others' = Others
  <1>1. files' = files /\ file_count' = file_count /\ live' = live /\ mem' = mem
    BY DEF vars
  <1>2. Used' = Used
    BY <1>1 DEF Used
  <1>3. FileData' = FileData
    BY <1>1, <1>2 DEF FileData
  <1>4. TypeOK'
    BY <1>1, <1>2 DEF FsInv, FilesOwned, TypeOK
  <1> QED
    BY <1>1, <1>2, <1>3, <1>4 DEF FsInv, FilesOwned, NamesUnique, RangesApart, Others

\* What a write leaves alone.
LEMMA WriteKeeps ==
    ASSUME FsInv, NEW name \in Names, NEW s \in Data, fs_write(name, s)
    PROVE  FsInv' /\ Others' = Others
  <1>1. CASE UNCHANGED vars
    BY <1>1, StutterKeeps
  <1>2. CASE ~UNCHANGED vars
    <2>1. /\ fs_exists(name) /\ Len(s) <= files[Lookup(name)].size
          /\ mem' = Stored(files[Lookup(name)].data, s)
          /\ files' = files /\ file_count' = file_count /\ live' = live
      BY <1>2 DEF fs_write
    <2>2. Lookup(name) \in Used
      BY <2>1, LookupFound
    <2>3. mem' \in [0 .. (HEAP_SIZE - 1) -> Bytes]
      BY <2>1, <2>2, WriteFacts
    <2>4. Used' = Used /\ FileData' = FileData /\ Others' = Others
      BY <2>1 DEF Used, FileData, Others
    <2>5. TypeOK'
      BY <2>1, <2>3, <2>4 DEF FsInv, FilesOwned, TypeOK
    <2>6. FilesOwned'
      BY <2>1, <2>4, <2>5 DEF FsInv, FilesOwned
    <2> QED
      BY <2>1, <2>4, <2>6 DEF FsInv, NamesUnique, RangesApart
  <1> QED
    BY <1>1, <1>2

\* The slot and the buffer of a file that is deleted.
LEMMA DeleteFacts ==
    ASSUME FsInv, NEW name, fs_delete(name), fs_exists(name)
    PROVE  \E s \in Used :
             /\ files[s].name = name /\ Used' = Used \ {s}
             /\ H!Free(files[s].data)
             /\ files' \in [Slots -> FileType]
             /\ \A i \in Slots : i # s => files'[i] = files[i]
             /\ file_count' = file_count - 1 /\ mem' = mem
  <1> DEFINE s == Lookup(name)
  <1>1. files \in [Slots -> FileType]
    BY DEF FsInv, FilesOwned, TypeOK, FileType
  <1>2. s \in Used /\ s \in Slots /\ files[s].name = name
    BY LookupFound DEF Used
  <1>3. /\ H!Free(files[s].data)
        /\ files' = [files EXCEPT ![s].is_used = FALSE, ![s].data = NULL, ![s].size = 0]
        /\ file_count' = file_count - 1 /\ mem' = mem
    BY Zenon DEF fs_delete
  <1> HIDE DEF s
  <1> DEFINE f == [files[s] EXCEPT !.is_used = FALSE, !.data = NULL, !.size = 0]
  <1>4. files[s] \in FileType
    BY <1>1, <1>2
  <1>5. f \in FileType /\ ~f.is_used
    <2> DEFINE g == [files[s] EXCEPT !.is_used = FALSE, !.data = NULL]
    <2>1. g \in FileType /\ ~g.is_used
      BY <1>4, Zenon DEF FileType
    <2>2. f = [g EXCEPT !.size = 0]
      BY <1>4 DEF FileType
    <2> HIDE DEF f, g
    <2> QED
      BY <2>1, <2>2, FileSystemAssumption DEF FileType
  <1>6. files' = [files EXCEPT ![s] = f]
    BY <1>1, <1>2, <1>3, <1>4, Zenon DEF FileType
  <1> HIDE DEF f
  <1>7. /\ files' \in [Slots -> FileType] /\ files'[s] = f
        /\ \A i \in Slots : i # s => files'[i] = files[i]
    BY <1>1, <1>2, <1>5, <1>6
  <1>8. Used' = Used \ {s}
    BY <1>2, <1>5, <1>7 DEF Used
  <1> QED
    BY <1>2, <1>3, <1>7, <1>8

LEMMA DeleteKeeps ==
    ASSUME FsInv, NEW name, fs_delete(name), fs_exists(name)
    PROVE  FsInv' /\ Others' = Others
  <1>1. PICK s \in Used :
             /\ files[s].name = name /\ Used' = Used \ {s}
             /\ H!Free(files[s].data)
             /\ files' \in [Slots -> FileType]
             /\ \A i \in Slots : i # s => files'[i] = files[i]
             /\ file_count' = file_count - 1 /\ mem' = mem
    BY DeleteFacts
  <1>2. \A i \in Used' : i \in Used /\ i # s /\ i \in Slots /\ files'[i] = files[i]
    BY <1>1 DEF Used
  <1>3. /\ RangesApart' /\ DOMAIN live' = DOMAIN live \ {files[s].data}
        /\ \A q \in DOMAIN live' : live'[q] = live[q]
    BY <1>1, FreeApart, Zenon DEF FsInv
  <1>4. file_count' = Cardinality(Used') /\ file_count' \in 0 .. MAX_FILES
    <2>1. IsFiniteSet(Used) /\ Used' \subseteq Slots /\ Cardinality(Used) \in Int
      BY <1>1, SlotsFinite DEF Used
    <2>2. Cardinality(Used \ {s}) = Cardinality(Used) - 1
      BY <1>1, <2>1, FS_RemoveElement, Zenon
    <2>3. Cardinality(Used') \in 0 .. MAX_FILES
      BY <2>1, SlotsFinite
    <2>4. file_count = Cardinality(Used)
      BY DEF FsInv, FilesOwned
    <2> QED
      BY <1>1, <2>2, <2>3, <2>4
  <1>5. TypeOK'
    <2>1. \A i \in Used' : files'[i].data # NULL /\ files'[i].name # NoName
      BY <1>2 DEF FsInv, FilesOwned, TypeOK
    <2>2. mem' \in [0 .. (HEAP_SIZE - 1) -> Bytes]
      BY <1>1 DEF FsInv, FilesOwned, TypeOK
    <2> QED
      BY <1>1, <1>4, <2>1, <2>2 DEF TypeOK, FileType
  <1>6. NamesUnique'
    BY <1>2 DEF FsInv, NamesUnique
  <1>7. \A i, j \in Used' : files'[i].data = files'[j].data => i = j
    BY <1>2 DEF FsInv, FilesOwned
  <1>8. FileData' \subseteq DOMAIN live' /\ Others' = Others
    <2>1. FileData \subseteq DOMAIN live /\ files[s].data \in FileData
      BY <1>1 DEF FsInv, FilesOwned, FileData
    <2>2. \A i \in Used : files[i].data = files[s].data => i = s
      BY <1>1 DEF FsInv, FilesOwned
    <2>3. FileData' = FileData \ {files[s].data}
      BY <1>1, <1>2, <2>2 DEF FileData
    <2> QED
      BY <1>3, <2>1, <2>3 DEF Others
  <1>9. \A i \in Used' : live'[files'[i].data] = files'[i].size
    BY <1>2, <1>3, <1>8 DEF FsInv, FilesOwned, FileData
  <1> QED
    BY <1>3, <1>4, <1>5, <1>6, <1>7, <1>8, <1>9, Zenon DEF FsInv, FilesOwned

\* Every operation of the file system keeps the invariant.
LEMMA FsInvKept == FsInv /\ [Next]_vars => FsInv' /\ Others' = Others
  <1> SUFFICES ASSUME FsInv, [Next]_vars PROVE FsInv' /\ Others' = Others
    OBVIOUS
  <1>1. CASE UNCHANGED vars
    BY <1>1, StutterKeeps
  <1>2. ASSUME NEW name \in Names, NEW size \in Sizes, fs_create(name, size)
        PROVE  FsInv' /\ Others' = Others
    BY <1>2, StutterKeeps, CreateFails, CreateKeeps, FileSystemAssumption DEF fs_create
  <1>3. ASSUME NEW name \in Names, NEW s \in Data, fs_write(name, s)
        PROVE  FsInv' /\ Others' = Others
    BY <1>3, WriteKeeps
  <1>4. ASSUME NEW name \in Names, fs_delete(name)
        PROVE  FsInv' /\ Others' = Others
    <2>1. CASE fs_exists(name)
      BY <1>4, <2>1, DeleteKeeps
    <2>2. CASE ~fs_exists(name)
      BY <1>4, <2>2, StutterKeeps DEF fs_delete
    <2> QED
      BY <2>1, <2>2
  <1> QED
    BY <1>1, <1>2, <1>3, <1>4 DEF Next

LEMMA FsInvAlways == Spec => [](FsInv /\ Others = {})
  <1>1. (FsInv /\ Others = {}) /\ [Next]_vars => (FsInv /\ Others = {})'
    BY FsInvKept
  <1> QED
    BY <1>1, InitFs, PTL DEF Spec

\* fs_create never makes a second file of a name that exists, whatever names
\* are left behind in unused slots.
THEOREM FilesUnique == Spec => []NamesUnique
  <1>1. FsInv => NamesUnique
    BY DEF FsInv
  <1> QED
    BY <1>1, FsInvAlways, PTL

\* fs_create and fs_delete leak no buffer and leave no file with a buffer that
\* is shared, freed or of another size; file_count is the number of files.
THEOREM BuffersSafe == Spec => []BuffersOwned
  <1>1. FsInv /\ Others = {} => BuffersOwned
    BY Zenon DEF FsInv, FilesOwned, Others, FileData, BuffersOwned
  <1> QED
    BY <1>1, FsInvAlways, PTL

-----------------------------------------------------------------------------
(***************************************************************************)
(* The file system implements the map from names to contents.              *)
(***************************************************************************)

\* fs_read of a name that exists delivers the buffer of the one file of that
\* name, which lies in the heap.
StoreIsFiles ==
    /\ FilesByName = [n \in {files[i].name : i \in Used} |-> FilesByName[n]]
    /\ \A i \in Used : /\ FilesByName[files[i].name] = Contents(i)
                       /\ Contents(i) \in [1 .. files[i].size -> Bytes]
                       /\ files[i].size \in 1 .. MAX_FILESIZE

LEMMA ReadsFiles == FsInv => StoreIsFiles
  <1> SUFFICES ASSUME FsInv PROVE StoreIsFiles
    OBVIOUS
  <1>1. FilesByName = [n \in {files[i].name : i \in Used} |-> FilesByName[n]]
    BY DEF FilesByName
  <1>2. ASSUME NEW i \in Used
        PROVE  /\ FilesByName[files[i].name] = Contents(i)
               /\ Contents(i) \in [1 .. files[i].size -> Bytes]
               /\ files[i].size \in 1 .. MAX_FILESIZE
    <2>1. /\ files[i].size \in 0 .. MAX_FILESIZE /\ files[i].data \in DOMAIN live
          /\ live[files[i].data] = files[i].size
          /\ mem \in [0 .. (HEAP_SIZE - 1) -> Bytes]
      BY DEF FsInv, FilesOwned, TypeOK, Used, FileData
    <2>2. /\ files[i].data \in Nat /\ files[i].size \in Nat \ {0}
          /\ files[i].data + files[i].size <= HEAP_SIZE
      BY <2>1 DEF FsInv, RangesApart
    <2>3. fs_exists(files[i].name)
      BY DEF fs_exists
    <2>4. Lookup(files[i].name) = i
      BY <2>3, LookupFound DEF FsInv, NamesUnique
    <2> DEFINE z == files[i].size
               d == files[i].data
    <2>5. (IF MAX_FILESIZE < z THEN MAX_FILESIZE ELSE z) = z
      BY <2>1, FileSystemAssumption
    <2>6. fs_read(files[i].name, MAX_FILESIZE) = Contents(i)
      BY <2>3, <2>4, <2>5 DEF fs_read, Contents
    <2>7. FilesByName[files[i].name] = fs_read(files[i].name, MAX_FILESIZE)
      BY DEF FilesByName
    <2>8. \A j \in 1 .. z : mem[d + j - 1] \in Bytes
      <3>1. d \in Nat /\ z \in Nat /\ d + z <= HEAP_SIZE /\ HEAP_SIZE \in Nat
        BY <2>2, FileSystemAssumption
      <3> HIDE DEF d, z
      <3>2. \A j \in 1 .. z : d + j - 1 \in 0 .. (HEAP_SIZE - 1)
        BY <3>1
      <3> QED
        BY <2>1, <3>2
    <2>9. Contents(i) \in [1 .. z -> Bytes]
      BY <2>8 DEF Contents
    <2> QED
      BY <2>1, <2>2, <2>6, <2>7, <2>9, FileSystemAssumption
  <1> QED
    BY <1>1, <1>2, Zenon DEF StoreIsFiles

\* A step that keeps the files in use and their contents keeps the map.
LEMMA SameStore ==
    ASSUME StoreIsFiles, StoreIsFiles', Used' = Used,
           \A i \in Used : files'[i].name = files[i].name /\ Contents(i)' = Contents(i)
    PROVE  FilesByName' = FilesByName
  <1> DEFINE D == {files[i].name : i \in Used}
  <1>1. {files'[i].name : i \in Used'} = D
    OBVIOUS
  <1>2. FilesByName = [n \in D |-> FilesByName[n]]
    BY DEF StoreIsFiles
  <1>3. FilesByName' = [n \in D |-> FilesByName'[n]]
    BY <1>1 DEF StoreIsFiles
  <1>4. \A n \in D : FilesByName'[n] = FilesByName[n]
    BY DEF StoreIsFiles
  <1> HIDE DEF D
  <1> QED
    BY <1>2, <1>3, <1>4

LEMMA StepCreates ==
    ASSUME FsInv, StoreIsFiles, StoreIsFiles', NEW name \in Names, NEW size \in Nat,
           create_succeeds(name, size)
    PROVE  Abs!Next
  <1>1. PICK s \in Slots, p \in 0 .. HEAP_SIZE :
             /\ s \notin Used /\ Used' = Used \cup {s}
             /\ H!Alloc(size, p) /\ size \in 1 .. MAX_FILESIZE
             /\ files' \in [Slots -> FileType]
             /\ files'[s] = [name |-> name, data |-> p, size |-> size, is_used |-> TRUE]
             /\ \A i \in Slots : i # s => files'[i] = files[i]
             /\ file_count' = file_count + 1 /\ mem' = mem
             /\ \A i \in Used : files[i].name # name
    BY CreateFacts, Zenon
  <1> DEFINE D == {files[i].name : i \in Used}
             c == Contents(s)'
  <1>2. files'[s].name = name /\ files'[s].size = size
    BY <1>1
  <1>3. \A i \in Used : files'[i] = files[i] /\ Contents(i)' = Contents(i)
    BY <1>1 DEF Used, Contents
  <1>4. {files'[i].name : i \in Used'} = D \cup {name}
    BY <1>1, <1>2, <1>3
  <1>5. FilesByName = [n \in D |-> FilesByName[n]] /\ name \notin D
    BY <1>1 DEF StoreIsFiles
  <1>6. FilesByName' = [n \in D \cup {name} |-> FilesByName'[n]]
    BY <1>4, Zenon DEF StoreIsFiles
  <1>7. \A n \in D : FilesByName'[n] = FilesByName[n]
    BY <1>1, <1>3 DEF StoreIsFiles
  <1>8. FilesByName'[name] = c /\ c \in [1 .. size -> Bytes]
    BY <1>1, <1>2 DEF StoreIsFiles
  <1>9. c \in Abs!Contents
    BY <1>1, <1>8 DEF Abs!Contents
  <1> HIDE DEF D, c
  <1>10. DOMAIN FilesByName = D
    BY <1>5
  <1>11. FilesByName' = [m \in D \cup {name} |-> IF m = name THEN c ELSE FilesByName[m]]
    BY <1>5, <1>6, <1>7, <1>8
  <1>12. Abs!Create(name, c)
    BY <1>5, <1>10, <1>11 DEF Abs!Create
  <1> QED
    BY <1>9, <1>12 DEF Abs!Next

\* A write stays inside the buffer of its file, so no other file changes.
LEMMA StepWrites ==
    ASSUME FsInv, StoreIsFiles, StoreIsFiles', NEW name \in Names, NEW s \in Data,
           fs_exists(name), Len(s) <= files[Lookup(name)].size,
           mem' = Stored(files[Lookup(name)].data, s), files' = files
    PROVE  Abs!Next
  <1>1. PICK k \in Used : k = Lookup(name) /\ files[k].name = name
    BY LookupFound
  <1> DEFINE D == {files[i].name : i \in Used}
             c == Contents(k)'
  <1>2. /\ files[k].data \in Nat /\ files[k].size \in Nat
        /\ \A a \in 0 .. (HEAP_SIZE - 1) :
             ~(files[k].data <= a /\ a < files[k].data + files[k].size) => mem'[a] = mem[a]
    BY <1>1, WriteFacts
  <1>3. Used' = Used
    BY DEF Used
  <1>4. ASSUME NEW i \in Used, i # k
        PROVE  Contents(i)' = Contents(i)
    <2>1. /\ files[i].data \in DOMAIN live /\ live[files[i].data] = files[i].size
          /\ files[k].data \in DOMAIN live /\ live[files[k].data] = files[k].size
          /\ files[i].data # files[k].data
      BY <1>1, <1>4 DEF FsInv, FilesOwned, FileData
    <2>2. H!Apart(files[k].data, files[k].size, files[i].data, files[i].size)
      BY <2>1 DEF FsInv, RangesApart
    <2> QED
      BY <1>2, <2>2, ContentsApart
  <1>5. {files'[i].name : i \in Used'} = D
    BY <1>3
  <1>6. FilesByName = [n \in D |-> FilesByName[n]] /\ name \in D
    BY <1>1 DEF StoreIsFiles
  <1>7. FilesByName' = [n \in D |-> FilesByName'[n]]
    BY <1>5, Zenon DEF StoreIsFiles
  <1>8. \A n \in D : n # name => FilesByName'[n] = FilesByName[n]
    <2>1. \A i \in Used : FilesByName'[files'[i].name] = Contents(i)'
      BY <1>3 DEF StoreIsFiles
    <2>2. \A i \in Used : FilesByName'[files[i].name] = Contents(i)'
      BY <2>1
    <2>3. \A i \in Used : i # k => FilesByName'[files[i].name] = FilesByName[files[i].name]
      BY <1>4, <2>2 DEF StoreIsFiles
    <2> QED
      BY <1>1, <2>3
  <1>9. /\ FilesByName'[name] = c /\ c \in [1 .. files[k].size -> Bytes]
        /\ FilesByName[name] \in [1 .. files[k].size -> Bytes]
        /\ files[k].size \in 1 .. MAX_FILESIZE
    <2>1. k \in Used' /\ files'[k].name = name /\ files'[k].size = files[k].size
      BY <1>1, <1>3
    <2>2. FilesByName'[files'[k].name] = c /\ c \in [1 .. files'[k].size -> Bytes]
      BY <2>1 DEF StoreIsFiles
    <2>3. /\ FilesByName[name] \in [1 .. files[k].size -> Bytes]
          /\ files[k].size \in 1 .. MAX_FILESIZE
      BY <1>1, Zenon DEF StoreIsFiles
    <2> HIDE DEF c
    <2> QED
      BY <2>1, <2>2, <2>3
  <1>10. c \in Abs!Contents
    BY <1>9 DEF Abs!Contents
  <1>11. Len(c) = Len(FilesByName[name])
    BY <1>9, FileSystemAssumption
  <1> HIDE DEF D, c
  <1>12. DOMAIN FilesByName = D
    BY <1>6
  <1>13. FilesByName' = [FilesByName EXCEPT ![name] = c]
    BY <1>6, <1>7, <1>8, <1>9
  <1>14. Abs!Write(name, c)
    BY <1>6, <1>11, <1>12, <1>13 DEF Abs!Write
  <1> QED
    BY <1>10, <1>14 DEF Abs!Next

LEMMA StepDeletes ==
    ASSUME FsInv, StoreIsFiles, StoreIsFiles', NEW name \in Names, fs_delete(name), fs_exists(name)
    PROVE  Abs!Next
  <1>1. PICK s \in Used :
             /\ files[s].name = name /\ Used' = Used \ {s}
             /\ H!Free(files[s].data)
             /\ files' \in [Slots -> FileType]
             /\ \A i \in Slots : i # s => files'[i] = files[i]
             /\ file_count' = file_count - 1 /\ mem' = mem
    BY DeleteFacts
  <1> DEFINE D == {files[i].name : i \in Used}
  <1>2. \A i \in Used' : i \in Used /\ i # s /\ files'[i] = files[i] /\ Contents(i)' = Contents(i)
    BY <1>1 DEF Used, Contents
  <1>3. \A i \in Used : files[i].name = name => i = s
    BY <1>1 DEF FsInv, NamesUnique
  <1>4. {files'[i].name : i \in Used'} = D \ {name}
    BY <1>1, <1>2, <1>3
  <1>5. FilesByName = [n \in D |-> FilesByName[n]] /\ name \in D
    BY <1>1 DEF StoreIsFiles
  <1>6. FilesByName' = [n \in D \ {name} |-> FilesByName'[n]]
    BY <1>4, Zenon DEF StoreIsFiles
  <1>7. \A i \in Used' : FilesByName'[files[i].name] = FilesByName[files[i].name]
    BY <1>2 DEF StoreIsFiles
  <1>8. \A n \in D \ {name} : FilesByName'[n] = FilesByName[n]
    BY <1>1, <1>7
  <1> HIDE DEF D
  <1>9. DOMAIN FilesByName = D
    BY <1>5
  <1>10. FilesByName' = [m \in D \ {name} |-> FilesByName[m]]
    BY <1>6, <1>8
  <1>11. Abs!Delete(name)
    BY <1>5, <1>9, <1>10 DEF Abs!Delete
  <1> QED
    BY <1>11 DEF Abs!Next

LEMMA StepImplements ==
    ASSUME FsInv, StoreIsFiles, StoreIsFiles', [Next]_vars
    PROVE  [Abs!Next]_FilesByName
  <1>1. ASSUME UNCHANGED vars
        PROVE  FilesByName' = FilesByName
    <2>1. files' = files /\ mem' = mem
      BY <1>1 DEF vars
    <2> QED
      BY <2>1, SameStore DEF Used, Contents
  <1>2. ASSUME NEW name \in Names, NEW size \in Sizes, fs_create(name, size)
        PROVE  [Abs!Next]_FilesByName
    <2>1. CASE create_fails(name, size)
      <3>1. Used' = Used /\ mem' = mem /\ \A i \in Used : files'[i] = files[i]
        BY <2>1, CreateFails, FileSystemAssumption, Zenon DEF create_fails
      <3> QED
        BY <3>1, SameStore DEF Contents
    <2> QED
      BY <1>1, <1>2, <2>1, StepCreates, FileSystemAssumption DEF fs_create
  <1>3. ASSUME NEW name \in Names, NEW s \in Data, fs_write(name, s)
        PROVE  [Abs!Next]_FilesByName
    BY <1>1, <1>3, StepWrites DEF fs_write
  <1>4. ASSUME NEW name \in Names, fs_delete(name)
        PROVE  [Abs!Next]_FilesByName
    BY <1>1, <1>4, StepDeletes, Zenon DEF fs_delete
  <1> QED
    BY <1>1, <1>2, <1>3, <1>4 DEF Next

\* fs_create, fs_write and fs_delete are the operations of a map from names to
\* contents: a file keeps its contents, as fs_read delivers them, whatever is
\* done to the others and wherever kmalloc puts its buffer.
THEOREM FilesImplement == Spec => AbsSpec
  <1>1. Init => Abs!Init
    <2> SUFFICES ASSUME Init PROVE Abs!Init
      OBVIOUS
    <2>1. {files[i].name : i \in Used} = {}
      BY DEF Init, Used
    <2> QED
      BY <2>1, Zenon DEF Abs!Init, FilesByName
  <1>2. FsInv /\ FsInv' /\ StoreIsFiles /\ StoreIsFiles' /\ [Next]_vars => [Abs!Next]_FilesByName
    BY StepImplements
  <1> QED
    BY <1>1, <1>2, FsInvAlways, ReadsFiles, PTL DEF Spec, AbsSpec, Abs!Spec

-----------------------------------------------------------------------------
\* The addresses of the words that are still held.
Words == {args[k] : k \in 1 .. Len(args)}

(***************************************************************************)
(* The inductive invariant: the words hold what the files do not, each one *)
(* a buffer of its own.                                                    *)
(***************************************************************************)
ShellInv ==
    /\ FsInv
    /\ pc \in {"prompt", "tokenize", "execute", "free", "exited", "fault"}
    /\ line \in Lines \cup {<<>>}
    /\ pc \in {"tokenize", "execute", "free"} => line \in Lines
    /\ pc \in {"prompt", "exited"} => args = <<>>
    /\ args \in Seq(Nat) /\ Len(args) <= argc
    /\ pc = "execute" => Len(args) = argc
    /\ Others = Words
    /\ \A j, k \in 1 .. Len(args) : args[j] = args[k] => j = k

\* argc is the number of words, or MAX_ARGS.
LEMMA ArgcFacts ==
    ASSUME line \in Lines \cup {<<>>}
    PROVE  argc \in Nat /\ argc <= MAX_ARGS /\ argc <= Len(line) /\ Len(line) \in Nat
  <1>1. Len(line) \in Nat
    BY LinesAssumption
  <1>2. CASE Len(line) < MAX_ARGS
    BY <1>1, <1>2, ShellAssumption DEF argc
  <1>3. CASE ~(Len(line) < MAX_ARGS)
    BY <1>1, <1>3, ShellAssumption DEF argc
  <1> QED
    BY <1>2, <1>3

LEMMA InitShell == SInit => ShellInv
  <1> SUFFICES ASSUME SInit PROVE ShellInv
    OBVIOUS
  <1>1. FsInv /\ Others = {}
    BY InitFs DEF SInit
  <1>2. pc = "prompt" /\ line = <<>> /\ args = <<>>
    BY DEF SInit
  <1>3. argc \in Nat
    BY <1>2, ArgcFacts
  <1>4. Words = {} /\ args \in Seq(Nat) /\ Len(args) = 0
    BY <1>2 DEF Words
  <1> QED
    BY <1>1, <1>2, <1>3, <1>4 DEF ShellInv

\* The heap may change around the files.
LEMMA HeapKeeps ==
    ASSUME FsInv, files' = files, file_count' = file_count,
           mem' \in [0 .. (HEAP_SIZE - 1) -> Bytes], RangesApart',
           FileData \subseteq DOMAIN live', \A q \in FileData : live'[q] = live[q]
    PROVE  FsInv' /\ FileData' = FileData
  <1>1. Used' = Used
    BY DEF Used
  <1>2. FileData' = FileData
    BY <1>1 DEF FileData
  <1>3. TypeOK'
    BY <1>1 DEF FsInv, FilesOwned, TypeOK
  <1>4. \A i \in Used : live'[files[i].data] = files[i].size
    BY DEF FsInv, FilesOwned, FileData
  <1>5. FilesOwned'
    BY <1>1, <1>2, <1>3, <1>4 DEF FsInv, FilesOwned
  <1> QED
    BY <1>1, <1>2, <1>5 DEF FsInv, NamesUnique

\* shell_tokenize gets a range that is apart from the files, and writes there.
LEMMA TokenFacts ==
    ASSUME ShellInv, TokenCopied
    PROVE  \E p \in Nat, n \in Nat :
             /\ H!Alloc(n, p) /\ p \in 0 .. HEAP_SIZE
             /\ mem' \in [0 .. (HEAP_SIZE - 1) -> Bytes]
             /\ \A a \in 0 .. (HEAP_SIZE - 1) : ~(p <= a /\ a < p + n) => mem'[a] = mem[a]
             /\ args' = Append(args, p)
  <1> DEFINE len == line[Len(args) + 1].len
             s == [k \in 1 .. (len + 1) |-> IF k <= len THEN Char ELSE NUL]
  <1>1. PICK p \in 0 .. HEAP_SIZE :
          H!Alloc(len + 1, p) /\ mem' = Stored(p, s) /\ args' = Append(args, p)
    BY DEF TokenCopied
  <1>2. len \in Nat
    <2>1. pc = "tokenize" /\ Len(args) < argc
      BY DEF TokenCopied
    <2>2. line \in Lines /\ args \in Seq(Nat)
      BY <2>1 DEF ShellInv
    <2>3. Len(args) \in Nat /\ argc \in Nat /\ argc <= Len(line) /\ Len(line) \in Nat
      BY <2>2, ArgcFacts
    <2>4. Len(args) + 1 \in 1 .. Len(line)
      BY <2>1, <2>3
    <2> QED
      BY <2>2, <2>4, LinesAssumption
  <1>3. p \in Nat /\ len + 1 \in Nat
    BY <1>2, FileSystemAssumption
  <1>4. s \in [1 .. (len + 1) -> Bytes]
    BY ShellAssumption
  <1> HIDE DEF len, s
  <1>5. mem \in [0 .. (HEAP_SIZE - 1) -> Bytes]
    BY DEF ShellInv, FsInv, FilesOwned, TypeOK
  <1>6. /\ mem' \in [0 .. (HEAP_SIZE - 1) -> Bytes]
        /\ \A a \in 0 .. (HEAP_SIZE - 1) : ~(p <= a /\ a < p + (len + 1)) => mem'[a] = mem[a]
    BY <1>1, <1>3, <1>4, <1>5, StoredFacts, Zenon
  <1> QED
    BY <1>1, <1>3, <1>6

LEMMA TokenKeeps ==
    ASSUME ShellInv, TokenCopied
    PROVE  ShellInv'
  <1>1. PICK p \in Nat, n \in Nat :
             /\ H!Alloc(n, p) /\ p \in 0 .. HEAP_SIZE
             /\ mem' \in [0 .. (HEAP_SIZE - 1) -> Bytes]
             /\ \A a \in 0 .. (HEAP_SIZE - 1) : ~(p <= a /\ a < p + n) => mem'[a] = mem[a]
             /\ args' = Append(args, p)
    BY TokenFacts
  <1>2. /\ pc = "tokenize" /\ Len(args) < argc
        /\ files' = files /\ file_count' = file_count /\ pc' = pc /\ line' = line
    BY DEF TokenCopied
  <1>3. /\ RangesApart' /\ p \notin DOMAIN live /\ DOMAIN live' = DOMAIN live \cup {p}
        /\ \A q \in DOMAIN live : live'[q] = live[q]
    BY <1>1, AllocApart, Zenon DEF ShellInv, FsInv
  <1>4. FileData \subseteq DOMAIN live
    BY DEF ShellInv, FsInv, FilesOwned
  <1>5. FsInv' /\ FileData' = FileData
    BY <1>1, <1>2, <1>3, <1>4, HeapKeeps DEF ShellInv
  <1>6. Others' = Others \cup {p} /\ p \notin Others
    BY <1>3, <1>4, <1>5 DEF Others
  <1>7. /\ args \in Seq(Nat) /\ Others = Words /\ line \in Lines
        /\ \A j, k \in 1 .. Len(args) : args[j] = args[k] => j = k
    BY <1>2 DEF ShellInv
  <1>8. /\ args' \in Seq(Nat) /\ Len(args') = Len(args) + 1 /\ args'[Len(args) + 1] = p
        /\ \A k \in 1 .. Len(args) : args'[k] = args[k]
    BY <1>1, <1>7
  <1>9. Len(args) \in Nat /\ argc \in Nat /\ argc' = argc
    BY <1>2, <1>7, ArgcFacts DEF argc
  <1>10. 1 .. Len(args') = 1 .. Len(args) \cup {Len(args) + 1} /\ Len(args') <= argc'
    BY <1>2, <1>8, <1>9
  <1>11. Words' = Words \cup {p}
    <2>1. Words' = {args'[k] : k \in 1 .. Len(args')} /\ Words = {args[k] : k \in 1 .. Len(args)}
      BY DEF Words
    <2> QED
      BY <1>8, <1>10, <2>1, SMTT(30)
  <1>12. \A k \in 1 .. Len(args) : args[k] # p
    BY <1>6, <1>7 DEF Words
  <1>13. \A j, k \in 1 .. Len(args') : args'[j] = args'[k] => j = k
    BY <1>7, <1>8, <1>10, <1>12, Zenon
  <1> QED
    BY <1>2, <1>5, <1>6, <1>7, <1>8, <1>10, <1>11, <1>13 DEF ShellInv

\* The buffer of the first word is given back.
LEMMA FreeKeeps ==
    ASSUME ShellInv, FreeArg
    PROVE  ShellInv'
  <1> DEFINE p == Head(args)
  <1>1. /\ pc = "free" /\ args # <<>> /\ H!Free(p) /\ args' = Tail(args)
        /\ files' = files /\ file_count' = file_count /\ mem' = mem /\ pc' = pc /\ line' = line
    BY DEF FreeArg
  <1>2. /\ args \in Seq(Nat) /\ Others = Words /\ line \in Lines /\ Len(args) <= argc
        /\ \A j, k \in 1 .. Len(args) : args[j] = args[k] => j = k
    BY <1>1 DEF ShellInv
  <1>3. /\ Len(args) \in Nat \ {0} /\ p = args[1]
        /\ args' \in Seq(Nat) /\ Len(args') = Len(args) - 1
        /\ \A k \in 1 .. Len(args') : args'[k] = args[k + 1]
    BY <1>1, <1>2
  <1> HIDE DEF p
  <1>4. /\ RangesApart' /\ p \in DOMAIN live /\ DOMAIN live' = DOMAIN live \ {p}
        /\ \A q \in DOMAIN live' : live'[q] = live[q]
    BY <1>1, FreeApart, Zenon DEF ShellInv, FsInv
  <1>5. p \in Words
    BY <1>3 DEF Words
  <1>6. FileData \subseteq DOMAIN live'
    BY <1>2, <1>4, <1>5 DEF ShellInv, FsInv, FilesOwned, Others
  <1>7. mem \in [0 .. (HEAP_SIZE - 1) -> Bytes]
    BY DEF ShellInv, FsInv, FilesOwned, TypeOK
  <1>8. FsInv' /\ FileData' = FileData
    BY <1>1, <1>4, <1>6, <1>7, HeapKeeps DEF ShellInv
  <1>9. Others' = Words \ {p}
    BY <1>2, <1>4, <1>8 DEF Others
  <1>10. argc \in Nat /\ argc' = argc
    BY <1>1, <1>2, ArgcFacts DEF argc
  <1>11. \A k \in 1 .. Len(args') : k + 1 \in 1 .. Len(args) /\ k + 1 # 1
    BY <1>3
  <1>12. \A k \in 1 .. Len(args) : k # 1 => k - 1 \in 1 .. Len(args') /\ args[k] = args'[k - 1]
    BY <1>3
  <1>13. Words' = Words \ {p}
    <2>1. ASSUME NEW w \in Words' PROVE w \in Words \ {p}
      <3>1. PICK k \in 1 .. Len(args') : w = args'[k]
        BY <2>1 DEF Words
      <3>2. w = args[k + 1] /\ k + 1 \in 1 .. Len(args) /\ k + 1 # 1 /\ 1 \in 1 .. Len(args)
        BY <1>3, <1>11, <3>1
      <3>3. w # p
        BY <1>2, <1>3, <3>2
      <3> QED
        BY <3>2, <3>3 DEF Words
    <2>2. ASSUME NEW w \in Words, w # p PROVE w \in Words'
      <3>1. PICK k \in 1 .. Len(args) : w = args[k]
        BY <2>2 DEF Words
      <3>2. k - 1 \in 1 .. Len(args') /\ w = args'[k - 1]
        BY <1>3, <1>12, <2>2, <3>1
      <3> QED
        BY <3>2 DEF Words
    <2> QED
      BY <2>1, <2>2, Zenon
  <1>14. ASSUME NEW j \in 1 .. Len(args'), NEW k \in 1 .. Len(args'), args'[j] = args'[k]
         PROVE  j = k
    <2>1. args[j + 1] = args[k + 1] /\ j + 1 \in 1 .. Len(args) /\ k + 1 \in 1 .. Len(args)
      BY <1>3, <1>11, <1>14
    <2>2. j + 1 = k + 1
      BY <1>2, <2>1
    <2> QED
      BY <2>2
  <1>15. Len(args') <= argc'
    BY <1>2, <1>3, <1>10
  <1> QED
    BY <1>1, <1>2, <1>3, <1>8, <1>9, <1>13, <1>14, <1>15 DEF ShellInv

\* What the commands do to the files and to the rest of the heap.
FileKept(i) == files'[i].is_used => Contents(i)' = Contents(i)

LEMMA SameKept ==
    ASSUME NEW i \in Used, files'[i] = files[i], mem' = mem
    PROVE  FileKept(i)
  BY DEF FileKept, Contents

LEMMA CommandFacts ==
    ASSUME ShellInv, Execute
    PROVE  FsInv' /\ Others' = Others /\ \A i \in Used : FileKept(i)
  <1>1. pc = "execute" /\ FsInv /\ line \in Lines
    BY DEF Execute, ShellInv
  <1>2. argc \in Nat /\ argc <= Len(line) /\ Len(line) \in Nat
    BY <1>1, ArgcFacts
  <1>3. CASE UNCHANGED vars
    <2>1. files' = files /\ mem' = mem
      BY <1>3 DEF vars
    <2> QED
      BY <1>1, <1>3, <2>1, StutterKeeps, SameKept
  <1>4. ASSUME NEW name \in Names, NEW size \in Nat, fs_create(name, size), ~UNCHANGED vars
        PROVE  FsInv' /\ Others' = Others /\ \A i \in Used : FileKept(i)
    <2>1. CASE create_fails(name, size)
      <3>1. FsInv' /\ Others' = Others /\ mem' = mem /\ \A i \in Used : files'[i] = files[i]
        BY <1>1, <2>1, CreateFails, Zenon DEF create_fails
      <3> QED
        BY <3>1, SameKept
    <2>2. CASE create_succeeds(name, size)
      <3>1. FsInv' /\ Others' = Others
        BY <1>1, <2>2, CreateKeeps
      <3>2. mem' = mem /\ \A i \in Used : files'[i] = files[i]
        BY <1>1, <2>2, CreateFacts, Zenon DEF Used
      <3> QED
        BY <3>1, <3>2, SameKept
    <2> QED
      BY <1>4, <2>1, <2>2 DEF fs_create
  <1>5. CASE cmd_create
    <2> DEFINE size == str_to_int(line[3].text)
    <2>1. /\ line[1].text = "create" /\ argc > 2
          /\ IF size <= 0 \/ size > MAX_FILESIZE THEN UNCHANGED vars
             ELSE fs_create(line[2].text, size)
      BY <1>5 DEF cmd_create, Creates
    <2>2. Len(line) > 2 /\ Len(line) > 1
      BY <1>2, <2>1
    <2>3. line[2].text \in Names /\ size \in Int
      BY <1>1, <2>1, <2>2, LinesAssumption
    <2> HIDE DEF size
    <2>4. CASE size <= 0
      BY <1>3, <2>1, <2>4
    <2>5. CASE ~(size <= 0)
      <3>1. size \in Nat
        BY <2>3, <2>5
      <3> QED
        BY <1>3, <1>4, <2>1, <2>3, <3>1
    <2> QED
      BY <2>4, <2>5
  <1>6. CASE cmd_delete
    <2> DEFINE name == line[2].text
    <2>1. fs_delete(name)
      BY <1>6 DEF cmd_delete
    <2>2. CASE ~fs_exists(name)
      BY <1>3, <2>1, <2>2 DEF fs_delete
    <2>3. CASE fs_exists(name)
      <3>1. FsInv' /\ Others' = Others
        BY <1>1, <2>1, <2>3, DeleteKeeps
      <3>2. PICK s \in Used :
               /\ Used' = Used \ {s} /\ mem' = mem
               /\ \A i \in Slots : i # s => files'[i] = files[i]
        BY <1>1, <2>1, <2>3, DeleteFacts
      <3>3. s \in Slots /\ ~files'[s].is_used
        BY <3>2 DEF Used
      <3>4. \A i \in Used : i # s => files'[i] = files[i]
        BY <3>2 DEF Used
      <3>5. FileKept(s)
        BY <3>3 DEF FileKept
      <3>6. \A i \in Used : FileKept(i)
        BY <3>2, <3>4, <3>5, SameKept
      <3> QED
        BY <3>1, <3>6
    <2> QED
      BY <2>2, <2>3
  <1> QED
    BY <1>3, <1>5, <1>6 DEF Execute

LEMMA ExecuteKeeps ==
    ASSUME ShellInv, Execute
    PROVE  ShellInv'
  <1>1. FsInv' /\ Others' = Others
    BY CommandFacts
  <1>2. pc = "execute" /\ pc' = "free" /\ line' = line /\ args' = args
    BY DEF Execute
  <1>3. Words' = Words /\ argc' = argc
    BY <1>2 DEF Words, argc
  <1> QED
    BY <1>1, <1>2, <1>3 DEF ShellInv

\* The steps that leave the files and the heap alone.
LEMMA ControlKeeps ==
    ASSUME ShellInv, UNCHANGED <<vars, args>>,
           \/ \E l \in Lines : ReadLine(l)
           \/ TokenFault \/ TokensDone \/ ParseDone
           \/ UNCHANGED <<pc, line>>
    PROVE  ShellInv'
  <1>1. FsInv' /\ Others' = Others
    BY StutterKeeps DEF ShellInv
  <1>2. args' = args /\ Words' = Words
    BY DEF Words
  <1>3. CASE line' = line
    <2>1. argc' = argc
      BY <1>3 DEF argc
    <2>2. CASE TokenFault \/ TokensDone
      BY <1>1, <1>2, <1>3, <2>1, <2>2 DEF ShellInv, TokenFault, TokensDone
    <2>3. CASE pc' = pc
      BY <1>1, <1>2, <1>3, <2>1, <2>3 DEF ShellInv
    <2>4. CASE \E l \in Lines : ReadLine(l)
      BY <1>1, <1>2, <1>3, <2>1, <2>4 DEF ShellInv, ReadLine
    <2>5. CASE ParseDone
      BY <1>1, <1>2, <1>3, <2>1, <2>5 DEF ShellInv, ParseDone
    <2> QED
      BY <2>2, <2>3, <2>4, <2>5
  <1>4. CASE \E l \in Lines : ReadLine(l)
    <2>1. line' \in Lines /\ pc = "prompt" /\ pc' = "tokenize"
      BY <1>4 DEF ReadLine
    <2>2. Len(line') \in Nat
      BY <2>1, LinesAssumption
    <2>3. argc' \in Nat
      <3>1. CASE Len(line') < MAX_ARGS
        BY <2>2, <3>1 DEF argc
      <3>2. CASE ~(Len(line') < MAX_ARGS)
        BY <3>2, ShellAssumption DEF argc
      <3> QED
        BY <3>1, <3>2
    <2>4. args = <<>> /\ Len(args') <= argc'
      BY <1>2, <2>1, <2>3 DEF ShellInv
    <2> QED
      BY <1>1, <1>2, <2>1, <2>4 DEF ShellInv
  <1>5. CASE ParseDone
    <2>1. args = <<>> /\ line' = <<>> /\ pc' \in {"exited", "prompt"}
      BY <1>5 DEF ParseDone
    <2>2. argc' = 0
      <3>1. Len(line') = 0 /\ MAX_ARGS > 0
        BY <2>1, ShellAssumption
      <3> QED
        BY <3>1 DEF argc
    <2>3. Len(args') <= argc'
      BY <1>2, <2>1, <2>2
    <2> QED
      BY <1>1, <1>2, <2>1, <2>3 DEF ShellInv
  <1> QED
    BY <1>3, <1>4, <1>5 DEF TokenFault, TokensDone

LEMMA ShellInvKept == ShellInv /\ [SNext]_<<vars, shell>> => ShellInv'
  <1> SUFFICES ASSUME ShellInv, [SNext]_<<vars, shell>> PROVE ShellInv'
    OBVIOUS
  <1>1. CASE UNCHANGED <<vars, shell>>
    BY <1>1, ControlKeeps DEF shell
  <1>2. CASE \E l \in Lines : ReadLine(l)
    BY <1>2, ControlKeeps DEF ReadLine
  <1>3. CASE TokenCopied
    BY <1>3, TokenKeeps
  <1>4. CASE TokenFault \/ TokensDone \/ ParseDone
    BY <1>4, ControlKeeps DEF TokenFault, TokensDone, ParseDone
  <1>5. CASE Execute
    BY <1>5, ExecuteKeeps
  <1>6. CASE FreeArg
    BY <1>6, FreeKeeps
  <1> QED
    BY <1>1, <1>2, <1>3, <1>4, <1>5, <1>6 DEF SNext, Work

LEMMA ShellInvAlways == SSpec => []ShellInv
  BY InitShell, ShellInvKept, PTL DEF SSpec

-----------------------------------------------------------------------------
\* The image of a finite set under a function that repeats no value.
LEMMA ImageSize ==
    ASSUME NEW S, IsFiniteSet(S), NEW f, DOMAIN f = S, f = [x \in S |-> f[x]],
           \A x, y \in S : f[x] = f[y] => x = y
    PROVE  IsFiniteSet({f[x] : x \in S}) /\ Cardinality({f[x] : x \in S}) = Cardinality(S)
  <1> DEFINE T == {f[x] : x \in S}
  <1>1. f \in [S -> T]
    OBVIOUS
  <1>2. \A t \in T : \E x \in S : f[x] = t
    OBVIOUS
  <1> HIDE DEF T
  <1>3. f \in Injection(S, T)
    BY <1>1, Zenon DEF Injection, IsInjective
  <1>4. f \in Surjection(S, T)
    BY <1>1, <1>2, Zenon DEF Surjection
  <1>5. IsFiniteSet(T) /\ Cardinality(T) = Cardinality(S)
    BY <1>3, <1>4, FS_Surjection, Zenon
  <1> QED
    BY <1>5 DEF T

\* The buffers are counted: one for each file and one for each word.
LEMMA BuffersCounted ==
    ASSUME ShellInv
    PROVE  /\ DOMAIN live = FileData \cup Words
           /\ Cardinality(DOMAIN live) = Cardinality(Used) + Len(args)
  <1>1. FileData \subseteq DOMAIN live /\ Words = DOMAIN live \ FileData
    BY DEF ShellInv, FsInv, FilesOwned, Others
  <1>2. IsFiniteSet(FileData) /\ Cardinality(FileData) = Cardinality(Used)
    <2> DEFINE f == [i \in Used |-> files[i].data]
    <2>1. IsFiniteSet(Used)
      BY SlotsFinite DEF Used
    <2>2. \A i, j \in Used : f[i] = f[j] => i = j
      BY DEF ShellInv, FsInv, FilesOwned
    <2>3. {f[i] : i \in Used} = FileData
      BY DEF FileData
    <2>4. DOMAIN f = Used /\ f = [i \in Used |-> f[i]]
      OBVIOUS
    <2> HIDE DEF f
    <2> QED
      BY <2>1, <2>2, <2>3, <2>4, ImageSize
  <1>3. IsFiniteSet(Words) /\ Cardinality(Words) = Len(args)
    <2>1. Len(args) \in Nat /\ DOMAIN args = 1 .. Len(args) /\ args = [k \in 1 .. Len(args) |-> args[k]]
      BY DEF ShellInv
    <2>2. IsFiniteSet(1 .. Len(args)) /\ Cardinality(1 .. Len(args)) = Len(args)
      <3> DEFINE n == Len(args)
      <3>1. n \in Nat
        BY <2>1
      <3> HIDE DEF n
      <3>2. 1 \in Int /\ n \in Int
        BY <3>1
      <3>3. IsFiniteSet(1 .. n) /\ Cardinality(1 .. n) = IF 1 > n THEN 0 ELSE n - 1 + 1
        BY <3>2, FS_Interval, Zenon
      <3>4. (IF 1 > n THEN 0 ELSE n - 1 + 1) = n
        BY <3>1
      <3> QED
        BY <3>3, <3>4 DEF n
    <2>3. \A j, k \in 1 .. Len(args) : args[j] = args[k] => j = k
      BY DEF ShellInv
    <2> QED
      BY <2>1, <2>2, <2>3, ImageSize DEF Words
  <1>4. DOMAIN live = FileData \cup Words /\ FileData \cap Words = {}
    BY <1>1
  <1>5. Cardinality(FileData \cup Words) =
          Cardinality(FileData) + Cardinality(Words) - Cardinality(FileData \cap Words)
    BY <1>2, <1>3, FS_Union
  <1>6. Cardinality({}) = 0 /\ Cardinality(Used) \in Nat /\ Len(args) \in Nat
    BY FS_EmptySet, SlotsFinite DEF ShellInv, Used
  <1>7. Cardinality(FileData \cup Words) = Cardinality(Used) + Len(args) - Cardinality({})
    BY <1>2, <1>3, <1>4, <1>5, Zenon
  <1>8. Cardinality(FileData \cup Words) = Cardinality(Used) + Len(args)
    <2> DEFINE c == Cardinality(FileData \cup Words)
               m == Cardinality(Used)
               n == Len(args)
               z == Cardinality({})
    <2>1. c = m + n - z /\ z = 0 /\ m \in Nat /\ n \in Nat
      BY <1>6, <1>7
    <2> HIDE DEF c, m, n, z
    <2>2. c = m + n
      BY <2>1
    <2> QED
      BY <2>2 DEF c, m, n
  <1> QED
    BY <1>4, <1>8, Zenon

\* Whatever a command does and wherever it gives up, the heap holds the files
\* and the words that shell_parse_command has still to free, and nothing else:
\* at the prompt no word is left behind.
THEOREM ShellLeaksNothing == SSpec => []NothingLeaks
  <1>1. ShellInv => NothingLeaks
    <2> SUFFICES ASSUME ShellInv PROVE NothingLeaks
      OBVIOUS
    <2>1. /\ DOMAIN live = FileData \cup Words
          /\ Cardinality(DOMAIN live) = Cardinality(Used) + Len(args)
      BY BuffersCounted
    <2>2. argc <= MAX_ARGS /\ argc \in Nat /\ Len(args) <= argc /\ Len(args) \in Nat
      BY ArgcFacts DEF ShellInv
    <2>3. Len(args) <= MAX_ARGS
      BY <2>2, ShellAssumption
    <2>4. STypeOK
      BY <2>2, <2>3 DEF STypeOK, ShellInv, FsInv, FilesOwned
    <2> QED
      BY <2>1, <2>4 DEF NothingLeaks, FileData, Words
  <1> QED
    BY <1>1, ShellInvAlways, PTL

\* A word is copied to a buffer of its own.
LEMMA TokenKeepsFiles ==
    ASSUME ShellInv, TokenCopied, NEW i \in Used
    PROVE  FileKept(i)
  <1>1. PICK p \in Nat, n \in Nat :
             /\ H!Alloc(n, p) /\ p \in 0 .. HEAP_SIZE
             /\ mem' \in [0 .. (HEAP_SIZE - 1) -> Bytes]
             /\ \A a \in 0 .. (HEAP_SIZE - 1) : ~(p <= a /\ a < p + n) => mem'[a] = mem[a]
             /\ args' = Append(args, p)
    BY TokenFacts
  <1>2. FsInv /\ files' = files
    BY DEF ShellInv, TokenCopied
  <1>3. files[i].data \in DOMAIN live /\ live[files[i].data] = files[i].size
    BY <1>2 DEF FsInv, FilesOwned, FileData
  <1>4. H!Apart(p, n, files[i].data, files[i].size)
    BY <1>1, <1>3 DEF H!Alloc
  <1> QED
    BY <1>1, <1>2, <1>4, ContentsApart DEF FileKept

\* No step of the shell changes the contents of a file that is still there
\* after it, although each command writes its words to the heap.
THEOREM ShellKeepsFiles == SSpec => FilesKept
  <1>1. ASSUME ShellInv, [SNext]_<<vars, shell>>, NEW i \in Used
        PROVE  FileKept(i)
    <2>1. ASSUME files' = files, mem' = mem PROVE FileKept(i)
      BY <1>1, <2>1, SameKept
    <2>2. CASE TokenCopied
      BY <1>1, <2>2, TokenKeepsFiles
    <2>3. CASE Execute
      BY <1>1, <2>3, CommandFacts
    <2>4. CASE UNCHANGED <<vars, shell>>
      BY <2>1, <2>4 DEF vars
    <2>5. CASE (\E l \in Lines : ReadLine(l)) \/ TokenFault \/ TokensDone \/ FreeArg \/ ParseDone
      BY <2>1, <2>5 DEF ReadLine, TokenFault, TokensDone, FreeArg, ParseDone, vars
    <2> QED
      BY <1>1, <2>2, <2>3, <2>4, <2>5 DEF SNext, Work
  <1>2. ShellInv /\ [SNext]_<<vars, shell>>
          => [\A i \in Used : files'[i].is_used => Contents(i)' = Contents(i)]_<<vars, shell>>
    BY <1>1 DEF FileKept
  <1> QED
    BY <1>2, ShellInvAlways, PTL DEF SSpec, FilesKept

=============================================================================
