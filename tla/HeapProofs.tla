----------------------------- MODULE HeapProofs -----------------------------
(***************************************************************************)
(* Proofs about the kernel heap, for every size of heap[] and every set of *)
(* requests.                                                               *)
(***************************************************************************)
EXTENDS Heap, TLAPS

\* Arithmetic that a size is not reduced by the width of size_t.
LEMMA ModSmall ==
    ASSUME NEW x \in Nat, NEW m \in Nat, x < m
    PROVE  x % m = x
  OBVIOUS

\* Rounding to a multiple of eight loses at most seven.
LEMMA DivEight ==
    ASSUME NEW x \in Nat
    PROVE  /\ x \div 8 \in Nat
           /\ 8 * (x \div 8) <= x
           /\ x < 8 * (x \div 8) + 8
  OBVIOUS

\* The rounded size kmalloc looks for is at least what the caller asked for.
LEMMA RoundUpCovers ==
    ASSUME NEW n \in Requests
    PROVE  RoundUp(n) \in Nat /\ n <= RoundUp(n)
  <1>1. n \in Nat /\ n + 7 \in Nat /\ n + 7 < WORD /\ WORD \in Nat
    BY HeapAssumption, RequestAssumption
  <1>2. (n + 7) % WORD = n + 7
    BY <1>1, ModSmall
  <1> DEFINE d == (n + 7) \div 8
  <1>3. d \in Nat /\ n + 7 < 8 * d + 8
    BY <1>1, DivEight
  <1>4. RoundUp(n) = 8 * d
    BY <1>2 DEF RoundUp
  <1> HIDE DEF d
  <1> QED
    BY <1>1, <1>3, <1>4

\* What the invariant says of a single block.
LEMMA BlockFacts ==
    ASSUME HeapInv, NEW a \in Headers
    PROVE  /\ a \in Nat
           /\ blk[a].is_free \in BOOLEAN
           /\ blk[a].size \in Nat
           /\ EndOf(a) \in Nat /\ EndOf(a) = a + 12 + blk[a].size
           /\ EndOf(a) <= HEAP_SIZE
           /\ \/ blk[a].next \in Headers /\ EndOf(a) = blk[a].next /\ blk[a].next # NULL
              \/ blk[a].next = NULL /\ EndOf(a) = HEAP_SIZE
           /\ \A b \in Headers : a < b => EndOf(a) <= b
  <1>1. a \in Nat /\ blk[a].is_free \in BOOLEAN /\ blk[a].size \in Nat
    BY DEF HeapInv, TypeOK
  <1>2. EndOf(a) \in Nat /\ EndOf(a) = a + 12 + blk[a].size
    BY <1>1 DEF EndOf, HDR
  <1>3. \A b \in Headers : b # NULL
    BY DEF HeapInv, TypeOK, NULL
  <1> QED
    BY <1>1, <1>2, <1>3 DEF HeapInv, Tiling, Disjoint

\* memory_init establishes the invariant.
LEMMA InitInv == Init => HeapInv
  <1> SUFFICES ASSUME Init PROVE HeapInv
    OBVIOUS
  <1>1. HEAP_SIZE - HDR \in Nat
    BY HeapAssumption DEF HDR
  <1> QED
    BY <1>1, HeapAssumption
    DEF Init, HeapInv, TypeOK, Tiling, Disjoint, Ownership, CursorInList,
        WalkRejects, Headers, EndOf, HDR, NULL

\* The beginning of a call changes no block but the one that is freed.
LEMMA KmallocInv ==
    ASSUME HeapInv, NEW n \in Requests, kmalloc(n)
    PROVE  HeapInv'
  <1>1. CASE n = 0
    BY <1>1
    DEF kmalloc, vars, HeapInv, TypeOK, Tiling, Disjoint, Ownership,
        CursorInList, WalkRejects, Headers, EndOf, Suits, size
  <1>2. CASE n # 0
    <2>1. n \in Nat
      BY RequestAssumption
    <2>2. /\ UNCHANGED <<blk, live>>
          /\ pc' = "kmalloc" /\ req' = n /\ current' = 0
      BY <1>2 DEF kmalloc
    <2>3. TypeOK' /\ Tiling' /\ Disjoint' /\ Ownership' /\ CursorInList'
      BY <1>2, <2>1, <2>2
      DEF HeapInv, TypeOK, Tiling, Disjoint, Ownership, CursorInList, Headers,
          EndOf, NULL
    <2>4. WalkRejects'
      BY <2>2 DEF HeapInv, TypeOK, WalkRejects, Headers, NULL
    <2> QED
      BY <2>3, <2>4 DEF HeapInv
  <1> QED
    BY <1>1, <1>2

\* A block that the walk of kmalloc rejects stays rejected behind the cursor.
LEMMA KmallocNextInv ==
    ASSUME HeapInv, kmalloc_next
    PROVE  HeapInv'
  <1>1. /\ UNCHANGED <<blk, live, pc, req>>
        /\ current \in Headers /\ ~Suits(current)
        /\ current' = blk[current].next
        /\ pc = "kmalloc"
    BY DEF kmalloc_next, HeapInv, CursorInList
  <1>2. TypeOK' /\ Tiling' /\ Disjoint' /\ Ownership' /\ CursorInList'
    BY <1>1
    DEF HeapInv, TypeOK, Tiling, Disjoint, Ownership, CursorInList, Headers, EndOf
  <1>3. WalkRejects'
    <2> SUFFICES ASSUME NEW a \in Headers, current' = NULL \/ a < current'
                 PROVE  ~Suits(a)
      BY <1>1 DEF WalkRejects, Headers, Suits, size
    <2>1. a \in Nat /\ current \in Nat
      BY <1>1 DEF HeapInv, TypeOK
    <2>2. ~(current < a)
      <3>1. /\ EndOf(a) \in Nat /\ EndOf(current) \in Nat
            /\ a < EndOf(a) /\ EndOf(a) <= HEAP_SIZE
        BY <1>1, BlockFacts
      <3>2. current < a => EndOf(current) <= a
        BY <1>1, BlockFacts
      <3>3. \/ EndOf(current) = current' /\ current' # NULL
            \/ EndOf(current) = HEAP_SIZE
        BY <1>1, BlockFacts
      <3> QED
        BY <2>1, <3>1, <3>2, <3>3, HeapAssumption
    <2>3. CASE a = current
      BY <1>1, <2>3
    <2>4. CASE a < current
      BY <1>1, <2>4 DEF HeapInv, WalkRejects
    <2> QED
      BY <2>1, <2>2, <2>3, <2>4
  <1> QED
    BY <1>2, <1>3 DEF HeapInv

\* A change of one is_free flag leaves the tiling as it is.
LEMMA FlagChange ==
    ASSUME HeapInv, NEW c \in Headers, NEW v \in BOOLEAN,
           blk' = [blk EXCEPT ![c].is_free = v]
    PROVE  /\ DOMAIN blk' = Headers
           /\ blk' \in [Headers -> [is_free : BOOLEAN, size : Nat, next : Nat \cup {NULL}]]
           /\ \A b \in Headers : /\ blk'[b].size = blk[b].size
                                 /\ blk'[b].next = blk[b].next
                                 /\ b # c => blk'[b].is_free = blk[b].is_free
           /\ blk'[c].is_free = v
           /\ Tiling' /\ Disjoint'
  <1> DEFINE R == [is_free : BOOLEAN, size : Nat, next : Nat \cup {NULL}]
  <1>1. blk \in [Headers -> R] /\ blk[c] \in R
    BY DEF HeapInv, TypeOK
  <1>2. blk' = [blk EXCEPT ![c] = [blk[c] EXCEPT !.is_free = v]]
    OBVIOUS
  <1>3. \A r \in R : /\ [r EXCEPT !.is_free = v] \in R
                     /\ [r EXCEPT !.is_free = v].size = r.size
                     /\ [r EXCEPT !.is_free = v].next = r.next
                     /\ [r EXCEPT !.is_free = v].is_free = v
    OBVIOUS
  <1> HIDE DEF R
  <1>4. /\ DOMAIN blk' = Headers
        /\ blk' \in [Headers -> R]
        /\ \A b \in Headers : /\ blk'[b].size = blk[b].size
                              /\ blk'[b].next = blk[b].next
                              /\ b # c => blk'[b].is_free = blk[b].is_free
        /\ blk'[c].is_free = v
    BY <1>1, <1>2, <1>3, Zenon DEF Headers
  <1>5. Tiling' /\ Disjoint'
    BY <1>4 DEF HeapInv, Tiling, Disjoint, Headers, EndOf
  <1> QED
    BY <1>4, <1>5 DEF R

\* The split of kmalloc cuts one block of the tiling in two.
LEMMA SplitBlocks ==
    ASSUME HeapInv, NEW c \in Headers, NEW s \in Nat, NEW new,
           new = c + 12 + s, s + 12 < blk[c].size,
           c = current, s = size, Split(current)
    PROVE  /\ new \in Nat \ Headers
           /\ DOMAIN blk' = Headers \cup {new}
           /\ blk' \in [DOMAIN blk' -> [is_free : BOOLEAN, size : Nat, next : Nat \cup {NULL}]]
           /\ ~blk'[c].is_free /\ blk'[c].size = s /\ blk'[c].next = new
           /\ blk'[new].is_free /\ blk'[new].next = blk[c].next
           /\ \A b \in Headers : b # c => blk'[b] = blk[b]
           /\ Tiling' /\ Disjoint'
  <1>1. /\ c \in Nat /\ new \in Nat /\ c < new /\ new + 12 < EndOf(c)
        /\ EndOf(c) \in Nat /\ EndOf(c) = c + 12 + blk[c].size /\ EndOf(c) <= HEAP_SIZE
        /\ blk[c].size \in Nat /\ blk[c].size - s - 12 \in Nat
        /\ blk[c].next \in Nat \cup {NULL}
    <2>1. blk[c].next \in Nat \cup {NULL}
      BY DEF HeapInv, TypeOK
    <2> QED
      BY <2>1, BlockFacts
  <1>2. new \notin Headers
    BY <1>1, BlockFacts
  <1>3. blk' = [b \in Headers \cup {new} |->
                  CASE b = c   -> [is_free |-> FALSE, size |-> s, next |-> new]
                    [] b = new -> [is_free |-> TRUE, size |-> blk[c].size - s - 12,
                                   next |-> blk[c].next]
                    [] OTHER   -> blk[b]]
    BY DEF Split, HDR
  <1>4. /\ DOMAIN blk' = Headers \cup {new}
        /\ blk'[c] = [is_free |-> FALSE, size |-> s, next |-> new]
        /\ blk'[new] = [is_free |-> TRUE, size |-> blk[c].size - s - 12,
                        next |-> blk[c].next]
        /\ \A b \in Headers : b # c => blk'[b] = blk[b]
    BY <1>2, <1>3
  <1>5. /\ ~blk'[c].is_free /\ blk'[c].size = s /\ blk'[c].next = new
        /\ blk'[new].is_free /\ blk'[new].size = blk[c].size - s - 12
        /\ blk'[new].next = blk[c].next
    BY <1>4
  <1>6. blk' \in [DOMAIN blk' -> [is_free : BOOLEAN, size : Nat, next : Nat \cup {NULL}]]
    <2> DEFINE R == [is_free : BOOLEAN, size : Nat, next : Nat \cup {NULL}]
    <2>1. /\ [is_free |-> FALSE, size |-> s, next |-> new] \in R
          /\ \A n \in Nat, m \in Nat \cup {NULL} :
               [is_free |-> TRUE, size |-> n, next |-> m] \in R
      BY <1>1
    <2>2. \A b \in Headers : b # c => blk'[b] \in R
      BY <1>4 DEF HeapInv, TypeOK
    <2>3. blk' = [b \in DOMAIN blk' |-> blk'[b]]
      BY <1>3
    <2> HIDE DEF R
    <2>4. blk'[c] \in R /\ blk'[new] \in R
      BY <1>1, <1>4, <2>1, Zenon
    <2> QED
      BY <1>4, <2>2, <2>3, <2>4, Zenon DEF R
  <1>7. /\ EndOf(c)' = new
        /\ EndOf(new)' = EndOf(c)
        /\ \A b \in Headers : b # c => EndOf(b)' = EndOf(b)
    <2>1. EndOf(c)' = new /\ EndOf(new)' = EndOf(c)
      BY <1>1, <1>5 DEF EndOf, HDR
    <2>2. \A b \in Headers : b # c => EndOf(b)' = EndOf(b)
      BY <1>4 DEF EndOf
    <2> QED
      BY <2>1, <2>2
  <1>8. Tiling'
    <2>1. 0 \in DOMAIN blk'
      BY <1>4 DEF HeapInv, Tiling
    <2> SUFFICES ASSUME NEW b \in DOMAIN blk'
                 PROVE  \/ blk'[b].next \in DOMAIN blk' /\ EndOf(b)' = blk'[b].next
                        \/ blk'[b].next = NULL /\ EndOf(b)' = HEAP_SIZE
      BY <2>1 DEF Tiling, Headers
    <2>2. CASE b = c
      BY <1>4, <1>5, <1>7, <2>2
    <2>3. CASE b = new
      BY <1>4, <1>5, <1>7, <2>3, BlockFacts
    <2>4. CASE b \in Headers /\ b # c
      BY <1>4, <1>7, <2>4, BlockFacts
    <2> QED
      BY <1>4, <2>2, <2>3, <2>4
  <1>9. Disjoint'
    <2>0. /\ \A a \in Headers : /\ a \in Nat /\ EndOf(a) \in Nat
                                /\ a < EndOf(a) /\ EndOf(a) <= HEAP_SIZE
          /\ \A a, b \in Headers : a < b => EndOf(a) <= b
      BY BlockFacts
    <2>1. ASSUME NEW a \in DOMAIN blk', NEW b \in DOMAIN blk', a < b
          PROVE  EndOf(a)' <= b
      <3>1. CASE a = c
        <4>1. b = new \/ (b \in Headers /\ EndOf(c) <= b /\ b \in Nat)
          BY <1>4, <2>0, <2>1, <3>1
        <4> QED
          BY <1>1, <1>7, <3>1, <4>1
      <3>2. CASE a = new
        <4>0. b # new
          BY <1>1, <2>1, <3>2
        <4>1. b \in Headers /\ b \in Nat
          BY <1>4, <2>0, <4>0
        <4>2. EndOf(c) <= b
          BY <1>1, <2>0, <2>1, <3>2, <4>1
        <4> QED
          BY <1>7, <3>2, <4>2
      <3>3. CASE a \in Headers /\ a # c
        <4>1. EndOf(a)' = EndOf(a) /\ a \in Nat /\ EndOf(a) \in Nat
          BY <1>7, <2>0, <3>3
        <4>2. CASE b \in Headers
          BY <2>0, <2>1, <3>3, <4>1, <4>2
        <4>3. CASE b = new
          <5>1. a < c \/ c < a
            BY <1>1, <3>3, <4>1
          <5>2. ~(c < a)
            <6>1. c < a => EndOf(c) <= a
              BY <2>0, <3>3
            <6> QED
              BY <1>1, <2>1, <4>1, <4>3, <6>1
          <5>3. EndOf(a) <= c
            BY <2>0, <3>3, <5>1, <5>2
          <5> QED
            BY <1>1, <4>1, <4>3, <5>3
        <4> QED
          BY <1>4, <4>2, <4>3
      <3> QED
        BY <1>4, <3>1, <3>2, <3>3
    <2>2. ASSUME NEW a \in DOMAIN blk'
          PROVE  EndOf(a)' <= HEAP_SIZE
      <3>1. CASE a = c
        BY <1>1, <1>7, <3>1, HeapAssumption
      <3>2. CASE a = new
        BY <1>1, <1>7, <3>2
      <3>3. CASE a \in Headers /\ a # c
        BY <1>7, <2>0, <3>3
      <3> QED
        BY <1>4, <3>1, <3>2, <3>3
    <2> QED
      BY <2>1, <2>2 DEF Disjoint, Headers
  <1> QED
    BY <1>1, <1>2, <1>4, <1>5, <1>6, <1>8, <1>9

\* The comparison that decides on a split does not wrap.
LEMMA TakeSize ==
    ASSUME HeapInv, kmalloc_take, NEW c \in Headers, c = current
    PROVE  /\ size \in Nat /\ req <= size
           /\ blk[c].is_free /\ size <= blk[c].size /\ blk[c].size \in Nat
           /\ (size + HDR) % WORD = size + 12
  <1>1. Suits(c) /\ req \in Requests
    BY DEF kmalloc_take, HeapInv, CursorInList
  <1>2. size \in Nat /\ req <= size
    BY <1>1, RoundUpCovers DEF size
  <1>3. blk[c].is_free /\ size <= blk[c].size /\ blk[c].size \in Nat
    BY <1>1, <1>2, BlockFacts DEF Suits
  <1>4. (size + HDR) % WORD = size + 12
    <2>1. size + 12 \in Nat /\ size + 12 < WORD /\ WORD \in Nat
      BY <1>2, <1>3, BlockFacts, HeapAssumption DEF HDR
    <2> QED
      BY <2>1, ModSmall DEF HDR
  <1> QED
    BY <1>2, <1>3, <1>4

\* What kmalloc does when it takes the block at c, split or whole: the caller's
\* pointer is new, and no other used block changes.
LEMMA TakeEffect ==
    ASSUME HeapInv, kmalloc_take, NEW c \in Headers, c = current
    PROVE  /\ c \in Nat /\ blk[c].is_free
           /\ req \in Requests /\ req # 0 /\ req \in Nat
           /\ pc' = "idle" /\ req' = 0 /\ current' = NULL
           /\ live' = [p \in DOMAIN live \cup {c + HDR} |->
                         IF p = c + HDR THEN req ELSE live[p]]
           /\ DOMAIN live' = DOMAIN live \cup {c + HDR}
           /\ live'[c + HDR] = req
           /\ \A p \in DOMAIN live : p # c + HDR /\ live'[p] = live[p]
           /\ DOMAIN live' \subseteq Nat /\ live' \in [DOMAIN live' -> Nat]
           /\ c \in DOMAIN blk' /\ ~blk'[c].is_free /\ blk'[c].size >= req
           /\ blk' \in [DOMAIN blk' -> [is_free : BOOLEAN, size : Nat, next : Nat \cup {NULL}]]
           /\ DOMAIN blk' \subseteq Nat
           /\ \A b \in Headers : b # c => /\ b \in DOMAIN blk'
                                          /\ blk'[b].is_free = blk[b].is_free
                                          /\ blk'[b].size = blk[b].size
           /\ \A b \in DOMAIN blk' \ Headers : blk'[b].is_free
           /\ Tiling' /\ Disjoint'
  <1>1. /\ Suits(c) /\ c \in Nat /\ current = c
        /\ req \in Requests /\ req # 0 /\ req \in Nat
        /\ pc' = "idle" /\ req' = 0 /\ current' = NULL
        /\ live' = [p \in DOMAIN live \cup {c + HDR} |->
                      IF p = c + HDR THEN req ELSE live[p]]
    BY DEF kmalloc_take, HeapInv, TypeOK, CursorInList
  <1> PICK s \in Nat : s = size
    BY TakeSize
  <1>3. /\ blk[c].is_free /\ req <= s /\ s <= blk[c].size /\ blk[c].size \in Nat
        /\ (size + HDR) % WORD = s + 12
    BY TakeSize
  <1>5. /\ DOMAIN live' = DOMAIN live \cup {c + HDR}
        /\ live'[c + HDR] = req
        /\ \A p \in DOMAIN live : p # c + HDR /\ live'[p] = live[p]
        /\ DOMAIN live' \subseteq Nat /\ live' \in [DOMAIN live' -> Nat]
    <2>1. \A p \in DOMAIN live : p \in Nat /\ live[p] \in Nat /\ ~blk[p - HDR].is_free
      BY DEF HeapInv, TypeOK, Ownership
    <2>2. (c + HDR) - HDR = c /\ c + HDR \in Nat
      BY <1>1 DEF HDR
    <2> QED
      BY <1>1, <1>3, <2>1, <2>2
  <1>6. /\ c \in DOMAIN blk' /\ ~blk'[c].is_free /\ blk'[c].size >= req
        /\ blk' \in [DOMAIN blk' -> [is_free : BOOLEAN, size : Nat, next : Nat \cup {NULL}]]
        /\ DOMAIN blk' \subseteq Nat
        /\ \A b \in Headers : b # c => /\ b \in DOMAIN blk'
                                       /\ blk'[b].is_free = blk[b].is_free
                                       /\ blk'[b].size = blk[b].size
        /\ \A b \in DOMAIN blk' \ Headers : blk'[b].is_free
        /\ Tiling' /\ Disjoint'
    <2>1. Headers \subseteq Nat
      BY DEF HeapInv, TypeOK
    <2>2. CASE blk[c].size > (size + HDR) % WORD
      <3>1. Split(current) /\ s + 12 < blk[c].size
        BY <1>1, <1>3, <2>2 DEF kmalloc_take
      <3> PICK new : new = c + 12 + s
        OBVIOUS
      <3>2. /\ new \in Nat
            /\ DOMAIN blk' = Headers \cup {new}
            /\ blk' \in [DOMAIN blk' -> [is_free : BOOLEAN, size : Nat, next : Nat \cup {NULL}]]
            /\ ~blk'[c].is_free /\ blk'[c].size = s
            /\ blk'[new].is_free
            /\ \A b \in Headers : b # c => blk'[b] = blk[b]
            /\ Tiling' /\ Disjoint'
        BY <3>1, SplitBlocks
      <3> QED
        BY <1>1, <1>3, <2>1, <3>2
    <2>3. CASE ~(blk[c].size > (size + HDR) % WORD)
      <3>1. blk' = [blk EXCEPT ![c].is_free = FALSE]
        BY <1>1, <2>3 DEF kmalloc_take
      <3>2. /\ DOMAIN blk' = Headers
            /\ blk' \in [Headers -> [is_free : BOOLEAN, size : Nat, next : Nat \cup {NULL}]]
            /\ \A b \in Headers : /\ blk'[b].size = blk[b].size
                                  /\ b # c => blk'[b].is_free = blk[b].is_free
            /\ ~blk'[c].is_free
            /\ Tiling' /\ Disjoint'
        BY <3>1, FlagChange, Zenon
      <3> QED
        BY <1>1, <1>3, <2>1, <3>2
    <2> QED
      BY <2>2, <2>3
  <1> QED
    BY <1>1, <1>3, <1>5, <1>6

\* kmalloc that takes a block preserves the invariant.
LEMMA KmallocTakeInv ==
    ASSUME HeapInv, kmalloc_take
    PROVE  HeapInv'
  <1> PICK c \in Headers : c = current
    BY DEF kmalloc_take, HeapInv, CursorInList
  <1>1. /\ c \in Nat /\ blk[c].is_free
        /\ pc' = "idle" /\ req' = 0 /\ current' = NULL
        /\ DOMAIN live' = DOMAIN live \cup {c + HDR}
        /\ live'[c + HDR] = req
        /\ \A p \in DOMAIN live : live'[p] = live[p]
        /\ DOMAIN live' \subseteq Nat /\ live' \in [DOMAIN live' -> Nat]
        /\ c \in DOMAIN blk' /\ ~blk'[c].is_free /\ blk'[c].size >= req
        /\ blk' \in [DOMAIN blk' -> [is_free : BOOLEAN, size : Nat, next : Nat \cup {NULL}]]
        /\ DOMAIN blk' \subseteq Nat
        /\ \A b \in Headers : b # c => /\ b \in DOMAIN blk'
                                       /\ blk'[b].is_free = blk[b].is_free
                                       /\ blk'[b].size = blk[b].size
        /\ \A b \in DOMAIN blk' \ Headers : blk'[b].is_free
        /\ Tiling' /\ Disjoint'
    BY TakeEffect, Zenon
  <1>2. CursorInList' /\ WalkRejects'
    BY <1>1 DEF CursorInList, WalkRejects
  <1>3. TypeOK'
    BY <1>1 DEF TypeOK, Headers
  <1>4. Ownership'
    <2>1. ASSUME NEW p \in DOMAIN live'
          PROVE  /\ p - HDR \in DOMAIN blk' /\ ~blk'[p - HDR].is_free
                 /\ blk'[p - HDR].size >= live'[p]
      <3>1. CASE p = c + HDR
        <4>1. p - HDR = c
          BY <1>1, <3>1 DEF HDR
        <4> QED
          BY <1>1, <3>1, <4>1
      <3>2. CASE p \in DOMAIN live
        <4>1. p - HDR \in Headers /\ ~blk[p - HDR].is_free /\ blk[p - HDR].size >= live[p]
          BY <3>2 DEF HeapInv, Ownership
        <4>2. p - HDR # c
          BY <1>1, <4>1
        <4> QED
          BY <1>1, <3>2, <4>1, <4>2
      <3> QED
        BY <1>1, <3>1, <3>2
    <2>2. ASSUME NEW a \in DOMAIN blk', ~blk'[a].is_free
          PROVE  a + HDR \in DOMAIN live'
      BY <1>1, <2>2 DEF HeapInv, Ownership
    <2> QED
      BY <2>1, <2>2 DEF Ownership, Headers
  <1> QED
    BY <1>1, <1>2, <1>3, <1>4 DEF HeapInv

\* kmalloc that reaches the end of the list preserves the invariant.
LEMMA KmallocFailInv ==
    ASSUME HeapInv, kmalloc_fail
    PROVE  HeapInv'
  BY DEF kmalloc_fail, HeapInv, TypeOK, Tiling, Disjoint, Ownership,
         CursorInList, WalkRejects, Headers, EndOf

\* kfree gives up one pointer and marks exactly its block.
LEMMA KfreeInv ==
    ASSUME HeapInv, NEW p \in DOMAIN live \cup {NULL}, kfree(p)
    PROVE  HeapInv'
  <1>1. CASE p = NULL
    BY <1>1
    DEF kfree, vars, HeapInv, TypeOK, Tiling, Disjoint, Ownership,
        CursorInList, WalkRejects, Headers, EndOf, Suits, size
  <1>2. CASE p # NULL
    <2> PICK c \in Headers : c = p - HDR /\ ~blk[c].is_free /\ p \in DOMAIN live
      BY <1>2 DEF HeapInv, Ownership
    <2>1. /\ pc' = "kfree" /\ current' = 0 /\ req' = req
          /\ blk' = [blk EXCEPT ![c].is_free = TRUE]
          /\ live' = [q \in DOMAIN live \ {p} |-> live[q]]
      BY <1>2 DEF kfree
    <2>2. /\ DOMAIN blk' = Headers
          /\ blk' \in [Headers -> [is_free : BOOLEAN, size : Nat, next : Nat \cup {NULL}]]
          /\ \A b \in Headers : /\ blk'[b].size = blk[b].size
                                /\ b # c => blk'[b].is_free = blk[b].is_free
          /\ blk'[c].is_free
          /\ Tiling' /\ Disjoint'
      BY <2>1, FlagChange, Zenon
    <2>3. TypeOK'
      BY <2>1, <2>2 DEF HeapInv, TypeOK, Headers
    <2>4. CursorInList' /\ WalkRejects'
      BY <2>1, <2>2 DEF HeapInv, Tiling, CursorInList, WalkRejects, Headers
    <2>5. Ownership'
      <3>1. ASSUME NEW q \in DOMAIN live'
            PROVE  /\ q - HDR \in DOMAIN blk' /\ ~blk'[q - HDR].is_free
                   /\ blk'[q - HDR].size >= live'[q]
        <4>1. q \in DOMAIN live /\ q # p /\ live'[q] = live[q]
          BY <2>1
        <4>2. q - HDR \in Headers /\ ~blk[q - HDR].is_free /\ blk[q - HDR].size >= live[q]
          BY <4>1 DEF HeapInv, Ownership
        <4>3. q - HDR # c
          BY <4>1 DEF HeapInv, TypeOK, HDR
        <4> QED
          BY <2>2, <4>1, <4>2, <4>3, Zenon
      <3>2. ASSUME NEW a \in DOMAIN blk', ~blk'[a].is_free
            PROVE  a + HDR \in DOMAIN live'
        <4>1. a \in Headers /\ a # c /\ ~blk[a].is_free
          BY <2>2, <3>2
        <4>2. a + HDR \in DOMAIN live
          BY <4>1 DEF HeapInv, Ownership
        <4>3. a + HDR # p
          BY <4>1 DEF HeapInv, TypeOK, HDR
        <4> QED
          BY <2>1, <4>2, <4>3
      <3> QED
        BY <3>1, <3>2 DEF Ownership, Headers
    <2> QED
      BY <2>2, <2>3, <2>4, <2>5 DEF HeapInv
  <1> QED
    BY <1>1, <1>2

\* The cursor of kfree moves from header to header.
LEMMA KfreeNextInv ==
    ASSUME HeapInv, kfree_next
    PROVE  HeapInv'
  <1>1. current \in Headers
    BY DEF kfree_next, HeapInv, CursorInList
  <1>2. blk[current].next \in Headers
    BY <1>1, BlockFacts DEF kfree_next
  <1> QED
    BY <1>2
    DEF kfree_next, HeapInv, TypeOK, Tiling, Disjoint, Ownership, CursorInList,
        WalkRejects, Headers, EndOf

\* The end of the pass of kfree preserves the invariant.
LEMMA KfreeDoneInv ==
    ASSUME HeapInv, kfree_done
    PROVE  HeapInv'
  BY DEF kfree_done, HeapInv, TypeOK, Tiling, Disjoint, Ownership,
         CursorInList, WalkRejects, Headers, EndOf

\* kfree joins a free block with its free successor: the successor's header
\* leaves the list, and neither the cursor nor a caller's pointer refers to it.
LEMMA KfreeMergeInv ==
    ASSUME HeapInv, kfree_merge
    PROVE  HeapInv'
  <1> PICK c \in Headers : c = current
    BY DEF kfree_merge, HeapInv, CursorInList
  <1> PICK n \in Headers : n = blk[c].next /\ EndOf(c) = n
    BY BlockFacts DEF kfree_merge
  <1>1. /\ blk[c].is_free /\ blk[n].is_free
        /\ current' = blk[n].next
        /\ live' = live /\ pc' = pc /\ req' = req /\ pc = "kfree"
    BY DEF kfree_merge, Joins
  <1>2. blk' = [b \in Headers \ {n} |->
                  IF b = c
                  THEN [is_free |-> TRUE, size |-> blk[b].size + HDR + blk[n].size,
                        next |-> blk[n].next]
                  ELSE blk[b]]
    BY DEF kfree_merge
  <1>3. /\ \A a \in Headers : /\ a \in Nat /\ EndOf(a) \in Nat /\ blk[a].size \in Nat
                              /\ a < EndOf(a) /\ EndOf(a) <= HEAP_SIZE
        /\ \A a, b \in Headers : a < b => EndOf(a) <= b
    BY BlockFacts
  <1>4. c < n /\ n < EndOf(n)
    BY <1>3
  <1>5. /\ DOMAIN blk' = Headers \ {n} /\ c \in DOMAIN blk'
        /\ blk'[c] = [is_free |-> TRUE, size |-> blk[c].size + HDR + blk[n].size,
                      next |-> blk[n].next]
        /\ \A b \in DOMAIN blk' : b # c => blk'[b] = blk[b]
        /\ blk' = [b \in DOMAIN blk' |-> blk'[b]]
    BY <1>2, <1>3, <1>4
  <1>6. /\ blk'[c].is_free /\ blk'[c].size = blk[c].size + 12 + blk[n].size
        /\ blk'[c].next = blk[n].next
    BY <1>5 DEF HDR
  <1>7. /\ EndOf(c)' = EndOf(n)
        /\ \A b \in DOMAIN blk' : b # c => EndOf(b)' = EndOf(b)
    <2>1. c + 12 + (blk[c].size + 12 + blk[n].size) = n + 12 + blk[n].size
      BY <1>3 DEF EndOf, HDR
    <2>2. EndOf(c)' = EndOf(n)
      BY <1>3, <1>6, <2>1 DEF EndOf, HDR
    <2>3. \A b \in DOMAIN blk' : b # c => EndOf(b)' = EndOf(b)
      BY <1>5 DEF EndOf
    <2> QED
      BY <2>2, <2>3
  <1>8. blk[n].next = NULL \/ blk[n].next \in DOMAIN blk'
    <2>1. blk[n].next = NULL \/ (blk[n].next \in Headers /\ EndOf(n) = blk[n].next)
      BY BlockFacts
    <2> QED
      BY <1>3, <1>4, <1>5, <2>1
  <1>9. TypeOK'
    <2> DEFINE R == [is_free : BOOLEAN, size : Nat, next : Nat \cup {NULL}]
    <2>1. \A k \in Nat, m \in Nat \cup {NULL} : [is_free |-> TRUE, size |-> k, next |-> m] \in R
      OBVIOUS
    <2>2. blk[c].size + HDR + blk[n].size \in Nat /\ blk[n].next \in Nat \cup {NULL}
      BY <1>3, <1>8, <1>5 DEF HDR
    <2>3. \A b \in Headers : blk[b] \in R
      BY DEF HeapInv, TypeOK
    <2> HIDE DEF R
    <2>4. blk' \in [DOMAIN blk' -> R]
      BY <1>5, <2>1, <2>2, <2>3
    <2> QED
      BY <1>1, <1>3, <1>5, <2>2, <2>4 DEF HeapInv, TypeOK, Headers, R
  <1>10. Tiling'
    <2>1. 0 \in DOMAIN blk'
      BY <1>3, <1>4, <1>5 DEF HeapInv, Tiling
    <2> SUFFICES ASSUME NEW b \in DOMAIN blk'
                 PROVE  \/ blk'[b].next \in DOMAIN blk' /\ EndOf(b)' = blk'[b].next
                        \/ blk'[b].next = NULL /\ EndOf(b)' = HEAP_SIZE
      BY <2>1 DEF Tiling, Headers
    <2>2. CASE b = c
      BY <1>5, <1>6, <1>7, <1>8, <2>2, BlockFacts
    <2>3. CASE b # c
      <3>1. b \in Headers /\ b \in Nat /\ EndOf(b)' = EndOf(b) /\ blk'[b] = blk[b]
        BY <1>3, <1>5, <1>7, <2>3
      <3>2. EndOf(b) # n
        <4>1. b < c => EndOf(b) <= c
          BY <1>3, <3>1
        <4>2. c < b => n <= b
          BY <1>3, <3>1
        <4> QED
          BY <1>3, <1>4, <2>3, <3>1, <4>1, <4>2
      <3> QED
        BY <1>5, <3>1, <3>2, BlockFacts
    <2> QED
      BY <2>2, <2>3
  <1>11. Disjoint'
    <2>1. ASSUME NEW a \in DOMAIN blk', NEW b \in DOMAIN blk', a < b
          PROVE  EndOf(a)' <= b
      <3>1. a \in Headers /\ b \in Headers /\ b # n /\ EndOf(a) <= b
        BY <1>3, <1>5, <2>1
      <3>2. CASE a = c
        <4>1. n < b
          BY <1>3, <3>1, <3>2
        <4> QED
          BY <1>3, <1>7, <3>1, <3>2, <4>1
      <3>3. CASE a # c
        BY <1>7, <3>1, <3>3
      <3> QED
        BY <3>2, <3>3
    <2>2. ASSUME NEW a \in DOMAIN blk'
          PROVE  EndOf(a)' <= HEAP_SIZE
      <3>1. EndOf(a)' = EndOf(n) \/ EndOf(a)' = EndOf(a)
        BY <1>7
      <3> QED
        BY <1>3, <1>5, <3>1
    <2> QED
      BY <2>1, <2>2 DEF Disjoint, Headers
  <1>12. Ownership'
    <2>1. ASSUME NEW p \in DOMAIN live
          PROVE  /\ p - HDR \in DOMAIN blk' /\ ~blk'[p - HDR].is_free
                 /\ blk'[p - HDR].size >= live[p]
      <3>1. p - HDR \in Headers /\ ~blk[p - HDR].is_free /\ blk[p - HDR].size >= live[p]
        BY DEF HeapInv, Ownership
      <3>2. p - HDR # n /\ p - HDR # c
        BY <1>1, <3>1
      <3> QED
        BY <1>5, <3>1, <3>2
    <2>2. ASSUME NEW a \in DOMAIN blk', ~blk'[a].is_free
          PROVE  a + HDR \in DOMAIN live
      BY <1>5, <1>6, <2>2 DEF HeapInv, Ownership
    <2> QED
      BY <1>1, <2>1, <2>2 DEF Ownership, Headers
  <1>13. CursorInList' /\ WalkRejects'
    BY <1>1, <1>8 DEF CursorInList, WalkRejects, Headers
  <1> QED
    BY <1>9, <1>10, <1>11, <1>12, <1>13 DEF HeapInv

\* Every step of kmalloc and kfree preserves the invariant.
LEMMA NextInv ==
    ASSUME HeapInv, [Next]_vars
    PROVE  HeapInv'
  <1>1. CASE UNCHANGED vars
    BY <1>1
    DEF vars, HeapInv, TypeOK, Tiling, Disjoint, Ownership, CursorInList,
        WalkRejects, Headers, EndOf, Suits, size
  <1>2. CASE Call
    BY <1>2, KmallocInv, KfreeInv DEF Call
  <1>3. CASE Loop
    BY <1>3, KmallocTakeInv, KmallocNextInv, KmallocFailInv, KfreeMergeInv,
       KfreeNextInv, KfreeDoneInv DEF Loop
  <1> QED
    BY <1>1, <1>2, <1>3 DEF Next

-----------------------------------------------------------------------------

\* HeapInv, and with it the type invariant, the tiling of heap[] and the
\* agreement between kmalloc, kfree and their callers, holds in every state.
THEOREM HeapInvariance == Spec => []HeapInv
  <1>1. Init => HeapInv
    BY InitInv
  <1>2. HeapInv /\ [Next]_vars => HeapInv'
    BY NextInv
  <1> QED
    BY <1>1, <1>2, PTL DEF Spec

\* Every field that kmalloc and kfree write keeps the type of its declaration.
THEOREM TypeCorrect == Spec => []TypeOK
  <1>1. HeapInv => TypeOK
    BY DEF HeapInv
  <1> QED
    BY <1>1, HeapInvariance, PTL

\* Disjoint blocks, each of which covers its caller's request, give disjoint
\* ranges to the callers.
LEMMA InvNoOverlap ==
    ASSUME HeapInv
    PROVE  PayloadsDisjoint
  <1>1. ASSUME NEW p \in DOMAIN live
        PROVE  /\ p \in Nat /\ live[p] \in Nat /\ p - 12 \in Headers
               /\ p + live[p] <= EndOf(p - 12)
               /\ HDR <= p
    <2>1. p \in Nat /\ live[p] \in Nat
      BY DEF HeapInv, TypeOK
    <2>2. p - 12 \in Headers /\ blk[p - 12].size >= live[p]
      BY DEF HeapInv, Ownership, HDR
    <2>3. p - 12 \in Nat /\ blk[p - 12].size \in Nat
          /\ EndOf(p - 12) = (p - 12) + 12 + blk[p - 12].size
      BY <2>2, BlockFacts
    <2> QED
      BY <2>1, <2>2, <2>3 DEF HDR
  <1>2. ASSUME NEW p \in DOMAIN live PROVE p + live[p] <= HEAP_SIZE
    BY <1>1, BlockFacts, HeapAssumption
  <1>3. ASSUME NEW p \in DOMAIN live, NEW q \in DOMAIN live, p < q
        PROVE  p + live[p] <= q
    <2>1. p - 12 < q - 12
      BY <1>1, <1>3
    <2>2. EndOf(p - 12) <= q - 12 /\ EndOf(p - 12) \in Nat
      BY <1>1, <2>1, BlockFacts
    <2> QED
      BY <1>1, <2>2
  <1> QED
    BY <1>1, <1>2, <1>3 DEF PayloadsDisjoint

\* The byte ranges that kmalloc has handed out never overlap and lie in heap[].
THEOREM NoOverlap == Spec => []PayloadsDisjoint
  BY InvNoOverlap, HeapInvariance, PTL

\* kmalloc takes the lowest suitable block, and fails only if there is none.
THEOREM KmallocFirstFit == Spec => FirstFit
  <1>1. ASSUME HeapInv
        PROVE  /\ kmalloc_take => \A a \in Headers : Suits(a) => current <= a
               /\ kmalloc_fail => \A a \in Headers : ~Suits(a)
    <2>1. ASSUME kmalloc_take, NEW a \in Headers, Suits(a)
          PROVE  current <= a
      <3>1. a \in Nat /\ current \in Nat /\ ~(a < current)
        BY <1>1, <2>1 DEF HeapInv, TypeOK, WalkRejects, kmalloc_take
      <3> QED
        BY <3>1
    <2>2. ASSUME kmalloc_fail, NEW a \in Headers
          PROVE  ~Suits(a)
      BY <1>1, <2>2 DEF HeapInv, WalkRejects, kmalloc_fail
    <2> QED
      BY <2>1, <2>2
  <1> QED
    BY <1>1, HeapInvariance, PTL DEF Spec, FirstFit

\* Nothing moves or resizes the block of a pointer that a caller keeps.
THEOREM LiveBlocksKept == Spec => LiveBlocksStable
  <1> DEFINE Kept(p) == /\ live'[p] = live[p]
                        /\ p - HDR \in DOMAIN blk'
                        /\ blk'[p - HDR].size = blk[p - HDR].size
  <1>1. ASSUME HeapInv, [Next]_vars, NEW p \in DOMAIN live \cap DOMAIN live'
        PROVE  Kept(p)
    <2>1. p - HDR \in Headers /\ ~blk[p - HDR].is_free
      BY <1>1 DEF HeapInv, Ownership
    <2>2. CASE UNCHANGED <<blk, live>>
      BY <2>1, <2>2 DEF Headers
    <2>3. CASE kmalloc_take
      <3> PICK c \in Headers : c = current
        BY <1>1, <2>3 DEF kmalloc_take, HeapInv, CursorInList
      <3>1. /\ blk[c].is_free
            /\ \A q \in DOMAIN live : live'[q] = live[q]
            /\ \A b \in Headers : b # c => b \in DOMAIN blk' /\ blk'[b].size = blk[b].size
        BY <1>1, <2>3, TakeEffect, Zenon
      <3> QED
        BY <2>1, <3>1
    <2>4. CASE \E q \in DOMAIN live \cup {NULL} : kfree(q)
      <3> PICK q \in DOMAIN live \cup {NULL} : kfree(q)
        BY <2>4
      <3>1. CASE q = NULL
        BY <2>2, <3>1 DEF kfree, vars
      <3>2. CASE q # NULL
        <4> PICK c \in Headers : c = q - HDR
          BY <1>1, <3>2 DEF HeapInv, Ownership
        <4>1. /\ blk' = [blk EXCEPT ![c].is_free = TRUE]
              /\ live' = [r \in DOMAIN live \ {q} |-> live[r]]
          BY <3>2 DEF kfree
        <4>2. DOMAIN blk' = Headers /\ \A b \in Headers : blk'[b].size = blk[b].size
          BY <1>1, <4>1, FlagChange, Zenon
        <4> QED
          BY <1>1, <2>1, <4>1, <4>2
      <3> QED
        BY <3>1, <3>2
    <2>5. CASE kfree_merge
      <3> PICK c \in Headers : c = current
        BY <1>1, <2>5 DEF kfree_merge, HeapInv, CursorInList
      <3>1. /\ blk[c].is_free /\ blk[blk[c].next].is_free /\ live' = live
            /\ blk' = [b \in Headers \ {blk[c].next} |->
                         IF b = c
                         THEN [is_free |-> TRUE,
                               size    |-> blk[b].size + HDR + blk[blk[c].next].size,
                               next    |-> blk[blk[c].next].next]
                         ELSE blk[b]]
        BY <2>5 DEF kfree_merge, Joins
      <3>2. p - HDR # c /\ p - HDR # blk[c].next
        BY <2>1, <3>1
      <3> QED
        BY <2>1, <3>1, <3>2
    <2> QED
      BY <1>1, <2>2, <2>3, <2>4, <2>5
      DEF Next, Call, Loop, vars, kmalloc, kmalloc_next, kmalloc_fail, kfree_next, kfree_done
  <1>2. ASSUME HeapInv, [Next]_vars
        PROVE  [\A p \in DOMAIN live \cap DOMAIN live' :
                  /\ live'[p] = live[p]
                  /\ p - HDR \in DOMAIN blk'
                  /\ blk'[p - HDR].size = blk[p - HDR].size]_vars
    BY <1>1, <1>2
  <1> QED
    BY <1>2, HeapInvariance, PTL DEF Spec, LiveBlocksStable

\* Every step of the heap is a step of the abstract heap or invisible to the
\* callers: kmalloc hands out a range of bytes nobody holds, and kfree gives
\* back exactly the range it is passed.
THEOREM HeapRefinesAbs == Spec => AbsSpec
  <1>1. Init => Abs!Init
    BY DEF Init, Abs!Init
  <1>2. ASSUME HeapInv, HeapInv', [Next]_vars
        PROVE  [Abs!Next]_live
    <2>1. CASE kmalloc_take
      <3> PICK c \in Headers : c = current
        BY <1>2, <2>1 DEF kmalloc_take, HeapInv, CursorInList
      <3> PICK p : p = c + HDR
        OBVIOUS
      <3>1. /\ req \in Requests /\ req # 0 /\ p \in Nat /\ req \in Nat
            /\ live' = [q \in DOMAIN live \cup {p} |-> IF q = p THEN req ELSE live[q]]
            /\ DOMAIN live' = DOMAIN live \cup {p} /\ live'[p] = req
            /\ \A q \in DOMAIN live : q # p /\ live'[q] = live[q]
        <4>1. c \in Nat
          BY <1>2, <2>1, TakeEffect, Zenon
        <4>2. c + HDR \in Nat
          BY <4>1 DEF HDR
        <4>3. /\ req \in Requests /\ req # 0 /\ req \in Nat
              /\ live' = [q \in DOMAIN live \cup {c + HDR} |-> IF q = c + HDR THEN req ELSE live[q]]
              /\ DOMAIN live' = DOMAIN live \cup {c + HDR} /\ live'[c + HDR] = req
              /\ \A q \in DOMAIN live : q # c + HDR /\ live'[q] = live[q]
          BY <1>2, <2>1, TakeEffect, Zenon
        <4> QED
          BY <4>2, <4>3, Zenon
      <3>2. PayloadsDisjoint'
        BY <1>2, InvNoOverlap, PTL
      <3>3. p + req <= HEAP_SIZE
        BY <3>1, <3>2, Zenon DEF PayloadsDisjoint
      <3>4. ASSUME NEW q \in DOMAIN live
            PROVE  Abs!Apart(p, req, q, live[q])
        <4>1. q \in Nat /\ q # p
          BY <1>2, <3>1 DEF HeapInv, TypeOK
        <4> QED
          BY <3>1, <3>2, <4>1 DEF PayloadsDisjoint, Abs!Apart
      <3>5. p \in 0 .. HEAP_SIZE
        BY <3>1, <3>3, HeapAssumption
      <3>6. Abs!Alloc(req, p)
        BY <3>1, <3>3, <3>4 DEF Abs!Alloc
      <3> QED
        BY <3>1, <3>5, <3>6 DEF Abs!Next
    <2>2. CASE \E q \in DOMAIN live \cup {NULL} : kfree(q)
      <3> PICK q \in DOMAIN live \cup {NULL} : kfree(q)
        BY <2>2
      <3>1. CASE q = NULL
        BY <3>1 DEF kfree, vars
      <3>2. CASE q # NULL
        BY <3>2 DEF kfree, Abs!Next, Abs!Free
      <3> QED
        BY <3>1, <3>2
    <2> QED
      BY <1>2, <2>1, <2>2
      DEF Next, Call, Loop, vars, kmalloc, kmalloc_next, kmalloc_fail,
          kfree_merge, kfree_next, kfree_done
  <1> QED
    BY <1>1, <1>2, HeapInvariance, PTL DEF Spec, AbsSpec, Abs!Spec

-----------------------------------------------------------------------------
(***************************************************************************)
(* The single pass of kfree.                                               *)
(***************************************************************************)

\* What it means that a block and its successor are both free.
LEMMA PairFacts ==
    ASSUME HeapInv, NEW a
    PROVE  a \in FreePairs <=> /\ a \in Headers /\ blk[a].is_free
                               /\ blk[a].next \in Headers /\ blk[blk[a].next].is_free
  <1>1. \A b \in Headers : b # NULL
    BY DEF HeapInv, TypeOK, NULL
  <1> QED
    BY <1>1, BlockFacts DEF FreePairs

\* A block has at most one predecessor in the list.
LEMMA OnePredecessor ==
    ASSUME HeapInv, NEW a \in Headers, NEW b \in Headers, NEW n \in Headers,
           blk[a].next = n, blk[b].next = n
    PROVE  a = b
  <1>1. /\ a \in Nat /\ b \in Nat /\ n \in Nat
        /\ EndOf(a) = n /\ EndOf(b) = n /\ a < n /\ b < n
        /\ a < b => EndOf(a) <= b
        /\ b < a => EndOf(b) <= a
    <2>1. n # NULL
      BY DEF HeapInv, TypeOK, NULL
    <2> QED
      BY <2>1, BlockFacts
  <1> QED
    BY <1>1

\* One block forms no pair.
LEMMA PassInit == Init => PassInv
  BY DEF Init, PassInv, FreePairs, AtMostOne, Headers

\* Steps that move no block and no cursor of kfree.
LEMMA PairsUnchanged ==
    ASSUME blk' = blk
    PROVE  FreePairs' = FreePairs /\ Headers' = Headers
  BY DEF FreePairs, Headers

\* A kmalloc forms no new pair: the rest of a split follows a used block, and it
\* forms a pair only if the block that was split did.
LEMMA PassTake ==
    ASSUME HeapInv, PassInv, kmalloc_take
    PROVE  PassInv'
  <1> PICK c \in Headers : c = current
    BY DEF kmalloc_take, HeapInv, CursorInList
  <1>1. AtMostOne(FreePairs) /\ pc' = "idle"
    BY DEF PassInv, kmalloc_take
  <1> SUFFICES AtMostOne(FreePairs')
    BY <1>1 DEF PassInv
  <1>2. CASE blk[c].size > (size + HDR) % WORD
    <2> PICK s : s = size
      OBVIOUS
    <2>0. s \in Nat /\ s + 12 < blk[c].size /\ Split(current) /\ blk[c].is_free
      BY <1>2, TakeSize DEF kmalloc_take
    <2> PICK new : new = c + 12 + s
      OBVIOUS
    <2>1. /\ new \in Nat \ Headers
          /\ DOMAIN blk' = Headers \cup {new}
          /\ blk'[c].next = new
          /\ blk'[new].next = blk[c].next
          /\ ~blk'[c].is_free
          /\ \A b \in Headers : b # c => blk'[b] = blk[b]
      BY <2>0, SplitBlocks
    <2>2. ASSUME NEW a \in FreePairs'
          PROVE  \/ a = new /\ c \in FreePairs
                 \/ a \in FreePairs /\ a # c
      <3>1. /\ a \in DOMAIN blk' /\ blk'[a].is_free
            /\ blk'[a].next # NULL /\ blk'[blk'[a].next].is_free
        BY <2>2 DEF FreePairs, Headers
      <3>2. CASE a = new
        <4>1. blk[c].next \in Headers /\ blk[c].next # c
          BY <2>1, <3>1, <3>2, BlockFacts
        <4> QED
          BY <2>0, <2>1, <3>1, <3>2, <4>1, PairFacts
      <3>3. CASE a # new
        <4>1. a \in Headers /\ a # c /\ blk'[a] = blk[a]
          BY <2>1, <3>1, <3>3
        <4>2. blk[a].next \in Headers /\ blk[a].next # c
          BY <2>1, <3>1, <4>1, BlockFacts
        <4> QED
          BY <2>1, <3>1, <4>1, <4>2, PairFacts
      <3> QED
        BY <3>2, <3>3
    <2> QED
      BY <1>1, <2>1, <2>2 DEF AtMostOne
  <1>3. CASE ~(blk[c].size > (size + HDR) % WORD)
    <2>1. blk' = [blk EXCEPT ![c].is_free = FALSE]
      BY <1>3 DEF kmalloc_take
    <2>2. /\ DOMAIN blk' = Headers
          /\ \A b \in Headers : /\ blk'[b].next = blk[b].next
                                /\ b # c => blk'[b].is_free = blk[b].is_free
          /\ ~blk'[c].is_free
      BY <2>1, FlagChange, Zenon
    <2>3. FreePairs' \subseteq FreePairs
      <3> SUFFICES ASSUME NEW a \in FreePairs' PROVE a \in FreePairs
        OBVIOUS
      <3>1. /\ a \in Headers /\ blk'[a].is_free
            /\ blk'[a].next # NULL /\ blk'[blk'[a].next].is_free
        BY <2>2 DEF FreePairs, Headers
      <3>2. blk[a].next \in Headers
        BY <2>2, <3>1, BlockFacts
      <3> QED
        BY <2>2, <3>1, <3>2, PairFacts
    <2> QED
      BY <1>1, <2>3 DEF AtMostOne
  <1> QED
    BY <1>2, <1>3

\* The freed block can form two new pairs: with its predecessor and with its
\* successor.
LEMMA PassKfree ==
    ASSUME HeapInv, PassInv, NEW p \in DOMAIN live, p # NULL, kfree(p)
    PROVE  PassInv'
  <1> PICK f \in Headers : f = p - HDR
    BY DEF HeapInv, Ownership
  <1>1. /\ AtMostOne(FreePairs)
        /\ pc' = "kfree" /\ current' = 0
        /\ blk' = [blk EXCEPT ![f].is_free = TRUE]
    BY DEF kfree, PassInv
  <1>2. /\ DOMAIN blk' = Headers
        /\ \A b \in Headers : /\ blk'[b].next = blk[b].next
                              /\ b # f => blk'[b].is_free = blk[b].is_free
    BY <1>1, FlagChange, Zenon
  <1>3. ASSUME NEW a \in FreePairs', a # f, a \notin FreePairs
        PROVE  a \in Headers /\ blk[a].next = f
    <2>1. /\ a \in Headers /\ blk'[a].is_free
          /\ blk'[a].next # NULL /\ blk'[blk'[a].next].is_free
      BY <1>2, <1>3 DEF FreePairs, Headers
    <2>2. blk[a].next \in Headers
      BY <1>2, <2>1, BlockFacts
    <2> QED
      BY <1>2, <1>3, <2>1, <2>2, PairFacts, Zenon
  <1>4. FreePairs \subseteq Headers
    BY DEF FreePairs
  <1> PICK x \in Headers : FreePairs \subseteq {x}
    BY <1>1, <1>4 DEF AtMostOne
  <1> PICK z \in Headers : \A a \in Headers : blk[a].next = f => a = z
    BY OnePredecessor
  <1>5. FreePairs' \subseteq {x, f, z}
    BY <1>3, Zenon
  <1>6. Behind' = {}
    <2>1. \A a \in DOMAIN blk' : ~(a < 0)
      BY <1>2 DEF HeapInv, TypeOK
    <2> QED
      BY <1>1, <2>1 DEF Behind, FreePairs, Headers, NULL
  <1>7. AtMostThree(Ahead)'
    BY <1>2, <1>5 DEF AtMostThree, Ahead, Headers
  <1> QED
    BY <1>1, <1>6, <1>7 DEF PassInv

\* The cursor passes a block that forms no pair.
LEMMA PassNext ==
    ASSUME HeapInv, PassInv, kfree_next
    PROVE  PassInv'
  <1> PICK c \in Headers : c = current
    BY DEF kfree_next, HeapInv, CursorInList
  <1> PICK n \in Headers : n = blk[c].next /\ EndOf(c) = n
    BY BlockFacts DEF kfree_next
  <1>1. blk' = blk /\ pc' = "kfree" /\ pc = "kfree" /\ current' = n /\ c \notin FreePairs
    BY PairFacts DEF kfree_next, Joins
  <1>2. FreePairs' = FreePairs /\ Headers' = Headers /\ FreePairs \subseteq Headers
    BY <1>1, PairsUnchanged DEF FreePairs
  <1>3. c # NULL /\ n # NULL
    BY DEF HeapInv, TypeOK, NULL
  <1>4. \A a \in Headers : a < n <=> a < c \/ a = c
    BY BlockFacts
  <1>5. Behind' = Behind /\ Ahead' = Ahead
    BY <1>1, <1>2, <1>3, <1>4 DEF Behind, Ahead
  <1> QED
    BY <1>1, <1>2, <1>5 DEF PassInv, AtMostOne, AtMostThree

\* The end of the pass: the last block forms no pair.
LEMMA PassDone ==
    ASSUME HeapInv, PassInv, kfree_done
    PROVE  PassInv'
  <1>1. blk' = blk /\ pc' = "idle" /\ pc = "kfree"
    BY DEF kfree_done
  <1>2. FreePairs' = FreePairs
    BY <1>1, PairsUnchanged
  <1>3. Ahead = {}
    <2> SUFFICES ASSUME NEW a \in Ahead PROVE FALSE
      OBVIOUS
    <2>1. /\ a \in Headers /\ a \in Nat /\ blk[a].next # NULL
          /\ current # NULL /\ ~(a < current)
      BY BlockFacts DEF Ahead, Behind, FreePairs
    <2>2. current \in Headers /\ current \in Nat /\ blk[current].next = NULL /\ current < a
      BY <2>1 DEF kfree_done, HeapInv, CursorInList, TypeOK
    <2> QED
      BY <2>1, <2>2, BlockFacts, HeapAssumption
  <1>4. FreePairs = Behind
    BY <1>3 DEF Ahead, Behind
  <1> QED
    BY <1>1, <1>2, <1>4 DEF PassInv, AtMostOne

\* A merge at c with n: the pair at c is gone, and if n was a pair too, the
\* merged block forms one with the block behind it, which the pass leaves.
LEMMA PassMerge ==
    ASSUME HeapInv, PassInv, kfree_merge
    PROVE  PassInv'
  <1> PICK c \in Headers : c = current
    BY DEF kfree_merge, HeapInv, CursorInList
  <1> PICK n \in Headers : n = blk[c].next /\ EndOf(c) = n
    BY BlockFacts DEF kfree_merge
  <1>1. /\ blk[c].is_free /\ blk[n].is_free
        /\ current' = blk[n].next
        /\ pc' = "kfree" /\ pc = "kfree"
        /\ c \in FreePairs
    BY PairFacts DEF kfree_merge, Joins
  <1>2. c # NULL /\ c \in Nat /\ n \in Nat /\ c < n /\ c # n
    BY BlockFacts DEF HeapInv, TypeOK, NULL
  <1>3. blk' = [b \in Headers \ {n} |->
                  IF b = c
                  THEN [is_free |-> TRUE, size |-> blk[b].size + HDR + blk[n].size,
                        next |-> blk[n].next]
                  ELSE blk[b]]
    BY DEF kfree_merge
  <1>4. /\ DOMAIN blk' = Headers \ {n} /\ c \in DOMAIN blk'
        /\ blk'[c].is_free /\ blk'[c].next = blk[n].next
        /\ \A b \in DOMAIN blk' : b # c => blk'[b] = blk[b]
    BY <1>2, <1>3
  <1>5. ASSUME NEW a \in FreePairs'
        PROVE  \/ a = c /\ n \in FreePairs
               \/ a \in FreePairs /\ a # c /\ a # n
    <2>1. /\ a \in DOMAIN blk' /\ blk'[a].is_free
          /\ blk'[a].next # NULL /\ blk'[blk'[a].next].is_free
      BY <1>5 DEF FreePairs, Headers
    <2>2. CASE a = c
      <3>1. blk[n].next \in Headers /\ blk[n].next # n /\ blk[n].next # c
        BY <1>2, <1>4, <2>1, <2>2, BlockFacts
      <3> QED
        BY <1>1, <1>4, <2>1, <2>2, <3>1, PairFacts
    <2>3. CASE a # c
      <3>1. a \in Headers /\ a # n /\ blk'[a] = blk[a]
        BY <1>4, <2>1, <2>3
      <3>2. blk[a].next \in Headers /\ blk[a].next # n
        BY <2>1, <2>3, <3>1, BlockFacts, OnePredecessor
      <3> QED
        BY <1>1, <1>4, <2>1, <2>3, <3>1, <3>2, PairFacts
    <2> QED
      BY <2>2, <2>3
  <1>6. \A a \in Headers : /\ a \in Nat
                           /\ (current' = NULL \/ a < current') => a < c \/ a = c \/ a = n
                           /\ ~(current' = NULL \/ a < current') => ~(a < c) /\ a # c
    <2> SUFFICES ASSUME NEW a \in Headers
                 PROVE  /\ a \in Nat
                        /\ (current' = NULL \/ a < current') => a < c \/ a = c \/ a = n
                        /\ ~(current' = NULL \/ a < current') => ~(a < c) /\ a # c
      OBVIOUS
    <2>1. /\ a \in Nat /\ EndOf(a) \in Nat /\ a < EndOf(a) /\ EndOf(a) <= HEAP_SIZE
          /\ EndOf(n) \in Nat /\ n < EndOf(n)
          /\ c < a => n <= a
          /\ n < a => EndOf(n) <= a
      BY BlockFacts
    <2>2. \/ current' # NULL /\ current' = EndOf(n)
          \/ current' = NULL /\ EndOf(n) = HEAP_SIZE
      BY <1>1, BlockFacts
    <2> QED
      BY <1>2, <2>1, <2>2, HeapAssumption
  <1>7. ASSUME NEW a \in Behind'
        PROVE  a \in Behind \/ (a = c /\ n \in FreePairs)
    <2>1. a \in FreePairs' /\ (current' = NULL \/ a < current')
      BY <1>7 DEF Behind
    <2>2. CASE a \in FreePairs /\ a # c /\ a # n
      BY <1>6, <2>1, <2>2 DEF Behind, FreePairs
    <2> QED
      BY <1>5, <2>1, <2>2
  <1>8. ASSUME NEW a \in Ahead'
        PROVE  a \in Ahead /\ a # c /\ a # n
    <2>1. a \in FreePairs' /\ ~(current' = NULL \/ a < current')
      BY <1>8 DEF Ahead, Behind
    <2>2. a \in Headers
      BY <1>5, <2>1 DEF FreePairs
    <2> QED
      BY <1>2, <1>5, <1>6, <2>1, <2>2 DEF Ahead, Behind
  <1>9. c \in Ahead /\ (n \in FreePairs => n \in Ahead)
    BY <1>1, <1>2 DEF Ahead, Behind
  <1>10. CASE Behind = {} /\ AtMostThree(Ahead)
    <2> PICK x \in Headers, y \in Headers, z \in Headers : Ahead \subseteq {x, y, z}
      BY <1>10 DEF AtMostThree
    <2>1. CASE n \in FreePairs
      <3>1. AtMostOne(Behind')
        BY <1>7, <1>10 DEF AtMostOne
      <3>2. AtMostOne(Ahead')
        BY <1>2, <1>8, <1>9, <2>1, Zenon DEF AtMostOne
      <3> QED
        BY <1>1, <3>1, <3>2 DEF PassInv, AtMostOne
    <2>2. CASE n \notin FreePairs
      <3>1. Behind' = {}
        BY <1>7, <1>10, <2>2
      <3> DEFINE Other(w) == IF w = n THEN c ELSE w
      <3>2. /\ Other(x) \in DOMAIN blk' /\ Other(y) \in DOMAIN blk' /\ Other(z) \in DOMAIN blk'
            /\ Ahead' \subseteq {Other(x), Other(y), Other(z)}
        BY <1>4, <1>8
      <3> HIDE DEF Other
      <3>3. AtMostThree(Ahead)'
        BY <3>2 DEF AtMostThree, Headers
      <3> QED
        BY <1>1, <3>1, <3>3 DEF PassInv
    <2> QED
      BY <2>1, <2>2
  <1>11. CASE AtMostOne(Behind) /\ AtMostOne(Ahead)
    <2>1. n \notin FreePairs
      BY <1>2, <1>9, <1>11 DEF AtMostOne
    <2>2. AtMostOne(Behind') /\ AtMostOne(Ahead')
      BY <1>7, <1>8, <1>11, <2>1 DEF AtMostOne
    <2> QED
      BY <1>1, <2>2 DEF PassInv, AtMostOne
  <1> QED
    BY <1>1, <1>10, <1>11 DEF PassInv

\* Every step of kmalloc and kfree preserves PassInv.
LEMMA PassStep ==
    ASSUME HeapInv, PassInv, [Next]_vars
    PROVE  PassInv'
  <1>1. CASE blk' = blk /\ pc # "kfree" /\ pc' # "kfree"
    BY <1>1, PairsUnchanged DEF PassInv, AtMostOne
  <1>2. CASE UNCHANGED vars
    BY <1>2, PairsUnchanged DEF vars, PassInv, AtMostOne, AtMostThree, Behind, Ahead
  <1>3. CASE Call
    BY <1>1, <1>2, <1>3, PassKfree, Zenon DEF Call, kmalloc, kfree
  <1>4. CASE Loop
    BY <1>1, <1>4, PassTake, PassNext, PassDone, PassMerge DEF Loop, kmalloc_next, kmalloc_fail
  <1> QED
    BY <1>2, <1>3, <1>4 DEF Next

\* However the calls of kmalloc and kfree are interleaved and whatever they
\* ask for, at most one pair of adjacent free blocks remains between calls.
THEOREM AtMostOneFreePair == Spec => []OneFreePair
  <1>1. PassInv => OneFreePair
    BY DEF PassInv, OneFreePair
  <1>2. HeapInv /\ PassInv /\ [Next]_vars => PassInv'
    BY PassStep
  <1> QED
    BY <1>1, <1>2, PassInit, HeapInvariance, PTL DEF Spec

=============================================================================
