-------------------------------- MODULE Heap --------------------------------
(***************************************************************************)
(* The kernel heap of kernel.c: memory_init, kmalloc and kfree.            *)
(*                                                                         *)
(* The array heap[] is tiled by blocks.  A block is a 12-byte header       *)
(* (struct mem_block: is_free, size, next) followed by size payload bytes, *)
(* and the headers form a list in address order that starts at free_list.  *)
(* Addresses are byte offsets into heap[], so free_list, which             *)
(* memory_init sets once and nothing moves, is 0.                          *)
(*                                                                         *)
(* kmalloc and kfree both walk the list.  An action is one iteration of    *)
(* the loop; pc and current are the walk's control state.  The kernel is   *)
(* one thread and no interrupt handler allocates, so a walk that has begun *)
(* finishes before the next call.                                          *)
(***************************************************************************)
EXTENDS Integers

CONSTANTS
    HEAP_SIZE,   \* bytes in heap[]
    WORD,        \* 2^(bits of size_t): size arithmetic is modulo WORD
    Requests     \* the sizes that callers pass to kmalloc

HDR == 12        \* sizeof(struct mem_block) on a 32-bit target
NULL == -1       \* a null pointer: no offset of heap[]

\* memory_init needs room for one header and a payload byte, and size_t can
\* hold the size of heap[].
ASSUME HeapAssumption ==
    /\ HEAP_SIZE \in Nat /\ WORD \in Nat
    /\ HDR < HEAP_SIZE /\ HEAP_SIZE + HDR < WORD

\* Callers pass compile-time sizes, file sizes up to MAX_FILESIZE or token
\* lengths: none is close enough to WORD for size + 7 to wrap.
ASSUME RequestAssumption ==
    /\ Requests \subseteq Nat
    /\ \A n \in Requests : n + 7 < WORD

VARIABLES
    blk,      \* header address |-> struct mem_block, for the headers in the list
    live,     \* payload address |-> bytes asked for, for what callers hold
    pc,       \* "idle", or the function whose loop is running
    req,      \* the argument of the kmalloc in progress
    current   \* the loop variable of kmalloc and kfree

vars == <<blk, live, pc, req, current>>

Headers == DOMAIN blk

\* Mutant: rounding down.
RoundDown(n) == 8 * (n \div 8)

\* size = (size + 7) & ~7, in the width of size_t.
RoundUp(n) == 8 * (((n + 7) % WORD) \div 8)

size == RoundUp(req)

EndOf(a) == a + HDR + blk[a].size

\* Mutant: is_free is not tested.
SuitsBySize(a) == blk[a].size >= size

\* The block at header a satisfies the request of the kmalloc in progress.
Suits(a) == blk[a].is_free /\ blk[a].size >= size

-----------------------------------------------------------------------------

\* memory_init: one free block that spans heap[].
Init ==
    /\ blk = [a \in {0} |-> [is_free |-> TRUE, size |-> HEAP_SIZE - HDR, next |-> NULL]]
    /\ live = [p \in {} |-> 0]
    /\ pc = "idle"
    /\ req = 0
    /\ current = NULL

\* Mutant: the walk starts at the second block.
kmalloc_second(n) ==
    /\ pc = "idle"
    /\ n # 0
    /\ pc' = "kmalloc"
    /\ req' = n
    /\ current' = blk[0].next
    /\ UNCHANGED <<blk, live>>

\* kmalloc(n) up to its loop; a request of 0 bytes returns NULL at once.
kmalloc(n) ==
    /\ pc = "idle"
    /\ IF n = 0
       THEN UNCHANGED vars
       ELSE /\ pc' = "kmalloc"
            /\ req' = n
            /\ current' = 0
            /\ UNCHANGED <<blk, live>>

\* Mutant: the size of the new header is not subtracted from the rest.
SplitLong(a) ==
    LET new == a + HDR + size
    IN  blk' = [b \in Headers \cup {new} |->
                  CASE b = a   -> [is_free |-> FALSE, size |-> size, next |-> new]
                    [] b = new -> [is_free |-> TRUE,
                                   size    |-> blk[a].size - size,
                                   next    |-> blk[a].next]
                    [] OTHER   -> blk[b]]

\* The block is larger than the request by more than a header: what is left
\* becomes a free block behind it.
Split(a) ==
    LET new == a + HDR + size
    IN  blk' = [b \in Headers \cup {new} |->
                  CASE b = a   -> [is_free |-> FALSE, size |-> size, next |-> new]
                    [] b = new -> [is_free |-> TRUE,
                                   size    |-> blk[a].size - size - HDR,
                                   next    |-> blk[a].next]
                    [] OTHER   -> blk[b]]

\* The loop body on a suitable block: split if worthwhile, mark it used,
\* return its payload address.
kmalloc_take ==
    /\ pc = "kmalloc"
    /\ current # NULL
    /\ Suits(current)
    /\ IF blk[current].size > (size + HDR) % WORD
       THEN Split(current)
       ELSE blk' = [blk EXCEPT ![current].is_free = FALSE]
    /\ live' = [p \in DOMAIN live \cup {current + HDR} |->
                  IF p = current + HDR THEN req ELSE live[p]]
    /\ pc' = "idle"
    /\ req' = 0
    /\ current' = NULL

\* The loop body on any other block.
kmalloc_next ==
    /\ pc = "kmalloc"
    /\ current # NULL
    /\ ~Suits(current)
    /\ current' = blk[current].next
    /\ UNCHANGED <<blk, live, pc, req>>

\* The end of the list: kmalloc returns NULL.
kmalloc_fail ==
    /\ pc = "kmalloc"
    /\ current = NULL
    /\ pc' = "idle"
    /\ req' = 0
    /\ UNCHANGED <<blk, live, current>>

-----------------------------------------------------------------------------

\* Mutant: the pass starts at the freed block.
kfree_forward(p) ==
    /\ pc = "idle"
    /\ p # NULL
    /\ blk' = [blk EXCEPT ![p - HDR].is_free = TRUE]
    /\ live' = [q \in DOMAIN live \ {p} |-> live[q]]
    /\ pc' = "kfree"
    /\ current' = p - HDR
    /\ UNCHANGED req

\* kfree(p) up to its loop, for a pointer that a caller holds; kfree(NULL)
\* returns at once.
kfree(p) ==
    /\ pc = "idle"
    /\ IF p = NULL
       THEN UNCHANGED vars
       ELSE /\ blk' = [blk EXCEPT ![p - HDR].is_free = TRUE]
            /\ live' = [q \in DOMAIN live \ {p} |-> live[q]]
            /\ pc' = "kfree"
            /\ current' = 0
            /\ UNCHANGED req

\* The condition under which kfree joins the block at a with its successor.
Joins(a) ==
    /\ blk[a].is_free
    /\ blk[blk[a].next].is_free
    /\ EndOf(a) = blk[a].next

\* The loop body where the two blocks join.  The loop goes on behind the
\* joined block, without another look at it.
kfree_merge ==
    /\ pc = "kfree"
    /\ current # NULL /\ blk[current].next # NULL
    /\ Joins(current)
    /\ LET n == blk[current].next
       IN  /\ blk' = [b \in Headers \ {n} |->
                        IF b = current
                        THEN [is_free |-> TRUE,
                              size    |-> blk[b].size + HDR + blk[n].size,
                              next    |-> blk[n].next]
                        ELSE blk[b]]
           /\ current' = blk[n].next
    /\ UNCHANGED <<live, pc, req>>

\* Mutant: the cursor does not move on.
kfree_stays ==
    /\ pc = "kfree"
    /\ current # NULL /\ blk[current].next # NULL
    /\ ~Joins(current)
    /\ UNCHANGED vars

kfree_next ==
    /\ pc = "kfree"
    /\ current # NULL /\ blk[current].next # NULL
    /\ ~Joins(current)
    /\ current' = blk[current].next
    /\ UNCHANGED <<blk, live, pc, req>>

kfree_done ==
    /\ pc = "kfree"
    /\ current # NULL => blk[current].next = NULL
    /\ pc' = "idle"
    /\ current' = NULL
    /\ UNCHANGED <<blk, live, req>>

-----------------------------------------------------------------------------

Call ==
    \/ \E n \in Requests : kmalloc(n)
    \/ \E p \in DOMAIN live \cup {NULL} : kfree(p)

Loop ==
    \/ kmalloc_take \/ kmalloc_next \/ kmalloc_fail
    \/ kfree_merge \/ kfree_next \/ kfree_done

Next == Call \/ Loop

\* A call that has begun keeps the CPU until it returns.
Spec == Init /\ [][Next]_vars /\ WF_vars(Loop)

\* The heap as its callers see it.
Abs == INSTANCE HeapAbs

\* kmalloc and kfree implement the abstract heap: the walks are invisible to
\* the callers, and each successful kmalloc hands out a range that was free.
AbsSpec == Abs!Spec

-----------------------------------------------------------------------------
(***************************************************************************)
(* Invariants.                                                             *)
(***************************************************************************)

\* Every field has the type of its C declaration.
TypeOK ==
    /\ Headers \subseteq Nat
    /\ blk \in [Headers -> [is_free : BOOLEAN, size : Nat, next : Nat \cup {NULL}]]
    /\ DOMAIN live \subseteq Nat
    /\ live \in [DOMAIN live -> Nat]
    /\ pc \in {"idle", "kmalloc", "kfree"}
    /\ req \in Nat
    /\ current \in Nat \cup {NULL}

\* The blocks tile heap[]: the list of kmalloc starts at its first byte, each
\* block ends where its successor begins and the last one ends with heap[].
\* No split and no merge of kmalloc and kfree loses or invents a byte.
Tiling ==
    /\ 0 \in Headers
    /\ \A a \in Headers :
         \/ blk[a].next \in Headers /\ EndOf(a) = blk[a].next
         \/ blk[a].next = NULL /\ EndOf(a) = HEAP_SIZE

\* Two blocks in the list never overlap, headers included, and none reaches
\* beyond heap[].
Disjoint ==
    /\ \A a, b \in Headers : a < b => EndOf(a) <= b
    /\ \A a \in Headers : EndOf(a) <= HEAP_SIZE

\* Every pointer a caller holds is the payload of a used block at least as
\* large as the request, and every used block is held by a caller: kmalloc
\* and kfree agree with their callers on what is allocated.
Ownership ==
    /\ \A p \in DOMAIN live :
         /\ p - HDR \in Headers
         /\ ~blk[p - HDR].is_free
         /\ blk[p - HDR].size >= live[p]
    /\ \A a \in Headers : ~blk[a].is_free => a + HDR \in DOMAIN live

\* What kmalloc promises its callers: the byte ranges they hold lie in heap[]
\* and are pairwise disjoint.
PayloadsDisjoint ==
    /\ \A p \in DOMAIN live : HDR <= p /\ p + live[p] <= HEAP_SIZE
    /\ \A p, q \in DOMAIN live : p < q => p + live[p] <= q

\* The cursor of a walk is always a header of the list or past its end: no
\* merge leaves it on a header that was just absorbed.
CursorInList ==
    /\ current \in Headers \cup {NULL}
    /\ pc = "idle" => current = NULL
    /\ pc = "kmalloc" => req \in Requests \ {0}

\* The walk of kmalloc has rejected every block behind the cursor.
WalkRejects ==
    pc = "kmalloc" =>
      \A a \in Headers : (current = NULL \/ a < current) => ~Suits(a)

\* The inductive invariant behind the theorems of HeapProofs.
HeapInv ==
    TypeOK /\ Tiling /\ Disjoint /\ Ownership /\ CursorInList /\ WalkRejects

\* The free blocks whose successor is free as well.
FreePairs == {a \in Headers : /\ blk[a].next # NULL
                              /\ blk[a].is_free
                              /\ blk[blk[a].next].is_free}

AtMostOne(S) == \A a, b \in S : a = b

\* kfree joins a run of free blocks only pairwise, in one pass, and does not
\* restore full coalescing.  Between calls there is nevertheless never more
\* than one pair of adjacent free blocks in the whole heap: the debt of one
\* kfree is paid by the next.
OneFreePair ==
    pc = "idle" => AtMostOne(FreePairs)

\* The pairs that the pass of kfree has left behind, and those before it.
Behind == {a \in FreePairs : current = NULL \/ a < current}
Ahead == FreePairs \ Behind

AtMostThree(S) == \E x, y, z \in Headers : S \subseteq {x, y, z}

\* Why one pass suffices.  The pass leaves a pair behind only where it meets
\* two pairs in a row; it starts with at most three pairs (the old one and
\* the two that the freed block can form), so this happens at most once.
PassInv ==
    IF pc = "kfree"
    THEN \/ Behind = {} /\ AtMostThree(Ahead)
         \/ AtMostOne(Behind) /\ AtMostOne(Ahead)
    ELSE AtMostOne(FreePairs)

-----------------------------------------------------------------------------
(***************************************************************************)
(* Action properties and liveness.                                         *)
(***************************************************************************)

\* While a caller holds a pointer, nothing kmalloc or kfree does to other
\* blocks moves or resizes its block.
LiveBlocksStable ==
    [][\A p \in DOMAIN live \cap DOMAIN live' :
          /\ live'[p] = live[p]
          /\ p - HDR \in DOMAIN blk'
          /\ blk'[p - HDR].size = blk[p - HDR].size]_vars

\* kmalloc is first-fit: it takes the suitable block with the lowest address
\* and returns NULL only when no block in the heap is suitable.
FirstFit ==
    [][/\ kmalloc_take => \A a \in Headers : Suits(a) => current <= a
       /\ kmalloc_fail => \A a \in Headers : ~Suits(a)]_vars

\* Every call returns: the list stays free of cycles while kmalloc and kfree
\* walk and change it.
CallsReturn == (pc # "idle") ~> (pc = "idle")

=============================================================================
