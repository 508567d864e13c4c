-------------------------------- MODULE BTree --------------------------------
(***************************************************************************)
(* The B-tree of btree.c, as operators on a memory of nodes.               *)
(*                                                                         *)
(* A node is the array of words that struct btree_node is in memory:       *)
(* num_keys, keys, values, children, parent, is_leaf.  btree_split_child   *)
(* reads one key, one value and one child past the end of their arrays.    *)
(* In the struct that the build lays out these are the first value, the    *)
(* first child and the parent, and so they are here, because an index is   *)
(* added to the offset of its array without a bound.  All words are        *)
(* numbers: a key, the address of a value and the address of a node can    *)
(* be compared, and the code does compare them.                            *)
(*                                                                         *)
(* A call of kmalloc succeeds as long as the call that is modelled has     *)
(* room left; nothing is freed in between, so that once it has failed it   *)
(* fails for the rest of the call.                                         *)
(***************************************************************************)
EXTENDS Integers, FiniteSets

CONSTANTS
    ORDER,     \* BTREE_ORDER, children of a node
    Nodes      \* the addresses that kmalloc may return for a node

NULL == 0

ASSUME BTreeAssumption ==
    /\ ORDER \in Nat /\ ORDER >= 3 /\ ORDER % 2 = 1
    /\ Nodes \subseteq Nat \ {NULL}

MIN_KEYS == (ORDER - 1) \div 2
MAX_KEYS == ORDER - 1

\* The offsets of the fields, in words.
num_keys == 0
keys(i) == 1 + i
values(i) == 1 + MAX_KEYS + i
children(i) == 1 + 2 * MAX_KEYS + i
parent == children(ORDER)
is_leaf == parent + 1
Words == 0 .. is_leaf

\* struct btree after btree_init, and a memory without nodes.
EmptyTree == [root |-> NULL, height |-> 0, num_nodes |-> 0]
NoNodes == [a \in {} |-> <<>>]

\* kmalloc: first fit among blocks of one size.
kmalloc(mem) ==
    CHOOSE a \in Nodes \ DOMAIN mem :
        \A b \in Nodes \ DOMAIN mem : a <= b

\* btree_node_create, in a call that has room for it.
btree_node_create(mem, a, leaf) ==
    [b \in DOMAIN mem \cup {a} |->
        IF b = a THEN [w \in Words |-> IF w = is_leaf THEN leaf ELSE 0]
        ELSE mem[b]]

\* The first index whose key is not below key: the loop of btree_search and
\* of find_key_index.
find_key_index(node, key) ==
    CHOOSE i \in 0 .. node[num_keys] :
        /\ i = node[num_keys] \/ key <= node[keys(i)]
        /\ \A j \in 0 .. (i - 1) : key > node[keys(j)]

Matches(node, key, i) == i < node[num_keys] /\ key = node[keys(i)]

(***************************************************************************)
(* The loop of btree_search and of btree_delete.  A way down that meets    *)
(* more nodes than there are has met one twice and never ends: then end    *)
(* is "never".                                                             *)
(***************************************************************************)
Descent(a, i, d, end) == [at |-> a, i |-> i, depth |-> d, end |-> end]

Descend(mem, root, key) ==
    LET D[a \in Nat, d \in Nat] ==
            LET node == mem[a]
                i == find_key_index(node, key)
            IN  IF a = NULL THEN Descent(a, 0, d, "absent")
                ELSE IF d = Cardinality(DOMAIN mem) THEN Descent(a, 0, d, "never")
                ELSE IF Matches(node, key, i) THEN Descent(a, i, d + 1, "found")
                ELSE IF node[is_leaf] = 1 THEN Descent(a, i, d + 1, "absent")
                ELSE D[node[children(i)], d + 1]
    IN  D[root, 0]

\* btree_search.
btree_search(mem, root, key) ==
    LET d == Descend(mem, root, key)
    IN  IF d.end = "found" THEN mem[d.at][values(d.i)] ELSE NULL

-----------------------------------------------------------------------------
(***************************************************************************)
(* Insertion.  A heap h is the memory, the number of kmallocs that still   *)
(* succeed, and whether a split got no node.                               *)
(***************************************************************************)
HasRoom(h) == h.room > 0 /\ Nodes \ DOMAIN h.mem # {}

\* for (i = num_keys - 1; i >= lo; i--) move the entry i up by one.
ShiftEntries(node, lo) ==
    LET n == node[num_keys]
        Shifted[j \in 0 .. (n - lo)] ==
            IF j = 0 THEN node
            ELSE LET i == n - j
                     w == Shifted[j - 1]
                 IN  [w EXCEPT ![keys(i + 1)] = w[keys(i)], ![values(i + 1)] = w[values(i)]]
    IN  Shifted[n - lo]

\* The node that takes the upper half of child.
UpperHalf(child) ==
    LET up == MIN_KEYS + 1
        inner == child[is_leaf] = 0
    IN  [w \in Words |->
            CASE w = num_keys -> MIN_KEYS
              [] w \in keys(0) .. keys(MIN_KEYS - 1) -> child[w + up]
              [] w \in values(0) .. values(MIN_KEYS - 1) -> child[w + up]
              [] w \in children(0) .. children(MIN_KEYS) /\ inner -> child[w + up]
              [] w = is_leaf -> child[is_leaf]
              [] OTHER -> 0]

\* parent with the middle entry of child at index and new to the right of it.
TakeMiddle(par, index, child, new) ==
    LET n == par[num_keys]
        shifted == [w \in Words |->
                       IF w \in children(index + 2) .. children(n + 1) THEN par[w - 1]
                       ELSE IF w = children(index + 1) THEN new ELSE par[w]]
    IN  [ShiftEntries(shifted, index) EXCEPT
            ![keys(index)] = child[keys(MIN_KEYS)],
            ![values(index)] = child[values(MIN_KEYS)],
            ![num_keys] = n + 1]

\* btree_split_child.
btree_split_child(h, p, index, c) ==
    IF ~HasRoom(h) THEN [h EXCEPT !.split_failed = TRUE]
    ELSE LET new == kmalloc(h.mem)
             child == h.mem[c]
             upper == UpperHalf(child)
             moved == IF child[is_leaf] = 1 THEN {}
                      ELSE {upper[children(i)] : i \in 0 .. MIN_KEYS} \ {NULL}
             mem1 == [btree_node_create(h.mem, new, child[is_leaf]) EXCEPT ![new] = upper]
             mem2 == [a \in DOMAIN mem1 |->
                         IF a \in moved THEN [mem1[a] EXCEPT ![parent] = new] ELSE mem1[a]]
             mem3 == [mem2 EXCEPT ![c][num_keys] = MIN_KEYS, ![new][parent] = p]
         IN  [h EXCEPT !.room = @ - 1,
                       !.mem = [mem3 EXCEPT ![p] = TakeMiddle(@, index, child, new)]]

\* The place of key in btree_insert_non_full: after the last key that is not
\* above it.
PlaceOf(node, key) ==
    CHOOSE i \in 0 .. node[num_keys] :
        /\ i = 0 \/ key >= node[keys(i - 1)]
        /\ \A j \in i .. (node[num_keys] - 1) : key < node[keys(j)]

\* btree_insert_non_full for one node; "fault" if it follows NULL.
InsertStep(key, value, s) ==
    IF s.end # "no" THEN s
    ELSE IF s.at = NULL THEN [s EXCEPT !.end = "fault"]
    ELSE LET node == s.h.mem[s.at]
             i == PlaceOf(node, key)
             c == node[children(i)]
         IN  IF node[is_leaf] = 1
             THEN [s EXCEPT !.end = "done",
                            !.h.mem[s.at] = [ShiftEntries(node, i) EXCEPT
                                                ![keys(i)] = key,
                                                ![values(i)] = value,
                                                ![num_keys] = @ + 1]]
             ELSE IF c = NULL THEN [s EXCEPT !.end = "fault"]
             ELSE IF s.h.mem[c][num_keys] # MAX_KEYS THEN [s EXCEPT !.at = c]
             ELSE LET h1 == btree_split_child(s.h, s.at, i, c)
                      node1 == h1.mem[s.at]
                      j == IF key > node1[keys(i)] THEN i + 1 ELSE i
                  IN  [s EXCEPT !.h = h1, !.at = node1[children(j)]]

\* Take step until it is done, n times at most.
Repeat(step(_), start, n) ==
    LET Taken[i \in 0 .. n] == IF i = 0 THEN start ELSE step(Taken[i - 1])
    IN  Taken[n]

\* btree_insert_non_full; end is "no" if it goes round a cycle for ever.
btree_insert_non_full(h, at, key, value) ==
    LET step(s) == InsertStep(key, value, s)
    IN  Repeat(step, [h |-> h, at |-> at, end |-> "no"], Cardinality(DOMAIN h.mem) + 2)

\* btree_insert's split of a full root; the new root was created as r.
SplitRoot(h, t, r) ==
    LET mem1 == [btree_node_create(h.mem, r, 0) EXCEPT ![r][children(0)] = t.root,
                                                       ![t.root][parent] = r]
    IN  btree_split_child([h EXCEPT !.mem = mem1, !.room = @ - 1], r, 0, t.root)

\* A word of an entry at or above num_keys, or of a child above it, is written
\* before it is read again; what a call leaves there is forgotten.
Forget(node) ==
    LET n == node[num_keys]
        dead == keys(n) .. keys(MAX_KEYS - 1)
                    \cup values(n) .. values(MAX_KEYS - 1)
                    \cup children(n + 1) .. children(ORDER - 1)
    IN  [w \in Words |-> IF w \in dead THEN 0 ELSE node[w]]

\* What a call leaves behind: its result, the memory, the tree, and "running",
\* "unsound" when it went on after a failed split, or how it never returned.
Outcome(ret, mem, t, state) ==
    [ret |-> ret, mem |-> [a \in DOMAIN mem |-> Forget(mem[a])], tree |-> t, state |-> state]

\* Mutant: btree_insert does not look for the key first.
NotLooked(mem, t, key) == FALSE

\* btree_insert's test for a key that is there.
Exists(mem, t, key) == btree_search(mem, t.root, key) # NULL

\* btree_insert, in a call in which room kmallocs succeed.
btree_insert(mem, t, key, value, room) ==
    LET h == [mem |-> mem, room |-> room, split_failed |-> FALSE]
        new == kmalloc(mem)
        full == mem[t.root][num_keys] = MAX_KEYS
        h1 == IF full THEN SplitRoot(h, t, new) ELSE h
        t1 == IF full THEN [t EXCEPT !.root = new, !.height = @ + 1] ELSE t
        s == btree_insert_non_full(h1, t1.root, key, value)
    IN  IF Exists(mem, t, key) THEN Outcome(-1, mem, t, "running")
        ELSE IF t.root = NULL /\ HasRoom(h)
        THEN Outcome(0, [btree_node_create(mem, new, 1) EXCEPT
                            ![new][keys(0)] = key, ![new][values(0)] = value,
                            ![new][num_keys] = 1],
                     [root |-> new, height |-> 1, num_nodes |-> 1], "running")
        ELSE IF t.root = NULL \/ (full /\ ~HasRoom(h)) THEN Outcome(-1, mem, t, "running")
        ELSE IF s.end # "done" THEN Outcome(0, s.h.mem, t1, s.end)
        ELSE Outcome(0, s.h.mem, [t1 EXCEPT !.num_nodes = @ + 1],
                     IF s.h.split_failed THEN "unsound" ELSE "running")

-----------------------------------------------------------------------------
\* Mutant: the values are not moved along with the keys.
delete_keys_only(node, i) ==
    LET n == node[num_keys]
    IN  [w \in Words |->
            IF w = num_keys THEN n - 1
            ELSE IF w \in (keys(0) + i) .. (keys(0) + n - 2) THEN node[w + 1]
            ELSE node[w]]

\* delete_leaf_node for the entry i.
delete_leaf_node(node, i) ==
    LET n == node[num_keys]
        below(first) == (first + i) .. (first + n - 2)
    IN  [w \in Words |->
            IF w = num_keys THEN n - 1
            ELSE IF w \in below(keys(0)) \cup below(values(0)) THEN node[w + 1]
            ELSE node[w]]

\* btree_delete: a key of an inner node is refused.
btree_delete(mem, t, key) ==
    LET d == Descend(mem, t.root, key)
    IN  IF d.end = "found" /\ mem[d.at][is_leaf] = 1
        THEN Outcome(0, [mem EXCEPT ![d.at] = delete_leaf_node(@, d.i)],
                     [t EXCEPT !.num_nodes = @ - 1], "running")
        ELSE Outcome(-1, mem, t, "running")

=============================================================================
