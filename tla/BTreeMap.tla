------------------------------- MODULE BTreeMap -------------------------------
(***************************************************************************)
(* One B-tree and the calls that its users make: btree_insert, btree_      *)
(* delete and btree_destroy; btree_search, btree_traverse and btree_print  *)
(* only read.  room is the number of nodes that the heap still has for the *)
(* call, so that kmalloc may fail at any of its calls.                     *)
(***************************************************************************)
EXTENDS BTreeWalk

CONSTANTS
    Keys,      \* the keys that callers use
    Vals,      \* key |-> the addresses they store under it
    MaxRoom    \* bound: nodes that one insertion may get

VARIABLES
    mem,       \* node address |-> its words
    tree,      \* struct btree
    ret,       \* what the last call returned
    state,     \* "running", or how the last call left it: see Outcome
    dict       \* what the callers were told: key |-> value, or NULL

vars == <<mem, tree, ret, state, dict>>

Init ==
    /\ mem = NoNodes
    /\ tree = EmptyTree
    /\ ret = 0
    /\ state = "running"
    /\ dict = [k \in Keys |-> NULL]

\* The state after a call with outcome o, which if it returned 0 has told the
\* callers that d is the map now.
Becomes(o, d) ==
    /\ mem' = o.mem
    /\ tree' = o.tree
    /\ ret' = o.ret
    /\ state' = o.state
    /\ dict' = IF o.ret = 0 THEN d ELSE dict

Insert(k, v, room) ==
    /\ state = "running"
    /\ Becomes(btree_insert(mem, tree, k, v, room), [dict EXCEPT ![k] = v])

Delete(k) ==
    /\ state = "running"
    /\ Becomes(btree_delete(mem, tree, k), [dict EXCEPT ![k] = NULL])

Destroy ==
    /\ state = "running"
    /\ Becomes(btree_destroy(mem, tree), [k \in Keys |-> NULL])

\* A node whose split failed holds more keys than it has places, or the code
\* has followed NULL: nothing is said about what follows.
Over == state # "running" /\ UNCHANGED vars

Next ==
    \/ \E k \in Keys, room \in 0 .. MaxRoom :
            \E v \in Vals[k] : Insert(k, v, room)
    \/ \E k \in Keys : Delete(k)
    \/ Destroy
    \/ Over

Spec == Init /\ [][Next]_vars

-----------------------------------------------------------------------------
Present == {k \in Keys : dict[k] # NULL}

\* As long as every split got its node, the calls implement a map: an insertion
\* returns 0 only for a key that is absent, a deletion only for one that is
\* present, and nothing but a failed split or a walk without end, which the
\* next two properties confine, voids the promise.
Map == INSTANCE BTreeAbs WITH sound <- state = "running"
AbsSpec == Map!Spec

\* btree_search finds exactly what was inserted and not deleted, whatever the
\* splits copied from past the end of the arrays.  The way down for any key
\* meets at most height nodes.  With a node for every level and one for a new
\* root, an insertion finds no full leaf and no missing child.  num_nodes,
\* which btree_print reports, counts the entries.
MapKept ==
    state = "running" =>
        /\ tree.num_nodes = Cardinality(Present)
        /\ \A k \in Keys :
            /\ btree_search(mem, tree.root, k) = dict[k]
            /\ Descend(mem, tree.root, k).depth <= tree.height
            /\ \A v \in Vals[k] :
                btree_insert(mem, tree, k, v, tree.height + 1).state = "running"

\* btree_traverse and btree_destroy, as long as no inner node was split: the
\* walk ends, reports the entries in the order of their keys (the caller's
\* callback skips the entries with NULL, which are the ones a split invents),
\* and comes to every node that was allocated for the tree exactly once.
WalkComplete ==
    (state = "running" /\ tree.height <= 2) =>
        LET n == Cardinality(DOMAIN mem)
            seen == SelectSeq(btree_traverse(mem, tree), LAMBDA e : e[2] # NULL)
            freed == Calls(mem)[n, tree.root]
        IN  /\ Ends(mem)[n, tree.root]
            /\ Len(freed) = n
            /\ Range(freed) = DOMAIN mem
            /\ Range(seen) = {<<k, dict[k]>> : k \in Present}
            /\ \A i, j \in 1 .. Len(seen) : i < j => seen[i][1] < seen[j][1]

=============================================================================
