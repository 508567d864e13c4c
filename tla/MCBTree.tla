------------------------------- MODULE MCBTree -------------------------------
(***************************************************************************)
(* A B-tree of the order that btree.h defines, with eight keys, for which  *)
(* a leaf that was split is split again.  The keys are below the addresses *)
(* of the values and of the nodes, as i-node numbers are.                  *)
(***************************************************************************)
EXTENDS BTreeMap

TestNodes == 101 .. 140
TestKeys == 1 .. 8
TestVals == [k \in TestKeys |-> IF k = 2 THEN {52, 62} ELSE {50 + k}]

(***************************************************************************)
(* The tree of i-node numbers grows in ascending order.  There the splits  *)
(* of inner nodes, which the run above is too small for, keep every key    *)
(* within reach of btree_search.  But the child that such a split copies   *)
(* from past the end of the array is the parent: btree_traverse and        *)
(* btree_destroy, which follow every child, do not come to an end.         *)
(***************************************************************************)
Grown(start, ks) ==
    FoldLeft(LAMBDA t, k : LET o == btree_insert(t.mem, t.tree, k, 50 + k, 4)
                           IN  [mem |-> o.mem, tree |-> o.tree],
             start, ks)

Upto8 == Grown([mem |-> NoNodes, tree |-> EmptyTree], [i \in 1 .. 8 |-> i])
Upto14 == Grown(Upto8, [i \in 1 .. 6 |-> 8 + i])
Upto20 == Grown(Upto14, [i \in 1 .. 6 |-> 14 + i])
Upto26 == Grown(Upto20, [i \in 1 .. 6 |-> 20 + i])

Found(t, n) == \A k \in 1 .. n : btree_search(t.mem, t.tree.root, k) = 50 + k
Ending(t) == Ends(t.mem)[Cardinality(DOMAIN t.mem), t.tree.root]

ASSUME AscendingFound ==
    /\ Found(Upto8, 8) /\ Found(Upto14, 14) /\ Found(Upto20, 20) /\ Found(Upto26, 26)
    /\ Upto8.tree.height = 2 /\ Ending(Upto8)
    /\ Upto14.tree.height = 3 /\ ~Ending(Upto14)
    /\ Upto26.tree.height = 4 /\ ~Ending(Upto26)

=============================================================================
