------------------------------ MODULE BTreeWalk ------------------------------
(***************************************************************************)
(* The recursive functions of btree.c, which walk over a whole B-tree.     *)
(* Walk[d, a] is what traverse_recursive reports below the node a, cut off *)
(* d levels down; Calls[d, a] are the nodes in the order in which          *)
(* destroy_recursive frees them.                                           *)
(***************************************************************************)
EXTENDS BTree, SequencesExt

\* The children of a node, in order.
Below(node) == [i \in 1 .. (node[num_keys] + 1) |-> node[children(i - 1)]]

Walk(mem) ==
    LET W[d \in Nat, a \in Nat] ==
            IF a = NULL \/ d = 0 THEN <<>>
            ELSE LET n == mem[a][num_keys]
                     entry(i) == <<mem[a][keys(i - 1)], mem[a][values(i - 1)]>>
                     below == Below(mem[a])
                 IN  IF mem[a][is_leaf] = 1 THEN [i \in 1 .. n |-> entry(i)]
                     ELSE FlattenSeq([i \in 1 .. Len(below) |->
                             W[d - 1, below[i]]
                                 \o (IF i <= n THEN <<entry(i)>> ELSE <<>>)])
    IN  W

\* Mutant: the child after the last key is left out.
CallsButLast(mem) ==
    LET F[d \in Nat, a \in Nat] ==
            IF a = NULL \/ d = 0 THEN <<>>
            ELSE IF mem[a][is_leaf] = 1 THEN <<a>>
            ELSE LET below == Below(mem[a])
                 IN  Append(FlattenSeq([i \in 1 .. (Len(below) - 1) |-> F[d - 1, below[i]]]), a)
    IN  F

Calls(mem) ==
    LET F[d \in Nat, a \in Nat] ==
            IF a = NULL \/ d = 0 THEN <<>>
            ELSE IF mem[a][is_leaf] = 1 THEN <<a>>
            ELSE LET below == Below(mem[a])
                 IN  Append(FlattenSeq([i \in 1 .. Len(below) |-> F[d - 1, below[i]]]), a)
    IN  F

\* The walk below a ends: no path of children is longer than d.
Ends(mem) ==
    LET E[d \in Nat, a \in Nat] ==
            \/ a = NULL
            \/ d > 0 /\ (mem[a][is_leaf] = 1
                            \/ \A c \in Range(Below(mem[a])) : E[d - 1, c])
    IN  E

\* btree_traverse: what the callback is given, in order.
btree_traverse(mem, t) == Walk(mem)[Cardinality(DOMAIN mem), t.root]

\* btree_destroy: a walk that does not end overruns the stack.
btree_destroy(mem, t) ==
    LET n == Cardinality(DOMAIN mem)
        freed == Range(Calls(mem)[n, t.root])
    IN  IF Ends(mem)[n, t.root]
        THEN Outcome(0, [a \in DOMAIN mem \ freed |-> mem[a]], EmptyTree, "running")
        ELSE Outcome(0, mem, t, "overrun")

==============================================================================
