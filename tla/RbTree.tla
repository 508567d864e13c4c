------------------------------- MODULE RbTree -------------------------------
(***************************************************************************)
(* The red-black tree of rbtree.c, shared by the CFS run queue and epoll.  *)
(*                                                                         *)
(* A tree is a record of its root pointer and, for every node, its parent, *)
(* its two children and its colour.  Operations take a tree and return the *)
(* tree they leave.  The code spells out a left and a right version of     *)
(* every case; here a side is a parameter and Opp is the mirror image.     *)
(* A dereference of NULL applies a function outside its domain, which TLC  *)
(* reports as an error.                                                    *)
(***************************************************************************)
EXTENDS Integers, Sequences

CONSTANTS Nodes,   \* the struct rb_node objects
          NULL

ASSUME NullAssumption == NULL \notin Nodes

Opp(s) == IF s = "left" THEN "right" ELSE "left"

Trees == [root   : Nodes \cup {NULL},
          parent : [Nodes -> Nodes \cup {NULL}],
          child  : [Nodes -> [{"left", "right"} -> Nodes \cup {NULL}]],
          color  : [Nodes -> {"red", "black"}]]

\* RB_ROOT over nodes that RB_CLEAR_NODE has marked as outside any tree.
RB_ROOT == [root   |-> NULL,
            parent |-> [n \in Nodes |-> n],
            child  |-> [n \in Nodes |-> [s \in {"left", "right"} |-> NULL]],
            color  |-> [n \in Nodes |-> "red"]]

rb_is_red(t, n) == n # NULL /\ t.color[n] = "red"

Paint(t, n, c) == [t EXCEPT !.color[n] = c]

\* The side of p on which n hangs, as the code tests it.
SideOf(t, p, n) == IF t.child[p]["left"] = n THEN "left" ELSE "right"

\* The link that leads to n, in its parent p or in the root, now leads to m.
Relink(t, p, n, m) ==
    IF p = NULL THEN [t EXCEPT !.root = m]
                ELSE [t EXCEPT !.child[p][SideOf(t, p, n)] = m]

\* Mutant: the parent pointer is not updated.
ParentKept(t, m, p) == t

\* if (m) rb_set_parent(m, p)
SetParent(t, m, p) == IF m = NULL THEN t ELSE [t EXCEPT !.parent[m] = p]

\* rb_rotate_left (s = "left") and rb_rotate_right: n sinks to side s.
rb_rotate(t, n, s) ==
    LET o  == Opp(s)
        up == t.child[n][o]
        p  == t.parent[n]
        t1 == SetParent([t EXCEPT !.child[n][o] = t.child[up][s]], t.child[up][s], n)
        t2 == [t1 EXCEPT !.child[up][s] = n, !.parent[up] = p]
    IN  [Relink(t2, p, n, up) EXCEPT !.parent[n] = up]

-----------------------------------------------------------------------------

\* rb_insert_color: the loop climbs from n while its parent is red.
RECURSIVE rb_insert_color(_, _)
rb_insert_color(t, n) ==
    LET p == t.parent[n]
    IN  IF ~rb_is_red(t, p)
        THEN Paint(t, t.root, "black")
        ELSE LET g     == t.parent[p]
                 s     == SideOf(t, g, p)
                 uncle == t.child[g][Opp(s)]
                 inner == t.child[p][Opp(s)] = n
                 t1    == IF inner THEN rb_rotate(t, p, s) ELSE t
                 p1    == IF inner THEN n ELSE p
                 n1    == IF inner THEN p ELSE n
             IN  IF rb_is_red(t, uncle)
                 THEN rb_insert_color(
                        Paint(Paint(Paint(t, uncle, "black"), p, "black"), g, "red"), g)
                 ELSE rb_insert_color(
                        rb_rotate(Paint(Paint(t1, p1, "black"), g, "red"), g, Opp(s)), n1)

\* The leftmost node below n.
RECURSIVE Leftmost(_, _)
Leftmost(t, n) == IF t.child[n]["left"] = NULL THEN n ELSE Leftmost(t, t.child[n]["left"])

rb_first(t) == IF t.root = NULL THEN NULL ELSE Leftmost(t, t.root)

\* The first ancestor of n that n is not to the right of.
RECURSIVE Climb(_, _)
Climb(t, n) ==
    LET p == t.parent[n]
    IN  IF p # NULL /\ n = t.child[p]["right"] THEN Climb(t, p) ELSE p

\* Mutant: the right child, without the descent and the climb.
RightChild(t, n) == t.child[n]["right"]

rb_next(t, n) ==
    IF t.child[n]["right"] # NULL THEN Leftmost(t, t.child[n]["right"]) ELSE Climb(t, n)

-----------------------------------------------------------------------------

\* Mutant: no fix-up after the removal of a black node.
NoFixUp(t, n, p) == t

\* rb_erase_color: n, possibly NULL, is a child of p that lacks one black.
RECURSIVE rb_erase_color(_, _, _)
rb_erase_color(t, n, p) ==
    IF rb_is_red(t, n) \/ n = t.root
    THEN IF n = NULL THEN t ELSE Paint(t, n, "black")
    ELSE LET s    == SideOf(t, p, n)
             o    == Opp(s)
             sib0 == t.child[p][o]
             t1   == IF rb_is_red(t, sib0)
                     THEN rb_rotate(Paint(Paint(t, sib0, "black"), p, "red"), p, s)
                     ELSE t
             sib1 == t1.child[p][o]
             near == t1.child[sib1][s]
             far  == t1.child[sib1][o]
             t2   == IF rb_is_red(t1, far)
                     THEN t1
                     ELSE rb_rotate(Paint(Paint(t1, near, "black"), sib1, "red"), sib1, o)
             sib2 == t2.child[p][o]
             t3   == Paint(Paint(Paint(t2, sib2, t2.color[p]), p, "black"),
                           t2.child[sib2][o], "black")
             t4   == rb_rotate(t3, p, s)
         IN  IF ~rb_is_red(t1, near) /\ ~rb_is_red(t1, far)
             THEN rb_erase_color(Paint(t1, sib1, "red"), p, t1.parent[p])
             ELSE Paint(t4, t4.root, "black")

\* rb_erase of a node with at most one child.
EraseLeaf(t, n) ==
    LET child == IF t.child[n]["left"] = NULL THEN t.child[n]["right"] ELSE t.child[n]["left"]
        p     == t.parent[n]
        t1    == Relink(SetParent(t, child, p), p, n, child)
    IN  IF t.color[n] = "black" THEN rb_erase_color(t1, child, p) ELSE t1

\* rb_erase of a node with two children: its successor n takes its place.
EraseInner(t, old) ==
    LET n     == Leftmost(t, t.child[old]["right"])
        child == t.child[n]["right"]
        p     == t.parent[n]
        t1    == Relink(SetParent(t, child, p), p, n, child)
        t2    == [t1 EXCEPT !.parent[n] = t1.parent[old],
                            !.color[n]  = t1.color[old],
                            !.child[n]  = t1.child[old]]
        t3    == Relink(t2, t2.parent[old], old, n)
        t4    == SetParent(SetParent(t3, t3.child[old]["left"], n),
                           t3.child[old]["right"], n)
    IN  IF t.color[n] = "black"
        THEN rb_erase_color(t4, child, IF p = old THEN n ELSE p)
        ELSE t4

rb_erase(t, n) ==
    IF t.child[n]["left"] # NULL /\ t.child[n]["right"] # NULL
    THEN EraseInner(t, n)
    ELSE EraseLeaf(t, n)

\* The node leaves the tree.  Its other fields are dead until an insertion
\* writes them; they are reset here so that they do not tell states apart.
RB_CLEAR_NODE(t, n) == [t EXCEPT !.parent[n] = n,
                                 !.child[n]  = RB_ROOT.child[n],
                                 !.color[n]  = RB_ROOT.color[n]]

-----------------------------------------------------------------------------
(***************************************************************************)
(* Reading a tree.                                                         *)
(***************************************************************************)

\* The nodes below n in order.
RECURSIVE InOrderFrom(_, _)
InOrderFrom(t, n) ==
    IF n = NULL THEN <<>>
    ELSE InOrderFrom(t, t.child[n]["left"]) \o <<n>> \o InOrderFrom(t, t.child[n]["right"])

InOrder(t) == InOrderFrom(t, t.root)
InTree(t) == LET s == InOrder(t) IN {s[i] : i \in 1 .. Len(s)}

\* The nodes that repeated rb_next visits from n on.
RECURSIVE Iterate(_, _)
Iterate(t, n) == IF n = NULL THEN <<>> ELSE <<n>> \o Iterate(t, rb_next(t, n))

\* The number of black nodes on every path from n down, or -1 if paths differ.
RECURSIVE BlackHeight(_, _)
BlackHeight(t, n) ==
    IF n = NULL THEN 0
    ELSE LET l == BlackHeight(t, t.child[n]["left"])
             r == BlackHeight(t, t.child[n]["right"])
         IN  IF l # r \/ l = -1 THEN -1
             ELSE IF t.color[n] = "black" THEN l + 1 ELSE l

\* No path is more than twice as long as another: the root is black, a red
\* node has no red child and all paths have the same number of black nodes.
Balanced(t) ==
    /\ ~rb_is_red(t, t.root)
    /\ \A n \in Nodes : (t.parent[n] # n /\ t.color[n] = "red") =>
         \A s \in {"left", "right"} : ~rb_is_red(t, t.child[n][s])
    /\ BlackHeight(t, t.root) # -1

\* Parent and child links agree.
Linked(t) ==
    /\ t.root # NULL => t.parent[t.root] = NULL
    /\ \A n \in Nodes, s \in {"left", "right"} :
         (t.parent[n] # n /\ t.child[n][s] # NULL) => t.parent[t.child[n][s]] = n

=============================================================================
