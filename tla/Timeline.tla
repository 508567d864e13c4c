------------------------------ MODULE Timeline ------------------------------
(***************************************************************************)
(* The run queue of cfs.c: the red-black tree tasks_timeline with the      *)
(* cached pointer rb_leftmost, as cfs_enqueue_task and cfs_dequeue_task    *)
(* maintain it.  A task never changes its vruntime while it is queued, so  *)
(* the keys are constants of this module; several tasks may share one.     *)
(***************************************************************************)
EXTENDS RbTree

CONSTANT vruntime   \* node |-> key

ASSUME KeyAssumption == vruntime \in [Nodes -> Nat]

VARIABLES tasks_timeline,   \* the tree
          rb_leftmost,      \* cached rb_first
          on_rq             \* node |-> is it queued

vars == <<tasks_timeline, rb_leftmost, on_rq>>

Init ==
    /\ tasks_timeline = RB_ROOT
    /\ rb_leftmost = NULL
    /\ on_rq = [n \in Nodes |-> FALSE]

\* Mutant: equal keys go left.
GoesLeftOnTie(n, p) == vruntime[n] <= vruntime[p]

\* The comparison of cfs_enqueue_task: equal keys go right.
GoesLeft(n, p) == vruntime[n] < vruntime[p]

\* The descent of cfs_enqueue_task: the node under which n becomes a leaf, the
\* side, and whether the descent never went right.
RECURSIVE Descend(_, _, _, _)
Descend(t, n, p, leftmost) ==
    LET s == IF GoesLeft(n, p) THEN "left" ELSE "right"
        l == leftmost /\ s = "left"
    IN  IF t.child[p][s] = NULL
        THEN [parent |-> p, side |-> s, leftmost |-> l]
        ELSE Descend(t, n, t.child[p][s], l)

\* The tree with n as a red leaf at the end of the descent.
Attach(t, n, at) ==
    LET leaf == [t EXCEPT !.parent[n] = at.parent,
                          !.child[n]  = [s \in {"left", "right"} |-> NULL],
                          !.color[n]  = "red"]
    IN  IF at.parent = NULL THEN [leaf EXCEPT !.root = n]
                            ELSE [leaf EXCEPT !.child[at.parent][at.side] = n]

cfs_enqueue_task(n) ==
    /\ ~on_rq[n]
    /\ LET t  == tasks_timeline
           at == IF t.root = NULL
                 THEN [parent |-> NULL, side |-> "left", leftmost |-> TRUE]
                 ELSE Descend(t, n, t.root, TRUE)
       IN  /\ rb_leftmost' = IF at.leftmost THEN n ELSE rb_leftmost
           /\ tasks_timeline' = rb_insert_color(Attach(t, n, at), n)
    /\ on_rq' = [on_rq EXCEPT ![n] = TRUE]

cfs_dequeue_task(n) ==
    /\ on_rq[n]
    /\ rb_leftmost' = IF rb_leftmost = n THEN rb_next(tasks_timeline, n) ELSE rb_leftmost
    /\ tasks_timeline' = RB_CLEAR_NODE(rb_erase(tasks_timeline, n), n)
    /\ on_rq' = [on_rq EXCEPT ![n] = FALSE]

Next == \E n \in Nodes : cfs_enqueue_task(n) \/ cfs_dequeue_task(n)

Spec == Init /\ [][Next]_vars

-----------------------------------------------------------------------------

\* Types, and the cached pointer is NULL exactly when nothing is queued.
TypeOK ==
    /\ tasks_timeline \in Trees
    /\ rb_leftmost \in Nodes \cup {NULL}
    /\ on_rq \in [Nodes -> BOOLEAN]
    /\ rb_leftmost = NULL <=> \A n \in Nodes : ~on_rq[n]

\* rb_insert_color and rb_erase keep the tree balanced, whatever the order of
\* insertions and removals.
StaysBalanced == Balanced(tasks_timeline)

\* Every rotation and every relinking keeps parent and child pointers in step,
\* and the tree holds exactly the tasks marked on_rq.
WellLinked ==
    /\ TypeOK
    /\ Linked(tasks_timeline)
    /\ {n \in Nodes : on_rq[n]} = InTree(tasks_timeline)

\* Iteration with rb_next visits every node once, in order, and may begin at
\* the cached pointer that cfs_pick_next_task trusts: it is the node that
\* rb_first would find.
NextVisitsAll ==
    /\ rb_leftmost = rb_first(tasks_timeline)
    /\ Iterate(tasks_timeline, rb_leftmost) = InOrder(tasks_timeline)

\* The tree implements the stable sorted queue that Cfs schedules from.
Abs == INSTANCE TimelineAbs WITH queue <- InOrder(tasks_timeline)
AbsSpec == Abs!Spec

=============================================================================
