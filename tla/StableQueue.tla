---------------------------- MODULE StableQueue ----------------------------
(***************************************************************************)
(* What the run queue of CFS promises whoever uses it: tasks in the order  *)
(* of their keys, and tasks with equal keys in the order of their arrival. *)
(***************************************************************************)
EXTENDS Integers, Sequences

\* q holds its elements in the order of the keys k.
IsSorted(q, k) == \A i, j \in 1 .. Len(q) : i < j => k[q[i]] <= k[q[j]]

\* The number of elements of q that stay in front of a newcomer with key v.
Place(q, k, v) ==
    CHOOSE i \in 0 .. Len(q) : /\ \A j \in 1 .. i : k[q[j]] <= v
                               /\ \A j \in (i + 1) .. Len(q) : v < k[q[j]]

\* q with n inserted behind i elements, and q without its i-th element.
InsertBehind(q, i, n) ==
    [j \in 1 .. (Len(q) + 1) |-> IF j <= i THEN q[j] ELSE IF j = i + 1 THEN n ELSE q[j - 1]]
DropAt(q, i) ==
    [j \in 1 .. (Len(q) - 1) |-> IF j < i THEN q[j] ELSE q[j + 1]]

Enqueued(q, k, n) == InsertBehind(q, Place(q, k, k[n]), n)
Dequeued(q, n) == DropAt(q, CHOOSE i \in 1 .. Len(q) : q[i] = n)

Members(q) == {q[i] : i \in 1 .. Len(q)}

=============================================================================
