---------------------------- MODULE TimelineAbs ----------------------------
(***************************************************************************)
(* The run queue of CFS as a stable sorted queue.                          *)
(***************************************************************************)
EXTENDS StableQueue

CONSTANTS Nodes,     \* tasks
          vruntime   \* the key with which each task is enqueued

VARIABLE queue

Init == queue = <<>>

Enqueue(n) == n \notin Members(queue) /\ queue' = Enqueued(queue, vruntime, n)
Dequeue(n) == n \in Members(queue) /\ queue' = Dequeued(queue, n)

Next == \E n \in Nodes : Enqueue(n) \/ Dequeue(n)

Spec == Init /\ [][Next]_queue

=============================================================================
