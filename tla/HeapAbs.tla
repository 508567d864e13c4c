------------------------------- MODULE HeapAbs -------------------------------
(***************************************************************************)
(* What kmalloc and kfree promise the rest of the kernel: a caller gets a  *)
(* byte range of heap[] that overlaps no range in use, or NULL, and keeps  *)
(* it until it gives it back.  Nothing is said about where the range lies. *)
(***************************************************************************)
EXTENDS Integers

CONSTANTS
    HEAP_SIZE,   \* bytes in heap[]
    Requests     \* the sizes that callers pass to kmalloc

VARIABLE live    \* payload address |-> bytes asked for

\* The ranges of n bytes from p and of m bytes from q have no byte in common.
Apart(p, n, q, m) == p + n <= q \/ q + m <= p

Init == live = [p \in {} |-> 0]

\* A successful kmalloc(n) that returns p.
Alloc(n, p) ==
    /\ n # 0
    /\ p + n <= HEAP_SIZE
    /\ \A q \in DOMAIN live : Apart(p, n, q, live[q])
    /\ live' = [q \in DOMAIN live \cup {p} |-> IF q = p THEN n ELSE live[q]]

\* kfree(p).
Free(p) ==
    /\ p \in DOMAIN live
    /\ live' = [q \in DOMAIN live \ {p} |-> live[q]]

Next ==
    \/ \E n \in Requests, p \in 0 .. HEAP_SIZE : Alloc(n, p)
    \/ \E p \in DOMAIN live : Free(p)

Spec == Init /\ [][Next]_live

=============================================================================
