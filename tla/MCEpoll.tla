------------------------------ MODULE MCEpoll ------------------------------
(***************************************************************************)
(* Two instances share three descriptors and three items, which are        *)
(* interchangeable: items outlive their descriptors, kmalloc can run out   *)
(* of items, a tree is rotated, and epoll_wait has more events than it may *)
(* return.                                                                 *)
(***************************************************************************)
EXTENDS Epoll, TLC

\* The kernel allocates descriptors of this kind only.
MCKinds == {<<"UART", "uart_fd_ops">>}
MCEvents == {{"IN"}, {"IN", "OUT"}}
ItemSymmetry == Permutations(Nodes)

=============================================================================
