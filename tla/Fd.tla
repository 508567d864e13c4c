--------------------------------- MODULE Fd ---------------------------------
(***************************************************************************)
(* The file descriptor table of fd.c, with the UART behind the descriptors *)
(* that have uart_fd_ops.  ref_count is 1 for every open descriptor,       *)
(* because nothing takes a second reference, so fd_close always closes.    *)
(* The flags field, which fd_poll and fd_update_flags write, is read by    *)
(* nothing and left out.                                                   *)
(***************************************************************************)
EXTENDS Integers

CONSTANTS
    MAX_FDS,
    Kinds      \* the descriptors that callers allocate: type and operations

ASSUME FdAssumption == MAX_FDS \in Nat \ {0}

Fds == 0 .. (MAX_FDS - 1)

VARIABLES
    fds,       \* number |-> struct fd
    next_fd,
    rx_ready   \* does the UART hold a received character?

fdvars == <<fds, next_fd, rx_ready>>

Unused == [type |-> "UNUSED", ops |-> "NULL", ref_count |-> 0]

\* fd_init.
FdInit ==
    /\ fds = [f \in Fds |-> Unused]
    /\ next_fd = 0
    /\ rx_ready = FALSE

\* fd_get: the descriptor is open.
fd_get(f) == f \in Fds /\ fds[f].type # "UNUSED"

\* The first unused number from next_fd on, cyclically.
Steps(f) == (f - next_fd) % MAX_FDS
UnusedFds == {f \in Fds : fds[f].type = "UNUSED"}
FreeFd == CHOOSE f \in UnusedFds : \A g \in UnusedFds : Steps(f) <= Steps(g)

fd_alloc(kind) ==
    IF UnusedFds = {}
    THEN UNCHANGED fdvars
    ELSE /\ fds' = [fds EXCEPT ![FreeFd] = [type |-> kind[1], ops |-> kind[2],
                                            ref_count |-> 1]]
         /\ next_fd' = (FreeFd + 1) % MAX_FDS
         /\ UNCHANGED rx_ready

fd_close(f) ==
    IF ~fd_get(f)
    THEN UNCHANGED fdvars
    ELSE /\ fds' = [fds EXCEPT ![f] = IF @.ref_count - 1 <= 0
                                      THEN Unused
                                      ELSE [@ EXCEPT !.ref_count = @ - 1]]
         /\ UNCHANGED <<next_fd, rx_ready>>

\* What ops->poll of a descriptor answers when the UART is in state rx: always
\* writable, and readable if there is a character.
uart_fd_poll(rx) == {"WRITABLE"} \cup (IF rx THEN {"READABLE"} ELSE {})

\* Mutant: fd_poll does not look whether the descriptor is open.
PolledBlindly(f, rx) == uart_fd_poll(rx)

\* fd_poll; a descriptor that is closed or has no poll operation has no flags.
Polled(f, rx) == IF fd_get(f) /\ fds[f].ops # "NULL" THEN uart_fd_poll(rx) ELSE {}

\* uart_fd_read empties the UART as far as its buffer goes.
uart_fd_read == rx_ready' \in BOOLEAN /\ (rx_ready' => rx_ready) /\ UNCHANGED <<fds, next_fd>>

\* A key is pressed.
Receive == rx_ready' = TRUE /\ UNCHANGED <<fds, next_fd>>

=============================================================================
