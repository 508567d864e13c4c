------------------------------- MODULE Console -------------------------------
(***************************************************************************)
(* The keyboard: the UART receiver, the ring buffer that the interrupt     *)
(* handler fills, and the code that the interrupt interrupts, which is     *)
(* either a caller of input_buffer_get or the shell in getchar_blocking.   *)
(* The interrupt comes by way of module Trap, between any two steps.       *)
(*                                                                         *)
(* Keys are numbered in the order in which they are typed.  input_buf is   *)
(* not volatile: when input_buffer_get stores count - 1 it may use the     *)
(* count that it has tested, or load it again.                             *)
(***************************************************************************)
EXTENDS Trap, FiniteSets, Functions

CONSTANTS
    INPUT_BUFFER_SIZE,
    SHELL_BUFFER_SIZE,
    Key               \* <<what the first key is, what the second is, ...>>:
                      \* "char", "delete", "enter" or "other"

ASSUME ConsoleAssumption ==
    /\ {INPUT_BUFFER_SIZE, SHELL_BUFFER_SIZE} \subseteq Nat \ {0}
    /\ \A k \in DOMAIN Key : Key[k] \in {"char", "delete", "enter", "other"}

Cells == 0 .. (INPUT_BUFFER_SIZE - 1)
NoKey == 0

VARIABLES
    typed,      \* how many keys were typed
    uart,       \* the receiver: the key in RHR, and UART_LSR_RX_READY
    input_buf,  \* struct input_buffer
    upc,        \* the interrupted code: "idle" or the step it is at
    tmp,        \* its copy of input_buf.count
    shell,      \* the keys in shell.input_buffer[0 .. buffer_pos - 1]
    put, got,   \* history: keys that went into input_buf, and out of it
    heard,      \* history: keys that getchar_blocking returned
    gone,       \* history: keys that found the receiver or the buffer full
    raced       \* history: keys put during a get, and keys read too late

console == <<typed, uart, input_buf, upc, tmp, shell, put, got, heard, gone, raced>>
cvars == <<vars, console>>

\* input_buffer_init and shell_run at its prompt.
CInit ==
    /\ Init
    /\ typed = 0
    /\ uart = [rhr |-> NoKey, ready |-> FALSE]
    /\ input_buf = [buffer |-> [c \in Cells |-> NoKey], write_pos |-> 0, read_pos |-> 0, count |-> 0]
    /\ upc = "idle" /\ tmp = 0
    /\ shell = <<>>
    /\ put = <<>> /\ got = <<>> /\ heard = <<>> /\ gone = {}
    /\ raced = [count |-> 0, read |-> 0]

\* A key arrives at the receiver, which holds one.
Type ==
    /\ typed < Len(Key)
    /\ typed' = typed + 1
    /\ uart' = [rhr |-> typed + 1, ready |-> TRUE]
    /\ gone' = IF uart.ready THEN gone \cup {uart.rhr} ELSE gone
    /\ UNCHANGED <<vars, input_buf, upc, tmp, shell, put, got, heard, raced>>

-----------------------------------------------------------------------------
\* Mutant: a full buffer is not tested for.
put_unguarded(k) ==
    /\ input_buf' = [input_buf EXCEPT !.buffer[input_buf.write_pos] = k,
                                      !.write_pos = (@ + 1) % INPUT_BUFFER_SIZE,
                                      !.count = @ + 1]
    /\ put' = Append(put, k)
    /\ raced' = [raced EXCEPT !.count = IF upc \in {"take", "store"} THEN @ + 1 ELSE @]
    /\ UNCHANGED gone

\* input_buffer_put: with the buffer full the key is dropped.
input_buffer_put(k) ==
    IF input_buf.count < INPUT_BUFFER_SIZE
    THEN /\ input_buf' = [input_buf EXCEPT !.buffer[input_buf.write_pos] = k,
                                           !.write_pos = (@ + 1) % INPUT_BUFFER_SIZE,
                                           !.count = @ + 1]
         /\ put' = Append(put, k)
         /\ raced' = [raced EXCEPT !.count = IF upc \in {"take", "store"} THEN @ + 1 ELSE @]
         /\ UNCHANGED gone
    ELSE /\ gone' = gone \cup {k}
         /\ UNCHANGED <<input_buf, put, raced>>

NoUart == UNCHANGED <<uart, input_buf, put, gone, raced>>

\* Mutant: the handler reads RHR without a test.
uart_untested == uart' = [uart EXCEPT !.ready = FALSE] /\ input_buffer_put(uart.rhr)

\* handle_uart_interrupt.
handle_uart_interrupt ==
    IF uart.ready
    THEN uart' = [uart EXCEPT !.ready = FALSE] /\ input_buffer_put(uart.rhr)
    ELSE NoUart

\* handle_trap with what it calls.
HandleTrap ==
    /\ handle_trap
    /\ IF scause = "external" THEN handle_uart_interrupt ELSE NoUart
    /\ UNCHANGED <<typed, upc, tmp, shell, got, heard>>

\* The rest of the trap path touches no data of the console.
TrapStep ==
    /\ \/ \E cause \in Causes, p \in 0 .. PC_MAX : TakeTrap(cause, p)
       \/ kernel_entry \/ Store \/ Load \/ sret \/ Halted
    /\ UNCHANGED console

-----------------------------------------------------------------------------
\* The interrupted code is at this step and has the CPU.
At(step) == pc = "user" /\ upc = step

\* input_buffer_get tests count and returns 0 if there is nothing.
GetTest ==
    /\ At("idle")
    /\ input_buf.count > 0
    /\ tmp' = input_buf.count
    /\ upc' = "take"
    /\ UNCHANGED <<vars, typed, uart, input_buf, shell, put, got, heard, gone, raced>>

\* It takes the key and moves read_pos on.
GetTake ==
    /\ At("take")
    /\ got' = Append(got, input_buf.buffer[input_buf.read_pos])
    /\ input_buf' = [input_buf EXCEPT !.read_pos = (@ + 1) % INPUT_BUFFER_SIZE]
    /\ tmp' \in {tmp, input_buf.count}
    /\ upc' = "store"
    /\ UNCHANGED <<vars, typed, uart, shell, put, heard, gone, raced>>

\* count--
GetStore ==
    /\ At("store")
    /\ input_buf' = [input_buf EXCEPT !.count = tmp - 1]
    /\ tmp' = 0
    /\ upc' = "idle"
    /\ UNCHANGED <<vars, typed, uart, shell, put, got, heard, gone, raced>>

\* What shell_run does with a key.  After a line it starts at position 0.
Edited(line, k) ==
    CASE Key[k] = "enter" -> <<>>
      [] Key[k] = "delete" /\ line # <<>> -> SubSeq(line, 1, Len(line) - 1)
      [] Key[k] = "char" /\ Len(line) < SHELL_BUFFER_SIZE - 1 -> Append(line, k)
      [] OTHER -> line

\* getchar_blocking returns k to shell_run.
Hear(k) ==
    /\ heard' = Append(heard, k)
    /\ shell' = Edited(shell, k)
    /\ uart' = [uart EXCEPT !.ready = FALSE]
    /\ upc' = "idle"

\* sbi_console_getchar: the firmware may have taken the key from the receiver.
sbi_console_getchar ==
    /\ At("idle") \/ At("poll")
    /\ \/ uart.ready /\ Hear(uart.rhr)
       \/ upc' = "test" /\ UNCHANGED <<uart, shell, heard>>
    /\ UNCHANGED <<vars, typed, input_buf, tmp, put, got, gone, raced>>

\* uart_rx_ready in getchar_blocking; if not, the loop starts over.
uart_rx_ready ==
    /\ At("test")
    /\ upc' = IF uart.ready THEN "read" ELSE "poll"
    /\ UNCHANGED <<vars, typed, uart, input_buf, tmp, shell, put, got, heard, gone, raced>>

\* uart_read_reg(UART_RHR) in getchar_blocking.  RHR keeps the last key: if the
\* handler has come first, it is read a second time.
uart_read_reg ==
    /\ At("read")
    /\ Hear(uart.rhr)
    /\ raced' = [raced EXCEPT !.read = IF uart.ready THEN @ ELSE @ + 1]
    /\ UNCHANGED <<vars, typed, input_buf, tmp, put, got, gone>>

Interrupted == GetTest \/ GetTake \/ GetStore \/ sbi_console_getchar \/ uart_rx_ready \/ uart_read_reg

CNext == Type \/ HandleTrap \/ TrapStep \/ Interrupted

\* The processor keeps executing the trap path.
CSpec == CInit /\ [][CNext]_cvars
               /\ WF_cvars(HandleTrap \/ ((kernel_entry \/ Store \/ Load \/ sret) /\ UNCHANGED console))

-----------------------------------------------------------------------------
\* What input_buf holds, with an interrupt between any two steps of a get.  The
\* positions follow the keys put and taken.  Unless a key was put during a get,
\* count is the number of keys not yet taken, these are in their cells, and
\* the keys taken are the keys put, in order.  Each key put during a get hides
\* at most one key from count, and count never promises a key that is not there.
BufferKept ==
    LET SIZE == INPUT_BUFFER_SIZE
        R == Len(got)
        unread == Len(put) - R
        counted == input_buf.count - (IF upc = "store" THEN 1 ELSE 0)
    IN  /\ input_buf.count \in 0 .. SIZE
        /\ input_buf.write_pos = Len(put) % SIZE /\ input_buf.read_pos = R % SIZE
        /\ unread - counted \in 0 .. raced.count
        /\ raced.count = 0 =>
            /\ unread >= 0 /\ got = SubSeq(put, 1, R)
            /\ \A j \in 1 .. unread : input_buf.buffer[(R + j - 1) % SIZE] = put[R + j]

Increasing(s) == \A a, b \in DOMAIN s : a < b => s[a] < s[b]

\* The key in the receiver.
Pending == IF uart.ready THEN {uart.rhr} ELSE {}

\* Every key typed is heard by the shell, is in the receiver, went into the
\* buffer, or is gone because the receiver or the buffer was full.  The shell
\* and the buffer each get keys in the order of typing and none twice.  Only one
\* of this happens to a key, except when the handler comes between uart_rx_ready
\* and the read of RHR in getchar_blocking.  The line has room for its final 0.
KeysAccounted ==
    /\ 1 .. typed = Range(heard) \cup Range(put) \cup gone \cup Pending
    /\ Increasing(heard) /\ Increasing(put)
    /\ Len(heard) + Len(put) + Cardinality(gone) + Cardinality(Pending) <= typed + raced.read
    /\ Len(shell) < SHELL_BUFFER_SIZE

=============================================================================
