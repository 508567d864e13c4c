-------------------------------- MODULE Trap --------------------------------
(***************************************************************************)
(* The trap path of the kernel: kernel_entry of asm_functions.s and        *)
(* handle_trap of kernel.c.                                                *)
(*                                                                         *)
(* kernel_entry stores the registers in a struct trap_frame below the      *)
(* stack pointer of the interrupted code, calls handle_trap, loads them    *)
(* again and returns with sret.  Store and Load are one instruction each.  *)
(* The processor masks interrupts from the trap until sret, so no second   *)
(* trap begins in between.  Module Console adds what handle_uart_interrupt *)
(* does, and the code that is interrupted.  Nothing in the kernel writes   *)
(* stvec yet: the module is about whoever installs kernel_entry there.     *)
(***************************************************************************)
EXTENDS Integers, Sequences

CONSTANTS
    FrameRegs,     \* the registers of struct trap_frame in its order; sp is last
    CallerSaved,   \* the registers that handle_trap may change by convention
    PC_MAX         \* bound on the program counter of the interrupted code

ASSUME TrapAssumption ==
    /\ PC_MAX \in Nat
    /\ FrameRegs \in Seq(STRING) /\ FrameRegs # <<>>
    /\ \A k \in 1 .. Len(FrameRegs) : FrameRegs[k] = "sp" <=> k = Len(FrameRegs)
    /\ "sp" \notin CallerSaved /\ "t0" \in CallerSaved

Regs == {FrameRegs[k] : k \in 1 .. Len(FrameRegs)}
FRAME == 4 * Len(FrameRegs)   \* bytes
Causes == {"external", "timer", "ecall", "fault"}

\* A value is a name and an offset.  User(r) is what the interrupted code has
\* in register r.
User(r) == <<r, 0>>
Clobbered == <<"clobbered", 0>>
Unknown == <<"unknown", 0>>
Plus(v, n) == <<v[1], v[2] + n>>

VARIABLES
    reg,        \* register |-> value
    sscratch,   \* the CSR
    tf,         \* register |-> its word in the frame
    sepc,       \* the CSR
    scause,     \* the CSR
    pc,         \* "user", a phase of kernel_entry, "handler" or "panic"
    i,          \* the next word of the frame
    trapped     \* history: the program counter when the trap was taken

vars == <<reg, sscratch, tf, sepc, scause, pc, i, trapped>>

Init ==
    /\ reg = [r \in Regs |-> User(r)]
    /\ sscratch = Unknown /\ sepc = 0 /\ scause = "none"
    /\ tf = [r \in Regs |-> Unknown]
    /\ pc = "user" /\ i = 1
    /\ trapped = 0

\* The processor takes a trap at program counter p.
TakeTrap(cause, p) ==
    /\ pc = "user"
    /\ scause' = cause
    /\ sepc' = p
    /\ trapped' = p
    /\ pc' = "entry"
    /\ UNCHANGED <<reg, sscratch, tf, i>>

\* csrw sscratch, sp; addi sp, sp, -4 * 31
kernel_entry ==
    /\ pc = "entry"
    /\ sscratch' = reg["sp"]
    /\ reg' = [reg EXCEPT !["sp"] = Plus(@, -FRAME)]
    /\ pc' = "store" /\ i' = 1
    /\ UNCHANGED <<tf, sepc, scause, trapped>>

\* Mutant: the original stack pointer is taken from sp itself.
StoreSp ==
    /\ pc = "store"
    /\ tf' = [tf EXCEPT ![FrameRegs[i]] = reg[FrameRegs[i]]]
    /\ IF i < Len(FrameRegs)
       THEN i' = i + 1 /\ UNCHANGED pc
       ELSE i' = 1 /\ pc' = "handler"
    /\ UNCHANGED <<reg, sscratch, sepc, scause, trapped>>

\* sw r, 4 * k(sp).  The last word is the original stack pointer, which goes
\* through t0.
Store ==
    /\ pc = "store"
    /\ IF i < Len(FrameRegs)
       THEN /\ tf' = [tf EXCEPT ![FrameRegs[i]] = reg[FrameRegs[i]]]
            /\ i' = i + 1
            /\ UNCHANGED <<reg, pc>>
       ELSE /\ reg' = [reg EXCEPT !["t0"] = sscratch]
            /\ tf' = [tf EXCEPT !["sp"] = sscratch]
            /\ i' = 1
            /\ pc' = "handler"
    /\ UNCHANGED <<sscratch, sepc, scause, trapped>>

\* The C code of handle_trap runs and returns with sepc = epc.
Handled(epc) ==
    /\ sepc' = epc
    /\ reg' = [r \in Regs |-> IF r \in CallerSaved THEN Clobbered ELSE reg[r]]
    /\ pc' = "load"
    /\ UNCHANGED <<sscratch, tf, scause, i, trapped>>

PANIC == pc' = "panic" /\ UNCHANGED <<reg, sscratch, tf, sepc, scause, i, trapped>>

\* Mutant: the UART interrupt is not handled.
uart_unhandled ==
    /\ pc = "handler"
    /\ IF scause = "ecall" THEN Handled(sepc + 4) ELSE PANIC

\* handle_trap: an external interrupt goes to the UART handler, a system call
\* continues behind the ecall, everything else ends in PANIC, which loops.
\* handle_syscall does nothing.
handle_trap ==
    /\ pc = "handler"
    /\ CASE scause = "external" -> Handled(sepc)
         [] scause = "ecall" -> Handled(sepc + 4)
         [] OTHER -> PANIC

\* The word at the offset of r from the stack pointer a.
WordAt(a, r) == IF a = Plus(User("sp"), -FRAME) THEN tf[r] ELSE Unknown

\* lw r, 4 * k(sp).
Load ==
    /\ pc = "load"
    /\ reg' = [reg EXCEPT ![FrameRegs[i]] = WordAt(reg["sp"], FrameRegs[i])]
    /\ IF i < Len(FrameRegs)
       THEN i' = i + 1 /\ UNCHANGED pc
       ELSE i' = 1 /\ pc' = "sret"
    /\ UNCHANGED <<sscratch, tf, sepc, scause, trapped>>

\* The interrupted code goes on at sepc.
sret ==
    /\ pc = "sret"
    /\ pc' = "user"
    /\ UNCHANGED <<reg, sscratch, tf, sepc, scause, i, trapped>>

\* while (1) {} of PANIC.
Halted == pc = "panic" /\ UNCHANGED vars

-----------------------------------------------------------------------------

Values == {User(r) : r \in Regs} \cup {Plus(User("sp"), -FRAME), Clobbered, Unknown}

\* Registers and frame hold values; before handle_trap runs the frame is
\* complete, and nothing changes it until the last load.
TypeOK ==
    /\ reg \in [Regs -> Values] /\ tf \in [Regs -> Values] /\ sscratch \in Values
    /\ sepc \in 0 .. (PC_MAX + 4) /\ trapped \in 0 .. PC_MAX
    /\ scause \in Causes \cup {"none"}
    /\ pc \in {"user", "entry", "store", "handler", "load", "sret", "panic"}
    /\ i \in 1 .. Len(FrameRegs)
    /\ pc \in {"handler", "load"} => \A r \in Regs : tf[r] = User(r)

\* A trap is invisible to the code it interrupts: at sret every register,
\* sp included, has its value of the trap, although handle_trap changes
\* the caller-saved ones and kernel_entry itself uses t0; and the code goes on
\* where it was, or behind the ecall after a system call.
TrapTransparent ==
    /\ TypeOK
    /\ pc \in {"sret", "user"} => \A r \in Regs : reg[r] = User(r)
    /\ pc = "sret" => sepc = trapped + (IF scause = "ecall" THEN 4 ELSE 0)

\* Every interrupt and every system call returns to the interrupted code.
TrapsReturn ==
    (pc = "entry" /\ scause \in {"external", "ecall"}) ~> pc = "user"

=============================================================================
