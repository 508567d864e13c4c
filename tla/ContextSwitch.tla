--------------------------- MODULE ContextSwitch ---------------------------
(***************************************************************************)
(* The two register switches of the kernel, instruction by instruction:    *)
(* context_switch of kernel.c, which schedule calls, and switch_context of *)
(* asm_functions.s, which kernel.h declares and nothing calls yet.         *)
(*                                                                         *)
(* Both store registers in an area of prev and then load registers from    *)
(* the area of next.  They differ in the registers they move and in the    *)
(* register that holds the address they load from.  In context_switch this *)
(* is operand %1 of the assembler template: the compiler may pick any      *)
(* register, because the template declares no clobbers.  In switch_context *)
(* it is sp.                                                               *)
(***************************************************************************)
EXTENDS Integers, Sequences

CONSTANTS
    Procs,     \* processes
    Routines   \* the routines: the registers in the order of the sw instructions
               \* (saved) and of the lw instructions (loaded), and the registers
               \* from which the load address may be taken (bases)

Elems(s) == {s[k] : k \in 1 .. Len(s)}

\* A routine moves registers, loads none that it did not store and none twice.
ASSUME RoutinesAssumption ==
    \A c \in Routines :
      /\ c.saved \in Seq(STRING) /\ c.saved # <<>>
      /\ c.loaded \in Seq(STRING) /\ c.loaded # <<>>
      /\ Elems(c.loaded) \subseteq Elems(c.saved)
      /\ \A j, k \in 1 .. Len(c.loaded) : c.loaded[j] = c.loaded[k] => j = k
      /\ c.bases \subseteq Elems(c.saved) \cup {"sp"}

Regs == {"sp"} \cup (UNION {Elems(c.saved) : c \in Routines})

\* The values a register can hold: a thread's own value, the address of the
\* area of a process, zero, or whatever lies at an address that is no area.
Own(p, r) == <<"own", p, r>>
Addr(p) == <<"addr", p, "">>
Zero == <<"zero", "", "">>
Junk == <<"junk", "", "">>
Values == {Own(p, r) : p \in Procs, r \in Regs} \cup {Addr(p) : p \in Procs} \cup {Zero, Junk}

VARIABLES
    reg,        \* the registers
    area,       \* process |-> its trap_frame, or its save area on the stack
    code,       \* the routine that the kernel uses
    base,       \* the register that holds the address of next's area
    cur,        \* the process that is running or being left
    next,       \* the process being switched to
    pc,         \* "run", "save" or "load"
    i,          \* instruction within "save" or "load"
    at_call     \* history: the registers when the switch began

vars == <<reg, area, code, base, cur, next, pc, i, at_call>>

Saved == code.saved
Loaded == code.loaded

\* create_process: a frame of zeros with an entry point and a stack pointer.
Fresh(p) == [r \in Regs |-> IF r \in {"ra", "sp"} THEN Own(p, r) ELSE Zero]

Init ==
    /\ cur \in Procs /\ next = cur
    /\ code \in Routines /\ base \in code.bases
    /\ reg = [r \in Regs |-> Own(cur, r)]
    /\ area = [p \in Procs |-> Fresh(p)]
    /\ pc = "run" /\ i = 1
    /\ at_call = reg

\* The call with its operands in place; in switch_context the address is
\* moved to sp only after the stores.
Call(n) ==
    /\ pc = "run"
    /\ next' = n
    /\ reg' = IF base = "sp" THEN reg ELSE [reg EXCEPT ![base] = Addr(n)]
    /\ at_call' = reg'
    /\ pc' = "save" /\ i' = 1
    /\ UNCHANGED <<area, code, base, cur>>

\* Mutant: the store reads a register that was saved before.
StoreAgain ==
    /\ pc = "save"
    /\ area' = [area EXCEPT ![cur][Saved[i]] = reg[Saved[1]]]
    /\ IF i < Len(Saved)
       THEN i' = i + 1 /\ UNCHANGED <<pc, reg>>
       ELSE /\ pc' = "load" /\ i' = 1
            /\ reg' = IF base = "sp" THEN [reg EXCEPT !["sp"] = Addr(next)] ELSE reg
    /\ UNCHANGED <<code, base, cur, next, at_call>>

\* One sw instruction; after the last, switch_context moves new_sp to sp.
Store ==
    /\ pc = "save"
    /\ area' = [area EXCEPT ![cur][Saved[i]] = reg[Saved[i]]]
    /\ IF i < Len(Saved)
       THEN i' = i + 1 /\ UNCHANGED <<pc, reg>>
       ELSE /\ pc' = "load" /\ i' = 1
            /\ reg' = IF base = "sp" THEN [reg EXCEPT !["sp"] = Addr(next)] ELSE reg
    /\ UNCHANGED <<code, base, cur, next, at_call>>

\* Memory at the offset of r from address a.
At(a, r) ==
    IF \E p \in Procs : a = Addr(p)
    THEN area[CHOOSE p \in Procs : a = Addr(p)][r]
    ELSE Junk

\* Mutant: the load uses the address of the area being left.
LoadOld ==
    /\ pc = "load"
    /\ reg' = [reg EXCEPT ![Loaded[i]] = area[cur][Loaded[i]]]
    /\ IF i < Len(Loaded)
       THEN i' = i + 1 /\ UNCHANGED <<pc, cur>>
       ELSE pc' = "run" /\ i' = 1 /\ cur' = next
    /\ UNCHANGED <<area, code, base, next, at_call>>

\* One lw instruction; after the last the routine returns in next.
Load ==
    /\ pc = "load"
    /\ reg' = [reg EXCEPT ![Loaded[i]] = At(reg[base], Loaded[i])]
    /\ IF i < Len(Loaded)
       THEN i' = i + 1 /\ UNCHANGED <<pc, cur>>
       ELSE pc' = "run" /\ i' = 1 /\ cur' = next
    /\ UNCHANGED <<area, code, base, next, at_call>>

Next == (\E n \in Procs : Call(n)) \/ Store \/ Load

Spec == Init /\ [][Next]_vars

-----------------------------------------------------------------------------

\* Every register holds a value, and i is an instruction of the phase.
TypeOK ==
    /\ reg \in [Regs -> Values] /\ at_call \in [Regs -> Values]
    /\ area \in [Procs -> [Regs -> Values]]
    /\ code \in Routines /\ base \in code.bases /\ cur \in Procs /\ next \in Procs
    /\ pc \in {"run", "save", "load"}
    /\ i \in 1 .. Len(IF pc = "load" THEN Loaded ELSE Saved)

\* The stores are complete: when the loads begin, the area of the process
\* being left holds what the registers were at the call, also when the switch
\* is to the process itself.
SavesAll ==
    /\ TypeOK
    /\ pc = "load" => \A r \in Elems(Saved) : area[cur][r] = at_call[r]

\* When the switch returns, the registers are right that were loaded up to and
\* including the one the loads take their address from, whichever that is.  In
\* switch_context, which does not load sp, these are all.  In context_switch
\* they are not: the rest is loaded from wherever the new value of the base
\* register points.
RightUpToBase ==
    [][(pc = "load" /\ pc' = "run") =>
         \A k \in 1 .. Len(Loaded) : (\A j \in 1 .. (k - 1) : Loaded[j] # base) =>
           reg'[Loaded[k]] = area[next][Loaded[k]]]_vars

=============================================================================
