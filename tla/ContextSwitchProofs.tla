------------------------ MODULE ContextSwitchProofs ------------------------
(***************************************************************************)
(* The register switches of kernel.c and asm_functions.s, for every list   *)
(* of registers and every choice of the base register.                     *)
(***************************************************************************)
EXTENDS ContextSwitch, TLAPS

\* The registers of the routine in use, and the values, as the proofs need them.
LEMMA RoutineFacts ==
    ASSUME code \in Routines, base \in code.bases
    PROVE  /\ Len(Saved) \in Nat \ {0} /\ Len(Loaded) \in Nat \ {0}
           /\ \A k \in 1 .. Len(Saved) : Saved[k] \in Regs
           /\ \A k \in 1 .. Len(Loaded) : Loaded[k] \in Regs
           /\ \A j, k \in 1 .. Len(Loaded) : Loaded[j] = Loaded[k] => j = k
           /\ base \in Regs /\ "sp" \in Regs
  <1>1. /\ Saved \in Seq(STRING) /\ Saved # <<>>
        /\ Loaded \in Seq(STRING) /\ Loaded # <<>>
        /\ Elems(Loaded) \subseteq Elems(Saved)
        /\ \A j, k \in 1 .. Len(Loaded) : Loaded[j] = Loaded[k] => j = k
        /\ base \in Elems(Saved) \cup {"sp"}
    BY RoutinesAssumption DEF Saved, Loaded
  <1>2. Elems(Saved) \subseteq Regs /\ "sp" \in Regs
    BY DEF Regs, Saved
  <1>3. Len(Saved) \in Nat \ {0} /\ Len(Loaded) \in Nat \ {0}
    BY <1>1
  <1>4. /\ \A k \in 1 .. Len(Saved) : Saved[k] \in Elems(Saved)
        /\ \A k \in 1 .. Len(Loaded) : Loaded[k] \in Elems(Loaded)
    BY DEF Elems
  <1> QED
    BY <1>1, <1>2, <1>3, <1>4

LEMMA ValueFacts ==
    /\ \A p \in Procs : Addr(p) \in Values
    /\ \A p \in Procs, r \in Regs : Own(p, r) \in Values
    /\ Zero \in Values /\ Junk \in Values
  BY DEF Values

\* A load from the address of an area reads that area.
LEMMA AtArea ==
    ASSUME NEW p \in Procs, NEW r
    PROVE  At(Addr(p), r) = area[p][r]
  <1>1. \A q \in Procs : Addr(p) = Addr(q) => p = q
    BY DEF Addr
  <1> QED
    BY <1>1 DEF At

LEMMA AtValue ==
    ASSUME area \in [Procs -> [Regs -> Values]], NEW a, NEW r \in Regs
    PROVE  At(a, r) \in Values
  <1>1. CASE \E p \in Procs : a = Addr(p)
    <2>1. PICK p \in Procs : a = Addr(p)
      BY <1>1
    <2> QED
      BY <2>1, AtArea
  <1>2. CASE ~\E p \in Procs : a = Addr(p)
    BY <1>2, ValueFacts DEF At
  <1> QED
    BY <1>1, <1>2

-----------------------------------------------------------------------------

\* The inductive invariant.  Up to the last store the registers are those of
\* the call, and the stores so far are in the area.  From then on the area is
\* complete; and as long as the base register has not been loaded it holds the
\* address of next's area, so that what was loaded is what next's area holds.
SwitchInv ==
    /\ SavesAll
    /\ pc = "save" =>
         /\ reg = at_call
         /\ base # "sp" => reg[base] = Addr(next)
         /\ \A k \in 1 .. (i - 1) : area[cur][Saved[k]] = at_call[Saved[k]]
    /\ pc = "load" =>
         /\ (\A j \in 1 .. (i - 1) : Loaded[j] # base) => reg[base] = Addr(next)
         /\ \A k \in 1 .. (i - 1) : (\A j \in 1 .. (k - 1) : Loaded[j] # base) =>
              reg[Loaded[k]] = area[next][Loaded[k]]

LEMMA InitSwitch == Init => SwitchInv
  <1> SUFFICES ASSUME Init PROVE SwitchInv
    OBVIOUS
  <1>1. code \in Routines /\ base \in code.bases /\ cur \in Procs
    BY DEF Init
  <1>2. Len(Saved) \in Nat \ {0}
    BY <1>1, RoutineFacts
  <1>3. \A p \in Procs : Fresh(p) \in [Regs -> Values]
    BY ValueFacts, Zenon DEF Fresh
  <1>4. reg \in [Regs -> Values]
    BY <1>1, ValueFacts DEF Init
  <1> QED
    BY <1>1, <1>2, <1>3, <1>4 DEF Init, SwitchInv, SavesAll, TypeOK

\* The call of the switch.
LEMMA CallKeeps ==
    ASSUME SwitchInv, NEW n \in Procs, Call(n)
    PROVE  SwitchInv'
  <1>1. TypeOK /\ base \in Regs /\ Len(Saved) \in Nat \ {0}
    BY RoutineFacts DEF SwitchInv, SavesAll, TypeOK
  <1>2. reg' \in [Regs -> Values] /\ (base # "sp" => reg'[base] = Addr(n))
    BY <1>1, ValueFacts DEF Call, TypeOK
  <1>3. /\ pc' = "save" /\ i' = 1 /\ at_call' = reg' /\ next' = n
        /\ UNCHANGED <<area, code, base, cur>>
    BY DEF Call
  <1>4. Saved' = Saved
    BY <1>3 DEF Saved
  <1>5. TypeOK'
    BY <1>1, <1>2, <1>3, <1>4 DEF TypeOK
  <1> QED
    BY <1>2, <1>3, <1>5 DEF SwitchInv, SavesAll

\* One sw instruction.
LEMMA StoreKeeps ==
    ASSUME SwitchInv, Store
    PROVE  SwitchInv'
  <1>1. /\ TypeOK /\ pc = "save" /\ reg = at_call
        /\ base # "sp" => reg[base] = Addr(next)
        /\ \A k \in 1 .. (i - 1) : area[cur][Saved[k]] = at_call[Saved[k]]
    BY DEF SwitchInv, SavesAll, Store
  <1>2. /\ base \in Regs /\ "sp" \in Regs
        /\ Len(Saved) \in Nat \ {0} /\ Len(Loaded) \in Nat \ {0}
        /\ \A k \in 1 .. Len(Saved) : Saved[k] \in Regs
    BY <1>1, RoutineFacts DEF TypeOK
  <1>3. /\ i \in 1 .. Len(Saved) /\ cur \in Procs /\ next \in Procs
        /\ area \in [Procs -> [Regs -> Values]] /\ reg \in [Regs -> Values]
    BY <1>1 DEF TypeOK
  <1>4. /\ area' = [area EXCEPT ![cur][Saved[i]] = reg[Saved[i]]]
        /\ UNCHANGED <<code, base, cur, next, at_call>>
    BY DEF Store
  <1>5. Saved' = Saved /\ Loaded' = Loaded
    BY <1>4 DEF Saved, Loaded
  <1>6. area' \in [Procs -> [Regs -> Values]]
    BY <1>2, <1>3, <1>4
  <1>7. \A k \in 1 .. i : area'[cur][Saved[k]] = at_call[Saved[k]]
    BY <1>1, <1>2, <1>3, <1>4
  <1>8. CASE i < Len(Saved)
    <2>1. i' = i + 1 /\ pc' = "save" /\ reg' = reg
      BY <1>1, <1>8 DEF Store
    <2>2. TypeOK'
      BY <1>1, <1>2, <1>3, <1>4, <1>5, <1>6, <1>8, <2>1 DEF TypeOK
    <2> QED
      BY <1>1, <1>2, <1>3, <1>4, <1>5, <1>7, <2>1, <2>2 DEF SwitchInv, SavesAll
  <1>9. CASE i >= Len(Saved)
    <2>1. /\ i' = 1 /\ pc' = "load" /\ i = Len(Saved)
          /\ reg' = IF base = "sp" THEN [reg EXCEPT !["sp"] = Addr(next)] ELSE reg
      BY <1>2, <1>3, <1>9 DEF Store
    <2>2. reg' \in [Regs -> Values] /\ reg'[base] = Addr(next)
      BY <1>1, <1>2, <1>3, <2>1, ValueFacts
    <2>3. TypeOK'
      BY <1>1, <1>2, <1>4, <1>5, <1>6, <2>1, <2>2 DEF TypeOK
    <2>4. \A r \in Elems(Saved) : area'[cur][r] = at_call[r]
      BY <1>7, <2>1 DEF Elems
    <2> QED
      BY <1>4, <1>5, <2>1, <2>2, <2>3, <2>4 DEF SwitchInv, SavesAll
  <1> QED
    BY <1>2, <1>3, <1>8, <1>9

\* What one lw instruction leaves in the registers, the last one included.
LEMMA LoadFacts ==
    ASSUME SwitchInv, Load
    PROVE  /\ (\A j \in 1 .. i : Loaded[j] # base) => reg'[base] = Addr(next)
           /\ \A k \in 1 .. i : (\A j \in 1 .. (k - 1) : Loaded[j] # base) =>
                reg'[Loaded[k]] = area[next][Loaded[k]]
  <1>1. /\ TypeOK /\ pc = "load"
        /\ (\A j \in 1 .. (i - 1) : Loaded[j] # base) => reg[base] = Addr(next)
        /\ \A k \in 1 .. (i - 1) : (\A j \in 1 .. (k - 1) : Loaded[j] # base) =>
             reg[Loaded[k]] = area[next][Loaded[k]]
    BY DEF SwitchInv, SavesAll, Load
  <1>2. /\ base \in Regs /\ Len(Loaded) \in Nat \ {0}
        /\ \A k \in 1 .. Len(Loaded) : Loaded[k] \in Regs
        /\ \A j, k \in 1 .. Len(Loaded) : Loaded[j] = Loaded[k] => j = k
    BY <1>1, RoutineFacts DEF TypeOK
  <1>3. /\ i \in 1 .. Len(Loaded) /\ next \in Procs
        /\ reg \in [Regs -> Values]
        /\ reg' = [reg EXCEPT ![Loaded[i]] = At(reg[base], Loaded[i])]
    BY <1>1 DEF TypeOK, Load
  <1>4. (\A j \in 1 .. i : Loaded[j] # base) => reg'[base] = Addr(next)
    BY <1>1, <1>2, <1>3
  <1>5. ASSUME NEW k \in 1 .. i, \A j \in 1 .. (k - 1) : Loaded[j] # base
        PROVE  reg'[Loaded[k]] = area[next][Loaded[k]]
    <2>1. CASE k = i
      <3>1. reg[base] = Addr(next)
        BY <1>1, <1>5, <2>1
      <3> QED
        BY <1>2, <1>3, <2>1, <3>1, AtArea
    <2>2. CASE k # i
      <3>1. k \in 1 .. (i - 1) /\ Loaded[k] # Loaded[i] /\ Loaded[k] \in Regs
        BY <1>2, <1>3, <1>5, <2>2
      <3> QED
        BY <1>1, <1>3, <1>5, <3>1
    <2> QED
      BY <2>1, <2>2
  <1> QED
    BY <1>4, <1>5

\* One lw instruction.
LEMMA LoadKeeps ==
    ASSUME SwitchInv, Load
    PROVE  SwitchInv'
  <1>1. /\ TypeOK /\ pc = "load"
        /\ \A r \in Elems(Saved) : area[cur][r] = at_call[r]
    BY DEF SwitchInv, SavesAll, Load
  <1>2. /\ Len(Saved) \in Nat \ {0} /\ Len(Loaded) \in Nat \ {0}
        /\ \A k \in 1 .. Len(Loaded) : Loaded[k] \in Regs
    BY <1>1, RoutineFacts DEF TypeOK
  <1>3. /\ i \in 1 .. Len(Loaded) /\ next \in Procs
        /\ area \in [Procs -> [Regs -> Values]] /\ reg \in [Regs -> Values]
    BY <1>1 DEF TypeOK
  <1>4. /\ reg' = [reg EXCEPT ![Loaded[i]] = At(reg[base], Loaded[i])]
        /\ UNCHANGED <<area, code, base, next, at_call>>
    BY DEF Load
  <1>5. Saved' = Saved /\ Loaded' = Loaded
    BY <1>4 DEF Saved, Loaded
  <1>6. reg' \in [Regs -> Values]
    BY <1>2, <1>3, <1>4, AtValue
  <1>7. CASE i < Len(Loaded)
    <2>1. i' = i + 1 /\ pc' = "load" /\ cur' = cur
      BY <1>1, <1>7 DEF Load
    <2>2. TypeOK'
      BY <1>1, <1>2, <1>3, <1>4, <1>5, <1>6, <1>7, <2>1 DEF TypeOK
    <2>3. i' - 1 = i
      BY <1>3, <2>1
    <2> QED
      BY <1>1, <1>4, <1>5, <2>1, <2>2, <2>3, LoadFacts DEF SwitchInv, SavesAll
  <1>8. CASE i >= Len(Loaded)
    <2>1. i' = 1 /\ pc' = "run" /\ cur' = next
      BY <1>2, <1>3, <1>8 DEF Load
    <2>2. TypeOK'
      BY <1>1, <1>2, <1>4, <1>5, <1>6, <2>1 DEF TypeOK
    <2> QED
      BY <2>1, <2>2 DEF SwitchInv, SavesAll
  <1> QED
    BY <1>2, <1>3, <1>7, <1>8

LEMMA SwitchInvKept == SwitchInv /\ [Next]_vars => SwitchInv'
  <1> SUFFICES ASSUME SwitchInv, [Next]_vars PROVE SwitchInv'
    OBVIOUS
  <1>1. CASE \E n \in Procs : Call(n)
    BY <1>1, CallKeeps
  <1>2. CASE Store
    BY <1>2, StoreKeeps
  <1>3. CASE Load
    BY <1>3, LoadKeeps
  <1>4. CASE UNCHANGED vars
    BY <1>4 DEF vars, SwitchInv, SavesAll, TypeOK, Saved, Loaded
  <1> QED
    BY <1>1, <1>2, <1>3, <1>4 DEF Next

\* When the loads of context_switch or switch_context begin, the area of the
\* process being left holds its registers as they were at the call, for every
\* routine, base register and set of processes.
THEOREM SwitchSaves == Spec => []SavesAll
  <1>1. SwitchInv => SavesAll
    BY DEF SwitchInv
  <1> QED
    BY <1>1, InitSwitch, SwitchInvKept, PTL DEF Spec

\* When the switch returns, every register that was loaded no later than the
\* base register of the loads has the value in next's area.
THEOREM SwitchLoads == Spec => RightUpToBase
  <1>1. SwitchInv /\ [Next]_vars =>
          [(pc = "load" /\ pc' = "run") =>
             \A k \in 1 .. Len(Loaded) : (\A j \in 1 .. (k - 1) : Loaded[j] # base) =>
               reg'[Loaded[k]] = area[next][Loaded[k]]]_vars
    <2> SUFFICES ASSUME SwitchInv, Next, pc = "load", pc' = "run"
                 PROVE  \A k \in 1 .. Len(Loaded) :
                          (\A j \in 1 .. (k - 1) : Loaded[j] # base) =>
                            reg'[Loaded[k]] = area[next][Loaded[k]]
      OBVIOUS
    <2>1. Load
      BY DEF Next, Call, Store
    <2>2. i \in 1 .. Len(Loaded) /\ Len(Loaded) \in Nat
      BY RoutineFacts DEF SwitchInv, SavesAll, TypeOK
    <2>3. i = Len(Loaded)
      BY <2>1, <2>2 DEF Load
    <2> QED
      BY <2>1, <2>3, LoadFacts
  <1> QED
    BY <1>1, InitSwitch, SwitchInvKept, PTL DEF Spec, RightUpToBase

=============================================================================
