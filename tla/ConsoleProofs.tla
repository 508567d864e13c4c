--------------------------- MODULE ConsoleProofs ---------------------------
(***************************************************************************)
(* The trap path and the keyboard: for every set of registers in the       *)
(* frame, every buffer size and every sequence of keys, with an interrupt  *)
(* between any two steps of the interrupted code.                          *)
(***************************************************************************)
EXTENDS Console, TLAPS, FiniteSetTheorems

-----------------------------------------------------------------------------
(***************************************************************************)
(* The trap path.                                                          *)
(***************************************************************************)

FrameSp == Plus(User("sp"), -FRAME)

\* The inductive invariant: what registers, frame and sscratch hold in every
\* phase of kernel_entry.
TrapInv ==
    /\ TrapTransparent
    /\ pc = "entry" => \A r \in Regs : reg[r] = User(r)
    /\ pc = "store" =>
         /\ sscratch = User("sp") /\ reg["sp"] = FrameSp
         /\ \A r \in Regs \ {"sp"} : reg[r] = User(r)
         /\ \A k \in 1 .. (i - 1) : tf[FrameRegs[k]] = User(FrameRegs[k])
    /\ pc = "handler" => i = 1
    /\ pc \in {"handler", "load"} => reg["sp"] = FrameSp
    /\ pc = "load" => \A k \in 1 .. (i - 1) : reg[FrameRegs[k]] = User(FrameRegs[k])
    /\ pc \in {"entry", "store", "handler"} => sepc = trapped
    /\ pc \in {"load", "sret"} => sepc = trapped + (IF scause = "ecall" THEN 4 ELSE 0)

\* The frame has a word for every register, and the last one is that of sp.
LEMMA FrameFacts ==
    /\ Len(FrameRegs) \in Nat \ {0} /\ FRAME \in Nat
    /\ \A k \in 1 .. Len(FrameRegs) : FrameRegs[k] \in Regs
    /\ \A r \in Regs : \E k \in 1 .. Len(FrameRegs) : r = FrameRegs[k]
    /\ \A k \in 1 .. Len(FrameRegs) : FrameRegs[k] = "sp" <=> k = Len(FrameRegs)
    /\ "sp" \in Regs
  <1>1. Len(FrameRegs) \in Nat \ {0}
    BY TrapAssumption
  <1> QED
    BY <1>1, TrapAssumption DEF Regs, FRAME

LEMMA TrapValues ==
    /\ \A r \in Regs : User(r) \in Values
    /\ FrameSp \in Values /\ Clobbered \in Values /\ Unknown \in Values
  BY DEF Values, FrameSp

LEMMA InitTrap == Init => TrapInv
  BY FrameFacts, TrapValues, TrapAssumption DEF Init, TrapInv, TrapTransparent, TypeOK

\* The processor takes a trap.
LEMMA TakeTrapKeeps ==
    ASSUME TrapInv, NEW cause \in Causes, NEW p \in 0 .. PC_MAX, TakeTrap(cause, p)
    PROVE  TrapInv'
  BY TrapAssumption DEF TrapInv, TrapTransparent, TypeOK, TakeTrap

\* kernel_entry moves sp below the frame and keeps the old one in sscratch.
LEMMA EntryKeeps ==
    ASSUME TrapInv, kernel_entry
    PROVE  TrapInv'
  <1>1. /\ TypeOK /\ pc = "entry" /\ \A r \in Regs : reg[r] = User(r)
        /\ sepc = trapped
    BY DEF TrapInv, TrapTransparent, kernel_entry
  <1>2. /\ sscratch' = User("sp")
        /\ reg' = [reg EXCEPT !["sp"] = FrameSp]
        /\ pc' = "store" /\ i' = 1
        /\ UNCHANGED <<tf, sepc, scause, trapped>>
    BY <1>1, FrameFacts, Zenon DEF kernel_entry, FrameSp
  <1>3. TypeOK'
    BY <1>1, <1>2, FrameFacts, TrapValues DEF TypeOK
  <1> QED
    BY <1>1, <1>2, <1>3, FrameFacts DEF TrapInv, TrapTransparent, TypeOK

\* One sw; the last one stores sscratch by way of t0.
LEMMA StoreKeeps ==
    ASSUME TrapInv, Store
    PROVE  TrapInv'
  <1>1. /\ TypeOK /\ pc = "store" /\ sepc = trapped
        /\ sscratch = User("sp") /\ reg["sp"] = FrameSp
        /\ \A r \in Regs \ {"sp"} : reg[r] = User(r)
        /\ \A k \in 1 .. (i - 1) : tf[FrameRegs[k]] = User(FrameRegs[k])
    BY DEF TrapInv, TrapTransparent, Store
  <1>2. /\ i \in 1 .. Len(FrameRegs) /\ reg \in [Regs -> Values] /\ tf \in [Regs -> Values]
        /\ UNCHANGED <<sscratch, sepc, scause, trapped>>
    BY <1>1 DEF TypeOK, Store
  <1>3. CASE i < Len(FrameRegs)
    <2>1. /\ tf' = [tf EXCEPT ![FrameRegs[i]] = reg[FrameRegs[i]]]
          /\ i' = i + 1 /\ reg' = reg /\ pc' = "store"
      BY <1>1, <1>3 DEF Store
    <2>2. FrameRegs[i] \in Regs \ {"sp"} /\ i' \in 1 .. Len(FrameRegs) /\ i' - 1 = i
      BY <1>2, <1>3, <2>1, FrameFacts
    <2>3. /\ tf' \in [Regs -> Values]
          /\ \A k \in 1 .. i : tf'[FrameRegs[k]] = User(FrameRegs[k])
      BY <1>1, <1>2, <1>3, <2>1, <2>2, FrameFacts
    <2>4. TypeOK'
      BY <1>1, <1>2, <2>1, <2>2, <2>3 DEF TypeOK
    <2> QED
      BY <1>1, <1>2, <2>1, <2>2, <2>3, <2>4 DEF TrapInv, TrapTransparent
  <1>4. CASE i = Len(FrameRegs)
    <2>1. /\ reg' = [reg EXCEPT !["t0"] = sscratch]
          /\ tf' = [tf EXCEPT !["sp"] = sscratch]
          /\ i' = 1 /\ pc' = "handler"
      BY <1>2, <1>4, FrameFacts DEF Store
    <2>2. reg' \in [Regs -> Values] /\ reg'["sp"] = FrameSp
      BY <1>1, <1>2, <2>1, FrameFacts, TrapValues, TrapAssumption, Zenon
    <2>3. tf' \in [Regs -> Values] /\ \A r \in Regs : tf'[r] = User(r)
      <3>1. tf' \in [Regs -> Values] /\ tf'["sp"] = User("sp")
        BY <1>1, <1>2, <2>1, FrameFacts, TrapValues
      <3>2. ASSUME NEW r \in Regs, r # "sp" PROVE tf'[r] = User(r)
        <4>1. PICK k \in 1 .. Len(FrameRegs) : r = FrameRegs[k]
          BY FrameFacts
        <4>2. k \in 1 .. (i - 1)
          BY <1>4, <3>2, <4>1, FrameFacts
        <4> QED
          BY <1>1, <1>2, <2>1, <3>2, <4>1, <4>2
      <3> QED
        BY <3>1, <3>2
    <2>4. TypeOK'
      BY <1>1, <1>2, <2>1, <2>2, <2>3, FrameFacts DEF TypeOK
    <2> QED
      BY <1>1, <1>2, <2>1, <2>2, <2>3, <2>4 DEF TrapInv, TrapTransparent
  <1> QED
    BY <1>2, <1>3, <1>4

\* handle_trap preserves sp and the frame, and moves sepc behind an ecall only.
LEMMA HandlerKeeps ==
    ASSUME TrapInv, handle_trap
    PROVE  TrapInv'
  <1>1. /\ TypeOK /\ pc = "handler" /\ sepc = trapped /\ i = 1 /\ reg["sp"] = FrameSp
        /\ \A r \in Regs : tf[r] = User(r)
    BY DEF TrapInv, TrapTransparent, TypeOK, handle_trap
  <1>2. ASSUME NEW epc \in 0 .. (PC_MAX + 4), Handled(epc),
               epc = trapped + (IF scause = "ecall" THEN 4 ELSE 0)
        PROVE  TrapInv'
    <2>1. /\ sepc' = epc /\ pc' = "load"
          /\ reg' = [r \in Regs |-> IF r \in CallerSaved THEN Clobbered ELSE reg[r]]
          /\ UNCHANGED <<sscratch, tf, scause, i, trapped>>
      BY <1>2 DEF Handled
    <2>2. reg' \in [Regs -> Values] /\ reg'["sp"] = FrameSp
      BY <1>1, <2>1, FrameFacts, TrapValues, TrapAssumption DEF TypeOK
    <2>3. TypeOK'
      BY <1>1, <2>1, <2>2 DEF TypeOK
    <2> QED
      BY <1>1, <1>2, <2>1, <2>2, <2>3 DEF TrapInv, TrapTransparent
  <1>3. ASSUME PANIC PROVE TrapInv'
    BY <1>1, <1>3 DEF TrapInv, TrapTransparent, TypeOK, PANIC
  <1>4. sepc \in 0 .. (PC_MAX + 4) /\ sepc + 4 \in 0 .. (PC_MAX + 4) /\ sepc + 0 = sepc
    BY <1>1, TrapAssumption DEF TypeOK
  <1>5. \/ scause = "external" /\ Handled(sepc)
        \/ scause = "ecall" /\ Handled(sepc + 4)
        \/ PANIC
    BY DEF handle_trap
  <1> QED
    BY <1>1, <1>2, <1>3, <1>4, <1>5

\* One lw.  sp is loaded last, so that every load is relative to the frame.
LEMMA LoadKeeps ==
    ASSUME TrapInv, Load
    PROVE  TrapInv'
  <1>1. /\ TypeOK /\ pc = "load" /\ reg["sp"] = FrameSp
        /\ \A r \in Regs : tf[r] = User(r)
        /\ \A k \in 1 .. (i - 1) : reg[FrameRegs[k]] = User(FrameRegs[k])
        /\ sepc = trapped + (IF scause = "ecall" THEN 4 ELSE 0)
    BY DEF TrapInv, TrapTransparent, TypeOK, Load
  <1>2. /\ i \in 1 .. Len(FrameRegs) /\ reg \in [Regs -> Values]
        /\ UNCHANGED <<sscratch, tf, sepc, scause, trapped>>
    BY <1>1 DEF TypeOK, Load
  <1>3. FrameRegs[i] \in Regs
    BY <1>2, FrameFacts
  <1>4. reg' = [reg EXCEPT ![FrameRegs[i]] = User(FrameRegs[i])]
    BY <1>1, <1>3, Zenon DEF Load, WordAt, FrameSp
  <1>5. /\ reg' \in [Regs -> Values]
        /\ \A k \in 1 .. i : reg'[FrameRegs[k]] = User(FrameRegs[k])
    BY <1>1, <1>2, <1>3, <1>4, FrameFacts, TrapValues
  <1>6. CASE i < Len(FrameRegs)
    <2>1. i' = i + 1 /\ pc' = "load" /\ i' - 1 = i /\ i' \in 1 .. Len(FrameRegs)
      BY <1>1, <1>2, <1>6, FrameFacts DEF Load
    <2>2. reg'["sp"] = FrameSp
      BY <1>1, <1>2, <1>4, <1>6, FrameFacts
    <2>3. TypeOK'
      BY <1>1, <1>2, <1>5, <2>1 DEF TypeOK
    <2> QED
      BY <1>1, <1>2, <1>5, <2>1, <2>2, <2>3 DEF TrapInv, TrapTransparent
  <1>7. CASE i = Len(FrameRegs)
    <2>1. i' = 1 /\ pc' = "sret"
      BY <1>2, <1>7, FrameFacts DEF Load
    <2>2. \A r \in Regs : reg'[r] = User(r)
      BY <1>5, <1>7, FrameFacts
    <2>3. TypeOK'
      BY <1>1, <1>2, <1>5, <2>1, FrameFacts DEF TypeOK
    <2> QED
      BY <1>1, <1>2, <2>1, <2>2, <2>3 DEF TrapInv, TrapTransparent
  <1> QED
    BY <1>2, <1>6, <1>7

\* sret, and the loop of PANIC.
LEMMA ReturnKeeps ==
    ASSUME TrapInv, sret \/ Halted \/ UNCHANGED vars
    PROVE  TrapInv'
  BY DEF TrapInv, TrapTransparent, TypeOK, sret, Halted, vars

\* Every step of the system with the console keeps TrapInv.
LEMMA TrapInvKept ==
    ASSUME TrapInv, [CNext]_cvars
    PROVE  TrapInv'
  <1>1. CASE HandleTrap
    BY <1>1, HandlerKeeps DEF HandleTrap
  <1>2. CASE TrapStep
    BY <1>2, TakeTrapKeeps, EntryKeeps, StoreKeeps, LoadKeeps, ReturnKeeps DEF TrapStep
  <1>3. CASE UNCHANGED vars
    BY <1>3, ReturnKeeps
  <1>4. Type \/ Interrupted \/ UNCHANGED cvars => UNCHANGED vars
    BY DEF Type, Interrupted, GetTest, GetTake, GetStore, sbi_console_getchar,
           uart_rx_ready, uart_read_reg, cvars
  <1> QED
    BY <1>1, <1>2, <1>3, <1>4 DEF CNext

\* A trap is invisible to the interrupted code, for every list of registers in
\* struct trap_frame that ends with sp, and whatever else handle_trap may change.
THEOREM TrapSafe == CSpec => []TrapTransparent
  <1>1. CInit => TrapInv
    BY InitTrap DEF CInit
  <1>2. TrapInv => TrapTransparent
    BY DEF TrapInv
  <1> QED
    BY <1>1, <1>2, TrapInvKept, PTL DEF CSpec

-----------------------------------------------------------------------------
(***************************************************************************)
(* Positions of the ring buffer: arithmetic modulo its size.               *)
(***************************************************************************)

LEMMA ModDef ==
    ASSUME NEW N \in Nat \ {0}, NEW a \in Nat
    PROVE  a % N \in 0 .. (N - 1) /\ a \div N \in Nat /\ a = N * (a \div N) + (a % N)
  OBVIOUS

LEMMA ModUnique ==
    ASSUME NEW N \in Nat \ {0}, NEW a \in Nat, NEW q \in Nat, NEW r \in 0 .. (N - 1),
           a = N * q + r
    PROVE  a % N = r
  <1> DEFINE p == a \div N
             m == a % N
  <1>1. p \in Nat /\ m \in 0 .. (N - 1) /\ a = N * p + m
    BY ModDef, Zenon
  <1> HIDE DEF p, m
  <1>2. ASSUME p - q >= 1 PROVE FALSE
    <2>1. N * (p - q) >= N /\ N * (p - q) = r - m
      BY <1>1, <1>2
    <2> QED
      BY <1>1, <2>1
  <1>3. ASSUME q - p >= 1 PROVE FALSE
    <2>1. N * (q - p) >= N /\ N * (q - p) = m - r
      BY <1>1, <1>3
    <2> QED
      BY <1>1, <2>1
  <1>4. p = q
    BY <1>1, <1>2, <1>3
  <1>5. m = r
    BY <1>1, <1>4
  <1> QED
    BY <1>5 DEF m

\* Moving a position on is counting one more key.
LEMMA ModStep ==
    ASSUME NEW N \in Nat \ {0}, NEW a \in Nat
    PROVE  ((a % N) + 1) % N = (a + 1) % N
  <1> DEFINE q == a \div N
             m == a % N
  <1>1. q \in Nat /\ m \in 0 .. (N - 1) /\ a = N * q + m
    BY ModDef, Zenon
  <1> HIDE DEF q, m
  <1>2. CASE m + 1 < N
    <2>1. /\ a + 1 = N * q + (m + 1) /\ m + 1 = N * 0 + (m + 1)
          /\ m + 1 \in 0 .. (N - 1)
      BY <1>1, <1>2
    <2>2. (a + 1) % N = m + 1
      BY <1>1, <2>1, ModUnique
    <2>3. (m + 1) % N = m + 1
      BY <1>1, <2>1, ModUnique
    <2> QED
      BY <2>2, <2>3 DEF m
  <1>3. CASE m + 1 = N
    <2>1. a + 1 = N * (q + 1) + 0 /\ m + 1 = N * 1 + 0
      BY <1>1, <1>3
    <2>2. (a + 1) % N = 0
      BY <1>1, <2>1, ModUnique
    <2>3. (m + 1) % N = 0
      BY <1>1, <2>1, ModUnique
    <2> QED
      BY <2>2, <2>3 DEF m
  <1> QED
    BY <1>1, <1>2, <1>3

\* Fewer than N keys apart, two keys are in different cells.
LEMMA ModApart ==
    ASSUME NEW N \in Nat \ {0}, NEW a \in Nat, NEW b \in Nat, a < b, b - a < N
    PROVE  a % N # b % N
  <1> SUFFICES ASSUME a % N = b % N PROVE FALSE
    OBVIOUS
  <1> DEFINE p == a \div N
             q == b \div N
             m == a % N
  <1>1. p \in Nat /\ q \in Nat /\ m \in 0 .. (N - 1) /\ a = N * p + m /\ b = N * q + m
    BY ModDef, Zenon
  <1> HIDE DEF p, q, m
  <1>2. b - a = N * (q - p)
    BY <1>1
  <1>3. CASE q - p >= 1
    <2>1. N * (q - p) >= N
      BY <1>1, <1>3
    <2> QED
      BY <1>2, <2>1
  <1>4. CASE q - p <= 0
    <2>1. N * (q - p) <= 0
      BY <1>1, <1>4
    <2> QED
      BY <1>2, <2>1
  <1> QED
    BY <1>1, <1>3, <1>4

-----------------------------------------------------------------------------
(***************************************************************************)
(* The ring buffer.                                                        *)
(***************************************************************************)

ConsoleTypes ==
    /\ typed \in Nat /\ tmp \in Nat
    /\ uart \in [rhr : Nat, ready : BOOLEAN]
    /\ input_buf \in [buffer : [Cells -> Nat], write_pos : Nat, read_pos : Nat, count : Nat]
    /\ upc \in {"idle", "take", "store", "poll", "test", "read"}
    /\ shell \in Seq(Nat) /\ put \in Seq(Nat) /\ got \in Seq(Nat) /\ heard \in Seq(Nat)
    /\ raced \in [count : Nat, read : Nat]

\* The copy of count that input_buffer_get holds while the handler puts keys:
\* it is behind by keys put during the get only, and not zero.
CopyInv ==
    /\ upc \in {"take", "store"} =>
         tmp \in 1 .. INPUT_BUFFER_SIZE /\ input_buf.count >= 1
    /\ upc = "take" => Len(put) - Len(got) - tmp \in 0 .. raced.count
    /\ upc = "store" => Len(put) - Len(got) - (tmp - 1) \in 0 .. raced.count

\* The keys taken are the keys put, in order.
Prefix(s, t) == Len(t) - Len(s) >= 0 /\ s = SubSeq(t, 1, Len(s))

\* BufferKept without the LET.
LEMMA BufferKeptIs ==
    BufferKept <=>
      /\ input_buf.count \in 0 .. INPUT_BUFFER_SIZE
      /\ input_buf.write_pos = Len(put) % INPUT_BUFFER_SIZE
      /\ input_buf.read_pos = Len(got) % INPUT_BUFFER_SIZE
      /\ upc = "store" => Len(put) - Len(got) - (input_buf.count - 1) \in 0 .. raced.count
      /\ upc # "store" => Len(put) - Len(got) - (input_buf.count - 0) \in 0 .. raced.count
      /\ raced.count = 0 =>
           /\ Prefix(got, put)
           /\ \A j \in 1 .. (Len(put) - Len(got)) :
                input_buf.buffer[(Len(got) + j - 1) % INPUT_BUFFER_SIZE] = put[Len(got) + j]
  <1>1. CASE upc = "store"
    BY <1>1 DEF BufferKept, Prefix
  <1>2. CASE upc # "store"
    BY <1>2, Zenon DEF BufferKept, Prefix
  <1> QED
    BY <1>1, <1>2

\* The same for the next state.
LEMMA BufferKeptNext ==
    ASSUME input_buf'.count \in 0 .. INPUT_BUFFER_SIZE,
           input_buf'.write_pos = Len(put') % INPUT_BUFFER_SIZE,
           input_buf'.read_pos = Len(got') % INPUT_BUFFER_SIZE,
           upc' = "store" => Len(put') - Len(got') - (input_buf'.count - 1) \in 0 .. raced'.count,
           upc' # "store" => Len(put') - Len(got') - (input_buf'.count - 0) \in 0 .. raced'.count,
           raced'.count = 0 =>
             /\ Prefix(got', put')
             /\ \A j \in 1 .. (Len(put') - Len(got')) :
                  input_buf'.buffer[(Len(got') + j - 1) % INPUT_BUFFER_SIZE] = put'[Len(got') + j]
    PROVE  BufferKept'
  <1>1. CASE upc' = "store"
    BY <1>1 DEF BufferKept, Prefix
  <1>2. CASE upc' # "store"
    BY <1>2 DEF BufferKept, Prefix
  <1> QED
    BY <1>1, <1>2

\* A prefix, element by element.
LEMMA PrefixIs ==
    ASSUME NEW s \in Seq(Nat), NEW t \in Seq(Nat)
    PROVE  Prefix(s, t) <=> (Len(s) <= Len(t) /\ \A k \in 1 .. Len(s) : s[k] = t[k])
  <1>1. Len(s) \in Nat /\ Len(t) \in Nat
    OBVIOUS
  <1>2. s = [k \in 1 .. Len(s) |-> s[k]]
    BY <1>1
  <1>3. ASSUME Len(s) <= Len(t)
        PROVE  SubSeq(t, 1, Len(s)) = [k \in 1 .. Len(s) |-> t[k]]
    BY <1>1, <1>3
  <1> QED
    BY <1>1, <1>2, <1>3, SMTT(30) DEF Prefix

\* The sequence with one more key.
LEMMA AppendProperties ==
    ASSUME NEW s \in Seq(Nat), NEW k \in Nat
    PROVE  /\ Append(s, k) \in Seq(Nat) /\ Len(Append(s, k)) = Len(s) + 1
           /\ \A j \in 1 .. Len(s) : Append(s, k)[j] = s[j]
           /\ Append(s, k)[Len(s) + 1] = k
  OBVIOUS

BufferInv == ConsoleTypes /\ BufferKept /\ CopyInv

LEMMA InitBuffer == CInit => BufferInv
  <1> SUFFICES ASSUME CInit PROVE BufferInv
    OBVIOUS
  <1>1. INPUT_BUFFER_SIZE \in Nat \ {0} /\ 0 % INPUT_BUFFER_SIZE = 0
    <2>1. INPUT_BUFFER_SIZE \in Nat \ {0} /\ 0 = INPUT_BUFFER_SIZE * 0 + 0
      BY ConsoleAssumption
    <2> QED
      BY <2>1, ModUnique
  <1>2. put \in Seq(Nat) /\ got \in Seq(Nat) /\ put = got /\ Len(put) = 0
    BY DEF CInit
  <1>3. ConsoleTypes
    BY <1>1 DEF CInit, ConsoleTypes, NoKey
  <1>4. /\ input_buf.count = 0 /\ input_buf.write_pos = 0 /\ input_buf.read_pos = 0
        /\ upc = "idle" /\ raced.count = 0
    BY DEF CInit
  <1>5. Prefix(got, put)
    BY <1>2 DEF Prefix
  <1>6. BufferKept
    BY <1>1, <1>2, <1>4, <1>5, BufferKeptIs
  <1> QED
    BY <1>3, <1>4, <1>6 DEF BufferInv, CopyInv

\* Steps that touch neither buffer nor get.
LEMMA BufferUntouched ==
    ASSUME BufferKept, CopyInv, UNCHANGED <<input_buf, put, got, tmp>>,
           raced'.count = raced.count,
           upc' = upc \/ (upc \notin {"take", "store"} /\ upc' \notin {"take", "store"})
    PROVE  BufferKept' /\ CopyInv'
  BY Zenon DEF BufferKept, CopyInv

\* input_buffer_put by the handler, at whatever step the interrupted code is.
LEMMA PutKeeps ==
    ASSUME BufferInv, NEW k \in Nat, input_buffer_put(k), UNCHANGED <<upc, tmp, got>>
    PROVE  /\ BufferKept' /\ CopyInv'
           /\ put' \in Seq(Nat) /\ raced' \in [count : Nat, read : Nat]
           /\ input_buf' \in [buffer : [Cells -> Nat], write_pos : Nat, read_pos : Nat, count : Nat]
  <1> DEFINE N == INPUT_BUFFER_SIZE
  <1>0. N \in Nat \ {0} /\ Cells = 0 .. (N - 1)
    BY ConsoleAssumption DEF Cells
  <1>1. CASE input_buf.count < N
    <2>1. /\ input_buf' = [input_buf EXCEPT !.buffer[input_buf.write_pos] = k,
                                            !.write_pos = (@ + 1) % N,
                                            !.count = @ + 1]
          /\ put' = Append(put, k)
          /\ raced' = [raced EXCEPT !.count = IF upc \in {"take", "store"} THEN @ + 1 ELSE @]
      BY <1>1 DEF input_buffer_put
    <2>2. /\ put \in Seq(Nat) /\ got \in Seq(Nat) /\ raced \in [count : Nat, read : Nat]
          /\ input_buf \in [buffer : [Cells -> Nat], write_pos : Nat, read_pos : Nat, count : Nat]
          /\ upc \in {"idle", "take", "store", "poll", "test", "read"} /\ tmp \in Nat
      BY DEF BufferInv, ConsoleTypes
    <2>3. /\ input_buf.count \in 0 .. N
          /\ input_buf.write_pos = Len(put) % N
          /\ input_buf.read_pos = Len(got) % N
          /\ upc = "store" => Len(put) - Len(got) - (input_buf.count - 1) \in 0 .. raced.count
          /\ upc # "store" => Len(put) - Len(got) - (input_buf.count - 0) \in 0 .. raced.count
          /\ raced.count = 0 =>
               /\ Prefix(got, put)
               /\ \A j \in 1 .. (Len(put) - Len(got)) :
                    input_buf.buffer[(Len(got) + j - 1) % N] = put[Len(got) + j]
      BY BufferKeptIs, Zenon DEF BufferInv
    <2>4. /\ Len(put) \in Nat /\ Len(got) \in Nat
          /\ put' \in Seq(Nat) /\ Len(put') = Len(put) + 1
          /\ \A j \in 1 .. Len(put) : put'[j] = put[j]
          /\ put'[Len(put) + 1] = k
      BY <2>1, <2>2, AppendProperties
    <2>5. input_buf.write_pos \in Cells
      BY <1>0, <2>3, <2>4, ModDef, Zenon
    <2>6. /\ input_buf'.count = input_buf.count + 1
          /\ input_buf'.write_pos = (input_buf.write_pos + 1) % N
          /\ input_buf'.read_pos = input_buf.read_pos
          /\ input_buf'.buffer = [input_buf.buffer EXCEPT ![input_buf.write_pos] = k]
          /\ (input_buf.write_pos + 1) % N \in Nat
      <3>1. (input_buf.write_pos + 1) % N \in 0 .. (N - 1)
        <4>1. input_buf.write_pos + 1 \in Nat
          BY <2>2
        <4> QED
          BY <1>0, <4>1, ModDef, Zenon
      <3>2. (input_buf.write_pos + 1) % N \in Nat
        BY <1>0, <3>1
      <3> QED
        BY <2>1, <2>2, <3>2
    <2>7. input_buf' \in [buffer : [Cells -> Nat], write_pos : Nat, read_pos : Nat, count : Nat]
      <3> DEFINE b == [input_buf.buffer EXCEPT ![input_buf.write_pos] = k]
                 w == (input_buf.write_pos + 1) % N
      <3>1. input_buf' = [input_buf EXCEPT !.buffer = b, !.write_pos = w, !.count = input_buf.count + 1]
        BY <2>1
      <3>2. b \in [Cells -> Nat]
        BY <2>2, <2>5
      <3>3. w \in Nat
        BY <2>6
      <3>4. input_buf.count + 1 \in Nat
        BY <2>2
      <3> HIDE DEF b, w
      <3> QED
        BY <2>2, <3>1, <3>2, <3>3, <3>4, Zenon
    <2>8. /\ raced' \in [count : Nat, read : Nat]
          /\ upc \in {"take", "store"} => raced'.count = raced.count + 1
          /\ upc \notin {"take", "store"} => raced'.count = raced.count
      <3>1. CASE upc \in {"take", "store"}
        <4>1. raced' = [raced EXCEPT !.count = @ + 1]
          BY <2>1, <3>1
        <4> QED
          BY <2>2, <3>1, <4>1
      <3>2. CASE upc \notin {"take", "store"}
        <4>1. raced' = [raced EXCEPT !.count = @]
          BY <2>1, <3>2
        <4> QED
          BY <2>2, <3>2, <4>1, Zenon
      <3> QED
        BY <3>1, <3>2
    <2>9. input_buf'.write_pos = Len(put') % N
      <3>1. ((Len(put) % N) + 1) % N = (Len(put) + 1) % N
        BY <1>0, <2>4, ModStep, Zenon
      <3> QED
        BY <2>3, <2>4, <2>6, <3>1
    <2> DEFINE P == Len(put)
               G == Len(got)
               C == input_buf.count
               R == raced.count
               newP == Len(put')
               newC == input_buf'.count
               newR == raced'.count
    <2>10. /\ P \in Nat /\ G \in Nat /\ C \in Nat /\ R \in Nat /\ newR \in Nat
           /\ newP = P + 1 /\ newC = C + 1
           /\ upc \in {"take", "store"} => newR = R + 1
           /\ upc \notin {"take", "store"} => newR = R
           /\ upc = "store" => P - G - (C - 1) \in 0 .. R
           /\ upc # "store" => P - G - (C - 0) \in 0 .. R
      BY <2>2, <2>3, <2>4, <2>6, <2>8
    <2>11. input_buf.buffer \in [Cells -> Nat] /\ C < N
      BY <1>1, <2>2
    <2> HIDE DEF N, P, G, C, R, newP, newC, newR
    <2>12. /\ upc = "store" => newP - G - (newC - 1) \in 0 .. newR
           /\ upc # "store" => newP - G - (newC - 0) \in 0 .. newR
           /\ newC \in 0 .. N
      BY <1>0, <2>10, <2>11
    <2>13. ASSUME newR = 0
           PROVE  /\ Prefix(got, put')
                  /\ \A j \in 1 .. (newP - G) :
                       input_buf'.buffer[(G + j - 1) % N] = put'[G + j]
      <3>1. upc \notin {"take", "store"} /\ R = 0 /\ P - G = C
        BY <2>10, <2>13
      <3>2. /\ Prefix(got, put)
            /\ \A j \in 1 .. (P - G) : input_buf.buffer[(G + j - 1) % N] = put[G + j]
        BY <2>3, <3>1 DEF P, G, R
      <3>3. Prefix(got, put')
        <4>1. G <= P /\ \A j \in 1 .. G : got[j] = put[j]
          BY <2>2, <3>2, PrefixIs, Zenon DEF P, G
        <4>2. G <= newP /\ \A j \in 1 .. G : got[j] = put'[j]
          BY <2>4, <2>10, <4>1 DEF P
        <4> QED
          BY <2>2, <2>4, <4>2, PrefixIs, Zenon DEF G, newP
      <3>4. ASSUME NEW j \in 1 .. (newP - G)
            PROVE  input_buf'.buffer[(G + j - 1) % N] = put'[G + j]
        <4> DEFINE a == G + j - 1
        <4>1. a \in Nat /\ a <= P /\ G + j = a + 1 /\ P - a < N
          BY <1>0, <2>10, <2>11, <3>1, SMTT(30)
        <4>2. a % N \in Cells
          BY <1>0, <4>1, ModDef, Zenon
        <4>3. CASE a = P
          <5>1. a % N = input_buf.write_pos /\ put'[G + j] = k
            BY <2>3, <2>4, <4>1, <4>3, Zenon DEF P
          <5> HIDE DEF a
          <5>2. input_buf'.buffer[a % N] = k
            BY <2>5, <2>6, <2>11, <5>1
          <5> QED
            BY <5>1, <5>2 DEF a
        <4>4. CASE a < P
          <5>1. j \in 1 .. (P - G) /\ G + j \in 1 .. P
            BY <2>10, <4>1, <4>4
          <5>2. input_buf.buffer[a % N] = put[G + j]
            BY <3>2, <5>1
          <5> HIDE DEF a
          <5>3. a % N # input_buf.write_pos
            BY <1>0, <2>3, <2>10, <4>1, <4>4, ModApart DEF P
          <5>4. input_buf'.buffer[a % N] = input_buf.buffer[a % N]
            BY <2>5, <2>6, <2>11, <4>2, <5>3
          <5>5. put'[G + j] = put[G + j]
            BY <2>4, <5>1 DEF P
          <5> QED
            BY <5>2, <5>4, <5>5 DEF a
        <4> QED
          BY <2>10, <4>1, <4>3, <4>4
      <3> QED
        BY <3>3, <3>4
    <2>14. BufferKept'
      <3>1. input_buf'.read_pos = Len(got') % N /\ Len(got') = G /\ upc' = upc /\ got' = got
        BY <2>3, <2>6 DEF G
      <3> QED
        BY <2>9, <2>12, <2>13, <3>1, BufferKeptNext DEF N, newP, newC, newR
    <2>15. CopyInv'
      <3>1. /\ upc \in {"take", "store"} => tmp \in 1 .. N /\ C >= 1
            /\ upc = "take" => P - G - tmp \in 0 .. R
            /\ upc = "store" => P - G - (tmp - 1) \in 0 .. R
        BY DEF BufferInv, CopyInv, N, P, G, C, R
      <3>2. /\ upc \in {"take", "store"} => tmp \in 1 .. N /\ newC >= 1
            /\ upc = "take" => newP - G - tmp \in 0 .. newR
            /\ upc = "store" => newP - G - (tmp - 1) \in 0 .. newR
        <4>1. CASE upc = "take"
          BY <1>0, <2>10, <3>1, <4>1
        <4>2. CASE upc = "store"
          BY <1>0, <2>10, <3>1, <4>2
        <4> QED
          BY <4>1, <4>2
      <3> QED
        BY <3>2 DEF CopyInv, N, G, newP, newC, newR
    <2> QED
      BY <2>4, <2>7, <2>8, <2>14, <2>15
  <1>2. CASE ~(input_buf.count < N)
    <2>1. UNCHANGED <<input_buf, put, raced>>
      BY <1>2 DEF input_buffer_put
    <2> QED
      BY <2>1, BufferUntouched DEF BufferInv, ConsoleTypes
  <1> QED
    BY <1>1, <1>2

\* The test of input_buffer_get.
LEMMA TestKeeps ==
    ASSUME BufferInv, GetTest
    PROVE  BufferKept' /\ CopyInv' /\ tmp' \in Nat
  <1>1. /\ upc = "idle" /\ upc' = "take" /\ tmp' = input_buf.count /\ input_buf.count > 0
        /\ UNCHANGED <<input_buf, put, got, raced>>
    BY DEF GetTest, At
  <1>2. BufferKept'
    BY <1>1 DEF BufferInv, BufferKept
  <1>3. /\ input_buf.count \in 0 .. INPUT_BUFFER_SIZE /\ input_buf.count \in Nat
        /\ Len(put) - Len(got) - (input_buf.count - 0) \in 0 .. raced.count
        /\ Len(put) \in Nat /\ Len(got) \in Nat /\ INPUT_BUFFER_SIZE \in Nat
    <2>1. /\ input_buf.count \in 0 .. INPUT_BUFFER_SIZE
          /\ Len(put) - Len(got) - (input_buf.count - 0) \in 0 .. raced.count
      BY <1>1, BufferKeptIs DEF BufferInv
    <2>2. input_buf.count \in Nat /\ put \in Seq(Nat) /\ got \in Seq(Nat)
      BY DEF BufferInv, ConsoleTypes
    <2> QED
      BY <2>1, <2>2, ConsoleAssumption
  <1>4. tmp' \in 1 .. INPUT_BUFFER_SIZE /\ Len(put) - Len(got) - tmp' \in 0 .. raced.count
    BY <1>1, <1>3
  <1>5. CopyInv'
    BY <1>1, <1>3, <1>4 DEF CopyInv
  <1> QED
    BY <1>1, <1>2, <1>3, <1>5

\* input_buffer_get takes the key at read_pos.
LEMMA TakeKeeps ==
    ASSUME BufferInv, GetTake
    PROVE  /\ BufferKept' /\ CopyInv' /\ tmp' \in Nat /\ got' \in Seq(Nat)
           /\ input_buf' \in [buffer : [Cells -> Nat], write_pos : Nat, read_pos : Nat, count : Nat]
  <1> DEFINE N == INPUT_BUFFER_SIZE
             P == Len(put)
             G == Len(got)
             C == input_buf.count
             R == raced.count
             x == input_buf.buffer[input_buf.read_pos]
  <1>0. N \in Nat \ {0} /\ Cells = 0 .. (N - 1)
    BY ConsoleAssumption DEF Cells
  <1>1. /\ upc = "take" /\ upc' = "store" /\ tmp' \in {tmp, C} /\ UNCHANGED <<put, raced>>
        /\ got' = Append(got, x)
        /\ input_buf' = [input_buf EXCEPT !.read_pos = (@ + 1) % N]
    BY DEF GetTake, At
  <1>2. /\ put \in Seq(Nat) /\ got \in Seq(Nat) /\ raced.count \in Nat /\ tmp \in Nat
        /\ input_buf \in [buffer : [Cells -> Nat], write_pos : Nat, read_pos : Nat, count : Nat]
    BY DEF BufferInv, ConsoleTypes
  <1>3. /\ P \in Nat /\ G \in Nat /\ C \in Nat /\ R \in Nat
        /\ C \in 0 .. N /\ P - G - (C - 0) \in 0 .. R
        /\ tmp \in 1 .. N /\ C >= 1 /\ P - G - tmp \in 0 .. R
    <2>1. C \in 0 .. N /\ P - G - (C - 0) \in 0 .. R
      BY <1>1, BufferKeptIs DEF BufferInv
    <2>2. tmp \in 1 .. N /\ C >= 1 /\ P - G - tmp \in 0 .. R
      BY <1>1 DEF BufferInv, CopyInv
    <2>3. P \in Nat /\ G \in Nat /\ C \in Nat /\ R \in Nat
      BY <1>2
    <2> QED
      BY <2>1, <2>2, <2>3
  <1>4. /\ input_buf.write_pos = P % N /\ input_buf.read_pos = G % N
        /\ R = 0 => /\ Prefix(got, put)
                    /\ \A j \in 1 .. (P - G) : input_buf.buffer[(G + j - 1) % N] = put[G + j]
    BY BufferKeptIs DEF BufferInv
  <1>5. x \in Nat
    <2>1. input_buf.read_pos \in Cells
      BY <1>0, <1>3, <1>4, ModDef, Zenon
    <2> QED
      BY <1>2, <2>1
  <1>6. /\ input_buf'.count = C /\ input_buf'.write_pos = input_buf.write_pos
        /\ input_buf'.buffer = input_buf.buffer
        /\ input_buf'.read_pos = (input_buf.read_pos + 1) % N
        /\ (input_buf.read_pos + 1) % N \in Nat
    BY <1>0, <1>1, <1>2, ModDef, SMTT(30)
  <1>7. input_buf' \in [buffer : [Cells -> Nat], write_pos : Nat, read_pos : Nat, count : Nat]
    BY <1>1, <1>2, <1>6, Zenon
  <1> HIDE DEF x
  <1>8. /\ got' \in Seq(Nat) /\ Len(got') = G + 1
        /\ \A j \in 1 .. G : got'[j] = got[j]
        /\ got'[G + 1] = x
    BY <1>1, <1>2, <1>5, AppendProperties
  <1>9. input_buf'.read_pos = Len(got') % N
    <2>1. ((G % N) + 1) % N = (G + 1) % N
      BY <1>0, <1>3, ModStep, Zenon
    <2> QED
      BY <1>4, <1>6, <1>8, <2>1
  <1> HIDE DEF N, P, G, C, R
  <1>10. /\ tmp' \in 1 .. N /\ P - (G + 1) - (tmp' - 1) \in 0 .. R
         /\ P - (G + 1) - (C - 1) \in 0 .. R
         /\ P - G >= 1
    BY <1>0, <1>1, <1>3, SMTT(30)
  <1>11. ASSUME R = 0
         PROVE  /\ Prefix(got', put)
                /\ \A j \in 1 .. (P - (G + 1)) :
                     input_buf.buffer[((G + 1) + j - 1) % N] = put[(G + 1) + j]
    <2>1. /\ \A j \in 1 .. G : got[j] = put[j]
          /\ \A j \in 1 .. (P - G) : input_buf.buffer[(G + j - 1) % N] = put[G + j]
      BY <1>2, <1>4, <1>11, PrefixIs DEF G
    <2>2. x = put[G + 1]
      <3>1. 1 \in 1 .. (P - G) /\ G + 1 - 1 = G
        BY <1>3, <1>10
      <3>2. input_buf.buffer[(G + 1 - 1) % N] = put[G + 1]
        BY <2>1, <3>1
      <3> QED
        BY <1>4, <3>1, <3>2 DEF x
    <2>3. G + 1 <= P /\ \A j \in 1 .. (G + 1) : got'[j] = put[j]
      <3>1. G + 1 <= P /\ \A j \in 1 .. (G + 1) : j \in 1 .. G \/ j = G + 1
        BY <1>3, <1>10
      <3> QED
        BY <1>8, <2>1, <2>2, <3>1
    <2>4. Prefix(got', put)
      BY <1>2, <1>8, <2>3, PrefixIs, Zenon DEF P
    <2>5. ASSUME NEW j \in 1 .. (P - (G + 1))
          PROVE  input_buf.buffer[((G + 1) + j - 1) % N] = put[(G + 1) + j]
      <3>1. /\ j + 1 \in 1 .. (P - G) /\ G + (j + 1) - 1 = (G + 1) + j - 1
            /\ G + (j + 1) = (G + 1) + j
        BY <1>3
      <3>2. input_buf.buffer[(G + (j + 1) - 1) % N] = put[G + (j + 1)]
        BY <2>1, <3>1
      <3> QED
        BY <3>1, <3>2
    <2> QED
      BY <2>4, <2>5
  <1>12. BufferKept'
    BY <1>1, <1>3, <1>4, <1>6, <1>8, <1>9, <1>10, <1>11, BufferKeptNext DEF N, P, C, R
  <1>13. CopyInv'
    BY <1>1, <1>3, <1>6, <1>8, <1>10 DEF CopyInv, N, P, C, R
  <1> QED
    BY <1>1, <1>2, <1>3, <1>7, <1>8, <1>12, <1>13, Zenon

\* count-- of input_buffer_get.
LEMMA CountKeeps ==
    ASSUME BufferInv, GetStore
    PROVE  /\ BufferKept' /\ CopyInv'
           /\ input_buf' \in [buffer : [Cells -> Nat], write_pos : Nat, read_pos : Nat, count : Nat]
  <1> DEFINE N == INPUT_BUFFER_SIZE
  <1>0. N \in Nat
    BY ConsoleAssumption
  <1>1. /\ upc = "store" /\ upc' = "idle" /\ UNCHANGED <<put, got, raced>>
        /\ input_buf' = [input_buf EXCEPT !.count = tmp - 1]
    BY DEF GetStore, At
  <1>2. /\ tmp \in 1 .. N /\ Len(put) - Len(got) - (tmp - 1) \in 0 .. raced.count
        /\ input_buf \in [buffer : [Cells -> Nat], write_pos : Nat, read_pos : Nat, count : Nat]
    BY <1>1 DEF BufferInv, ConsoleTypes, CopyInv
  <1>3. tmp - 1 \in Nat /\ tmp - 1 \in 0 .. N /\ (tmp - 1) - 0 = tmp - 1
    BY <1>0, <1>2
  <1>4. /\ input_buf' \in [buffer : [Cells -> Nat], write_pos : Nat, read_pos : Nat, count : Nat]
        /\ input_buf'.count = tmp - 1 /\ input_buf'.write_pos = input_buf.write_pos
        /\ input_buf'.read_pos = input_buf.read_pos /\ input_buf'.buffer = input_buf.buffer
    BY <1>1, <1>2, <1>3
  <1>5. /\ input_buf.write_pos = Len(put) % N /\ input_buf.read_pos = Len(got) % N
        /\ raced.count = 0 =>
             /\ Prefix(got, put)
             /\ \A j \in 1 .. (Len(put) - Len(got)) :
                  input_buf.buffer[(Len(got) + j - 1) % N] = put[Len(got) + j]
    BY BufferKeptIs DEF BufferInv
  <1>6. BufferKept'
    BY <1>1, <1>2, <1>3, <1>4, <1>5, BufferKeptNext
  <1> QED
    BY <1>1, <1>4, <1>6 DEF CopyInv

-----------------------------------------------------------------------------
(***************************************************************************)
(* The line of the shell, and the types of the rest.                       *)
(***************************************************************************)

LEMMA EditedFacts ==
    ASSUME NEW line \in Seq(Nat), NEW k \in Nat, Len(line) < SHELL_BUFFER_SIZE
    PROVE  Edited(line, k) \in Seq(Nat) /\ Len(Edited(line, k)) < SHELL_BUFFER_SIZE
  <1>1. SHELL_BUFFER_SIZE \in Nat \ {0} /\ Len(line) \in Nat
    BY ConsoleAssumption
  <1>2. <<>> \in Seq(Nat) /\ Len(<<>>) < SHELL_BUFFER_SIZE
    BY <1>1
  <1>3. ASSUME line # <<>>
        PROVE  /\ SubSeq(line, 1, Len(line) - 1) \in Seq(Nat)
               /\ Len(SubSeq(line, 1, Len(line) - 1)) < SHELL_BUFFER_SIZE
    BY <1>1, <1>3
  <1>4. ASSUME Len(line) < SHELL_BUFFER_SIZE - 1
        PROVE  Append(line, k) \in Seq(Nat) /\ Len(Append(line, k)) < SHELL_BUFFER_SIZE
    BY <1>1, <1>4, AppendProperties
  <1> QED
    BY <1>2, <1>3, <1>4 DEF Edited

-----------------------------------------------------------------------------
(***************************************************************************)
(* The keys.  RHR always has the last key typed.  While it is ready, and   *)
(* while getchar_blocking is about to read it, the shell has not heard it. *)
(***************************************************************************)

KeysInv ==
    /\ ConsoleTypes /\ KeysAccounted
    /\ IsFiniteSet(gone) /\ uart.rhr = typed
    /\ upc = "read" => typed >= 1
    /\ uart.ready \/ upc = "read" => \A a \in DOMAIN heard : heard[a] < typed
    /\ uart.ready => \A a \in DOMAIN put : put[a] < typed

\* A key that is younger than all of a sequence can be appended to it.
LEMMA AppendKey ==
    ASSUME NEW s \in Seq(Nat), NEW k \in Nat, Increasing(s), \A a \in DOMAIN s : s[a] < k
    PROVE  /\ Append(s, k) \in Seq(Nat) /\ Len(Append(s, k)) = Len(s) + 1
           /\ Range(Append(s, k)) = Range(s) \cup {k}
           /\ Increasing(Append(s, k))
  <1> DEFINE t == Append(s, k)
  <1>1. /\ t \in Seq(Nat) /\ Len(t) = Len(s) + 1 /\ Len(s) \in Nat
        /\ \A a \in 1 .. Len(s) : t[a] = s[a]
        /\ t[Len(s) + 1] = k
    BY AppendProperties
  <1>2. DOMAIN s = 1 .. Len(s) /\ DOMAIN t = 1 .. (Len(s) + 1)
    BY <1>1
  <1> HIDE DEF t
  <1>3. Range(t) = Range(s) \cup {k}
    <2>1. Range(s) \cup {k} \subseteq Range(t)
      BY <1>1, <1>2 DEF Range
    <2>2. ASSUME NEW a \in DOMAIN t PROVE t[a] \in Range(s) \cup {k}
      <3>1. a \in 1 .. Len(s) \/ a = Len(s) + 1
        BY <1>1, <1>2
      <3> QED
        BY <1>1, <1>2, <3>1 DEF Range
    <2> QED
      BY <2>1, <2>2, Zenon DEF Range
  <1>4. Increasing(t)
    <2> SUFFICES ASSUME NEW a \in DOMAIN t, NEW b \in DOMAIN t, a < b PROVE t[a] < t[b]
      BY DEF Increasing
    <2>1. a \in DOMAIN s /\ (b \in DOMAIN s \/ b = Len(s) + 1)
      BY <1>1, <1>2
    <2> QED
      BY <1>1, <1>2, <2>1 DEF Increasing
  <1> QED
    BY <1>1, <1>3, <1>4 DEF t

\* The keys of the console are numbers up to typed.
LEMMA KeysBounded ==
    ASSUME KeysInv
    PROVE  /\ \A a \in DOMAIN heard : heard[a] \in 1 .. typed
           /\ \A a \in DOMAIN put : put[a] \in 1 .. typed
           /\ uart.ready => typed >= 1
           /\ gone \subseteq 1 .. typed
  <1>1. 1 .. typed = Range(heard) \cup Range(put) \cup gone \cup Pending /\ typed \in Nat
    BY DEF KeysInv, KeysAccounted, ConsoleTypes
  <1>2. /\ \A a \in DOMAIN heard : heard[a] \in Range(heard)
        /\ \A a \in DOMAIN put : put[a] \in Range(put)
    BY DEF Range
  <1>3. ASSUME uart.ready PROVE typed >= 1
    <2>1. typed \in 1 .. typed
      BY <1>1, <1>3 DEF KeysInv, Pending
    <2> QED
      BY <1>1, <2>1
  <1> QED
    BY <1>1, <1>2, <1>3

LEMMA PendingSize ==
    /\ uart.ready => Cardinality(Pending) = 1
    /\ ~uart.ready => Cardinality(Pending) = 0
  BY FS_EmptySet, FS_Singleton, Zenon DEF Pending

LEMMA PendingSizeNext ==
    /\ uart'.ready => Cardinality(Pending') = 1
    /\ ~uart'.ready => Cardinality(Pending') = 0
  BY FS_EmptySet, FS_Singleton DEF Pending

\* A key that is gone adds at most one to their number.
LEMMA GoneSize ==
    ASSUME IsFiniteSet(gone), NEW k
    PROVE  /\ IsFiniteSet(gone \cup {k}) /\ Cardinality(gone) \in Nat
           /\ Cardinality(gone \cup {k}) \in Nat
           /\ Cardinality(gone \cup {k}) <= Cardinality(gone) + 1
  BY FS_AddElement, FS_CardinalityType

\* What is known of the keys, as plain facts.
LEMMA KeysFacts ==
    ASSUME KeysInv
    PROVE  /\ typed \in Nat /\ heard \in Seq(Nat) /\ put \in Seq(Nat) /\ shell \in Seq(Nat)
           /\ Len(heard) \in Nat /\ Len(put) \in Nat /\ raced.read \in Nat
           /\ uart \in [rhr : Nat, ready : BOOLEAN]
           /\ uart.rhr = typed /\ uart.ready \in BOOLEAN
           /\ IsFiniteSet(gone) /\ Cardinality(gone) \in Nat
           /\ 1 .. typed = Range(heard) \cup Range(put) \cup gone \cup Pending
           /\ Increasing(heard) /\ Increasing(put)
           /\ Len(heard) + Len(put) + Cardinality(gone) + Cardinality(Pending) <= typed + raced.read
           /\ Len(shell) < SHELL_BUFFER_SIZE
  <1>1. ConsoleTypes /\ KeysAccounted /\ IsFiniteSet(gone) /\ uart.rhr = typed
    BY DEF KeysInv
  <1>2. /\ typed \in Nat /\ heard \in Seq(Nat) /\ put \in Seq(Nat) /\ shell \in Seq(Nat)
        /\ uart \in [rhr : Nat, ready : BOOLEAN] /\ raced \in [count : Nat, read : Nat]
    BY <1>1 DEF ConsoleTypes
  <1>3. Cardinality(gone) \in Nat
    BY <1>1, FS_CardinalityType
  <1>4. /\ Len(heard) \in Nat /\ Len(put) \in Nat /\ raced.read \in Nat /\ uart.ready \in BOOLEAN
    BY <1>2
  <1> QED
    BY <1>1, <1>2, <1>3, <1>4 DEF KeysAccounted

\* A key arrives: the one before it is gone if it was still there.
LEMMA TypeKeeps ==
    ASSUME KeysInv, Type, ConsoleTypes'
    PROVE  KeysInv'
  <1>0. /\ typed \in Nat /\ Len(heard) \in Nat /\ Len(put) \in Nat /\ raced.read \in Nat
        /\ Cardinality(gone) \in Nat /\ IsFiniteSet(gone) /\ uart.ready \in BOOLEAN
        /\ Len(heard) + Len(put) + Cardinality(gone) + Cardinality(Pending) <= typed + raced.read
    BY KeysFacts
  <1>1. /\ typed' = typed + 1 /\ uart' = [rhr |-> typed + 1, ready |-> TRUE]
        /\ gone' = IF uart.ready THEN gone \cup {typed} ELSE gone
        /\ UNCHANGED <<upc, shell, put, heard, raced>>
    BY KeysFacts, Zenon DEF Type
  <1>2. /\ uart'.ready /\ uart'.rhr = typed' /\ Pending' = {typed + 1} /\ typed' >= 1
    BY <1>1, KeysFacts DEF Pending
  <1>3. gone' \cup {typed + 1} = gone \cup Pending \cup {typed + 1}
    BY <1>1, KeysFacts DEF Pending
  <1>4. 1 .. typed' = Range(heard') \cup Range(put') \cup gone' \cup Pending'
    <2>1. 1 .. (typed + 1) = (1 .. typed) \cup {typed + 1}
      BY <1>0
    <2> QED
      BY <1>1, <1>2, <1>3, <2>1, KeysFacts
  <1>5. IsFiniteSet(gone') /\ Cardinality(gone') + 1 <= Cardinality(gone) + Cardinality(Pending) + 1
    <2>1. CASE uart.ready
      <3>1. gone' = gone \cup {typed} /\ Cardinality(Pending) = 1
        BY <1>1, <2>1, PendingSize
      <3>2. /\ IsFiniteSet(gone') /\ Cardinality(gone') \in Nat
            /\ Cardinality(gone') <= Cardinality(gone) + 1
        BY <1>0, <3>1, GoneSize, Zenon
      <3> QED
        BY <1>0, <3>1, <3>2
    <2>2. CASE ~uart.ready
      <3>1. gone' = gone /\ Cardinality(Pending) = 0
        BY <1>1, <2>2, PendingSize
      <3> QED
        BY <1>0, <3>1
    <2> QED
      BY <2>1, <2>2
  <1>6. Cardinality(gone') \in Nat /\ Cardinality(Pending) \in Nat /\ Cardinality(Pending') = 1
    BY <1>2, <1>5, FS_CardinalityType, PendingSize, PendingSizeNext
  <1>7. Len(heard') + Len(put') + Cardinality(gone') + Cardinality(Pending') <= typed' + raced'.read
    <2>1. /\ Len(heard') = Len(heard) /\ Len(put') = Len(put) /\ typed' = typed + 1
          /\ raced'.read = raced.read
      BY <1>1
    <2> DEFINE h == Len(heard)
               p == Len(put)
               g == Cardinality(gone)
               c == Cardinality(Pending)
               newg == Cardinality(gone')
               r == raced.read
    <2>2. /\ h \in Nat /\ p \in Nat /\ g \in Nat /\ c \in Nat /\ newg \in Nat /\ r \in Nat
          /\ typed \in Nat /\ h + p + g + c <= typed + r /\ newg + 1 <= g + c + 1
      BY <1>0, <1>5, <1>6
    <2> HIDE DEF h, p, g, c, newg, r
    <2>3. h + p + newg + 1 <= (typed + 1) + r
      BY <2>2
    <2> QED
      BY <1>6, <2>1, <2>3 DEF h, p, newg, r
  <1>8. /\ \A a \in DOMAIN heard' : heard'[a] < typed'
        /\ \A a \in DOMAIN put' : put'[a] < typed'
    BY <1>1, KeysBounded, KeysFacts
  <1>9. KeysAccounted'
    BY <1>1, <1>4, <1>7, KeysFacts DEF KeysAccounted
  <1> QED
    BY <1>2, <1>5, <1>8, <1>9 DEF KeysInv

\* The handler takes the key from the receiver: into the buffer, or it is gone.
LEMMA HandlerKeys ==
    ASSUME KeysInv, uart.ready, uart' = [uart EXCEPT !.ready = FALSE],
           input_buffer_put(typed), UNCHANGED <<typed, upc, shell, heard>>, ConsoleTypes'
    PROVE  KeysInv'
  <1>1. /\ ~uart'.ready /\ uart'.rhr = typed /\ Pending' = {} /\ Pending = {typed}
        /\ raced'.read = raced.read
    <2>1. ~uart'.ready /\ uart'.rhr = typed
      BY KeysFacts
    <2>2. raced'.read = raced.read
      BY Zenon DEF input_buffer_put, KeysInv, ConsoleTypes
    <2> QED
      BY <2>1, <2>2, KeysFacts DEF Pending
  <1>2. Cardinality(Pending) = 1 /\ Cardinality(Pending') = 0
    BY <1>1, PendingSize, PendingSizeNext
  <1>3. \A a \in DOMAIN heard : heard[a] < typed
    BY DEF KeysInv
  <1>4. CASE put' = Append(put, typed) /\ gone' = gone
    <2>1. \A a \in DOMAIN put : put[a] < typed
      BY DEF KeysInv
    <2>2. /\ Len(put') = Len(put) + 1 /\ Range(put') = Range(put) \cup {typed} /\ Increasing(put')
      BY <1>4, <2>1, KeysFacts, AppendKey
    <2>3. 1 .. typed = Range(heard) \cup Range(put') \cup gone' \cup Pending'
      BY <1>1, <1>4, <2>2, KeysFacts
    <2>4. Len(heard) + Len(put') + Cardinality(gone') + Cardinality(Pending') <= typed + raced'.read
      BY <1>1, <1>2, <1>4, <2>2, KeysFacts
    <2>5. KeysAccounted'
      BY <2>2, <2>3, <2>4, KeysFacts DEF KeysAccounted
    <2> QED
      BY <1>1, <1>3, <1>4, <2>5, KeysFacts DEF KeysInv
  <1>5. CASE put' = put /\ gone' = gone \cup {typed}
    <2>1. 1 .. typed = Range(heard) \cup Range(put') \cup gone' \cup Pending'
      BY <1>1, <1>5, KeysFacts
    <2>2. /\ IsFiniteSet(gone') /\ Cardinality(gone') \in Nat
          /\ Cardinality(gone') <= Cardinality(gone) + 1
      BY <1>5, KeysFacts, GoneSize, Zenon
    <2>3. Len(heard) + Len(put') + Cardinality(gone') + Cardinality(Pending') <= typed + raced'.read
      BY <1>1, <1>2, <1>5, <2>2, KeysFacts
    <2>4. KeysAccounted'
      BY <1>5, <2>1, <2>3, KeysFacts DEF KeysAccounted
    <2> QED
      BY <1>1, <1>3, <2>2, <2>4 DEF KeysInv
  <1> QED
    BY <1>4, <1>5 DEF input_buffer_put

\* getchar_blocking returns the key in RHR.  If the handler came first it is in
\* the buffer or gone as well: that is what raced.read counts.
LEMMA HearKeys ==
    ASSUME KeysInv, Hear(typed), \A a \in DOMAIN heard : heard[a] < typed, typed >= 1,
           uart.ready => raced'.read = raced.read,
           ~uart.ready => raced'.read = raced.read + 1,
           UNCHANGED <<typed, put, gone>>, ConsoleTypes'
    PROVE  KeysInv'
  <1>1. /\ typed \in Nat /\ Len(heard) \in Nat /\ Len(put) \in Nat /\ raced.read \in Nat
        /\ Cardinality(gone) \in Nat /\ IsFiniteSet(gone) /\ uart.ready \in BOOLEAN
        /\ Len(heard) + Len(put) + Cardinality(gone) + Cardinality(Pending) <= typed + raced.read
    BY KeysFacts
  <1>2. /\ ~uart'.ready /\ uart'.rhr = typed /\ Pending' = {} /\ upc' = "idle"
        /\ heard' = Append(heard, typed) /\ shell' = Edited(shell, typed)
    BY KeysFacts DEF Hear, Pending
  <1>3. Pending \subseteq {typed} /\ typed \in 1 .. typed
    BY <1>1, KeysFacts DEF Pending
  <1>4. /\ Len(heard') = Len(heard) + 1 /\ Range(heard') = Range(heard) \cup {typed}
        /\ Increasing(heard')
    BY <1>1, <1>2, KeysFacts, AppendKey
  <1>5. 1 .. typed = Range(heard') \cup Range(put) \cup gone \cup Pending'
    <2>1. 1 .. typed = Range(heard) \cup Range(put) \cup gone \cup Pending
      BY KeysFacts
    <2> QED
      BY <1>2, <1>3, <1>4, <2>1
  <1>6. Len(heard') + Len(put) + Cardinality(gone) + Cardinality(Pending') <= typed + raced'.read
    <2> DEFINE h == Len(heard)
               p == Len(put)
               g == Cardinality(gone)
               c == Cardinality(Pending)
               r == raced.read
               newr == raced'.read
    <2>1. /\ h \in Nat /\ p \in Nat /\ g \in Nat /\ r \in Nat /\ typed \in Nat
          /\ h + p + g + c <= typed + r
          /\ (c = 1 /\ newr = r) \/ (c = 0 /\ newr = r + 1)
      BY <1>1, PendingSize
    <2>2. Cardinality(Pending') = 0
      BY <1>2, PendingSizeNext
    <2> HIDE DEF h, p, g, c, r, newr
    <2>3. (h + 1) + p + g + 0 <= typed + newr
      BY <2>1
    <2> QED
      BY <1>4, <2>2, <2>3 DEF h, p, g, newr
  <1>7. Len(shell') < SHELL_BUFFER_SIZE
    BY <1>1, <1>2, KeysFacts, EditedFacts
  <1>8. KeysAccounted'
    BY <1>4, <1>5, <1>6, <1>7, KeysFacts DEF KeysAccounted
  <1> QED
    BY <1>1, <1>2, <1>8 DEF KeysInv

\* Steps that move no key.
LEMMA KeysUntouched ==
    ASSUME KeysInv, UNCHANGED <<typed, uart, shell, put, heard, gone, raced>>, ConsoleTypes',
           upc' = "read" => upc = "read" \/ uart.ready
    PROVE  KeysInv'
  <1>1. KeysAccounted'
    BY Zenon DEF KeysInv, KeysAccounted, Pending
  <1> QED
    BY <1>1, KeysBounded DEF KeysInv

-----------------------------------------------------------------------------
(***************************************************************************)
(* All steps together.                                                     *)
(***************************************************************************)

ConsoleInv == BufferInv /\ KeysInv

LEMMA InitConsole == CInit => ConsoleInv
  <1> SUFFICES ASSUME CInit PROVE KeysInv
    BY InitBuffer DEF ConsoleInv
  <1>1. ConsoleTypes
    BY InitBuffer DEF BufferInv
  <1>2. /\ typed = 0 /\ heard = <<>> /\ put = <<>> /\ gone = {} /\ shell = <<>>
        /\ uart.rhr = 0 /\ uart.ready = FALSE /\ raced.read = 0 /\ upc = "idle"
    BY DEF CInit, NoKey
  <1>3. Pending = {} /\ Range(heard) = {} /\ Range(put) = {} /\ 1 .. typed = {}
    BY <1>2 DEF Pending, Range
  <1>4. IsFiniteSet(gone) /\ Cardinality(gone) = 0 /\ Cardinality(Pending) = 0
    BY <1>2, <1>3, FS_EmptySet
  <1>5. Increasing(heard) /\ Increasing(put) /\ Len(heard) = 0 /\ Len(put) = 0 /\ Len(shell) = 0
    BY <1>2 DEF Increasing
  <1>6. KeysAccounted
    BY <1>2, <1>3, <1>4, <1>5, ConsoleAssumption DEF KeysAccounted
  <1> QED
    BY <1>1, <1>2, <1>4, <1>6 DEF KeysInv

LEMMA ConsoleKept ==
    ASSUME ConsoleInv, [CNext]_cvars
    PROVE  ConsoleInv'
  <1>0. /\ BufferInv /\ KeysInv /\ ConsoleTypes /\ BufferKept /\ CopyInv
        /\ uart.rhr = typed /\ typed \in Nat /\ uart \in [rhr : Nat, ready : BOOLEAN]
    BY DEF ConsoleInv, BufferInv, KeysInv, ConsoleTypes
  <1>1. CASE Type
    <2>1. ConsoleTypes'
      BY <1>0, <1>1 DEF Type, ConsoleTypes
    <2>2. BufferKept' /\ CopyInv'
      BY <1>0, <1>1, BufferUntouched DEF Type
    <2> QED
      BY <1>0, <1>1, <2>1, <2>2, TypeKeeps DEF ConsoleInv, BufferInv
  <1>2. CASE HandleTrap
    <2>1. UNCHANGED <<typed, upc, tmp, shell, got, heard>>
      BY <1>2 DEF HandleTrap
    <2>2. CASE scause = "external" /\ uart.ready
      <3>1. uart' = [uart EXCEPT !.ready = FALSE] /\ input_buffer_put(typed)
        BY <1>0, <1>2, <2>2 DEF HandleTrap, handle_uart_interrupt
      <3>2. /\ BufferKept' /\ CopyInv'
            /\ put' \in Seq(Nat) /\ raced' \in [count : Nat, read : Nat]
            /\ input_buf' \in [buffer : [Cells -> Nat], write_pos : Nat, read_pos : Nat, count : Nat]
        BY <1>0, <2>1, <3>1, PutKeeps
      <3>3. uart' \in [rhr : Nat, ready : BOOLEAN]
        BY <1>0, <3>1, Zenon
      <3>4. ConsoleTypes'
        BY <1>0, <2>1, <3>2, <3>3 DEF ConsoleTypes
      <3> QED
        BY <1>0, <2>1, <2>2, <3>1, <3>2, <3>4, HandlerKeys DEF ConsoleInv, BufferInv
    <2>3. CASE ~(scause = "external" /\ uart.ready)
      <3>1. UNCHANGED <<uart, input_buf, put, gone, raced>>
        BY <1>2, <2>3 DEF HandleTrap, handle_uart_interrupt, NoUart
      <3>2. ConsoleTypes'
        BY <1>0, <2>1, <3>1 DEF ConsoleTypes
      <3>3. BufferKept' /\ CopyInv'
        BY <1>0, <2>1, <3>1, BufferUntouched
      <3> QED
        BY <1>0, <2>1, <3>1, <3>2, <3>3, KeysUntouched DEF ConsoleInv, BufferInv
    <2> QED
      BY <2>2, <2>3
  <1>3. CASE GetTest \/ GetTake \/ GetStore
    <2>1. UNCHANGED <<typed, uart, shell, put, heard, gone, raced>> /\ upc' # "read"
      BY <1>3 DEF GetTest, GetTake, GetStore
    <2>2. BufferKept' /\ CopyInv' /\ ConsoleTypes'
      <3>1. CASE GetTest
        BY <1>0, <3>1, TestKeeps DEF GetTest, ConsoleTypes
      <3>2. CASE GetTake
        BY <1>0, <3>2, TakeKeeps, Zenon DEF GetTake, ConsoleTypes
      <3>3. CASE GetStore
        BY <1>0, <3>3, CountKeeps, Zenon DEF GetStore, ConsoleTypes
      <3> QED
        BY <1>3, <3>1, <3>2, <3>3
    <2> QED
      BY <1>0, <2>1, <2>2, KeysUntouched DEF ConsoleInv, BufferInv
  <1>4. CASE (sbi_console_getchar \/ uart_read_reg) /\ Hear(typed)
    <2>1. /\ upc \notin {"take", "store"} /\ upc' = "idle" /\ UNCHANGED <<input_buf, put, got, tmp, typed, gone>>
          /\ heard' = Append(heard, typed) /\ shell' = Edited(shell, typed)
          /\ uart' = [uart EXCEPT !.ready = FALSE]
      BY <1>4 DEF sbi_console_getchar, uart_read_reg, Hear, At
    <2>2. /\ raced' \in [count : Nat, read : Nat] /\ raced'.count = raced.count
          /\ uart.ready => raced'.read = raced.read
          /\ ~uart.ready => raced'.read = raced.read + 1
          /\ \A a \in DOMAIN heard : heard[a] < typed
          /\ typed >= 1
      <3>1. raced \in [count : Nat, read : Nat]
        BY <1>0 DEF ConsoleTypes
      <3>2. CASE sbi_console_getchar /\ uart.ready
        <4>1. raced' = raced
          BY <3>2 DEF sbi_console_getchar
        <4> QED
          BY <1>0, <3>1, <3>2, <4>1, KeysBounded DEF KeysInv
      <3>3. CASE uart_read_reg
        <4>1. /\ upc = "read"
              /\ uart.ready => raced' = [raced EXCEPT !.read = @]
              /\ ~uart.ready => raced' = [raced EXCEPT !.read = @ + 1]
          BY <3>3 DEF uart_read_reg, At
        <4> QED
          BY <1>0, <3>1, <4>1 DEF KeysInv
      <3> QED
        BY <1>4, <2>1, <3>2, <3>3 DEF sbi_console_getchar
    <2>3. /\ heard' \in Seq(Nat) /\ shell' \in Seq(Nat) /\ uart' \in [rhr : Nat, ready : BOOLEAN]
      BY <1>0, <2>1, KeysFacts, EditedFacts, AppendProperties, Zenon
    <2>4. ConsoleTypes'
      BY <1>0, <2>1, <2>2, <2>3 DEF ConsoleTypes
    <2>5. BufferKept' /\ CopyInv'
      BY <1>0, <2>1, <2>2, BufferUntouched
    <2> QED
      BY <1>0, <1>4, <2>1, <2>2, <2>4, <2>5, HearKeys DEF ConsoleInv, BufferInv
  <1>5. CASE uart_rx_ready \/ (sbi_console_getchar /\ UNCHANGED <<uart, shell, heard>> /\ upc' = "test")
    <2>1. /\ UNCHANGED <<typed, uart, shell, put, heard, gone, raced, input_buf, got, tmp>>
          /\ upc \notin {"take", "store"} /\ upc' \in {"test", "read", "poll"}
          /\ upc' = "read" => uart.ready
      BY <1>5 DEF uart_rx_ready, sbi_console_getchar, At
    <2>2. ConsoleTypes'
      BY <1>0, <2>1 DEF ConsoleTypes
    <2>3. BufferKept' /\ CopyInv'
      BY <1>0, <2>1, BufferUntouched
    <2> QED
      BY <1>0, <2>1, <2>2, <2>3, KeysUntouched DEF ConsoleInv, BufferInv
  <1>6. CASE UNCHANGED console
    <2>1. UNCHANGED <<typed, uart, shell, put, heard, gone, raced, input_buf, got, tmp, upc>>
      BY <1>6 DEF console
    <2>2. ConsoleTypes'
      BY <1>0, <2>1 DEF ConsoleTypes
    <2>3. BufferKept' /\ CopyInv'
      BY <1>0, <2>1, BufferUntouched
    <2> QED
      BY <1>0, <2>1, <2>2, <2>3, KeysUntouched DEF ConsoleInv, BufferInv
  <1>7. \/ Type \/ HandleTrap \/ UNCHANGED console
        \/ GetTest \/ GetTake \/ GetStore
        \/ sbi_console_getchar \/ uart_rx_ready \/ uart_read_reg
    BY DEF CNext, TrapStep, Interrupted, cvars
  <1>8. sbi_console_getchar => Hear(typed) \/ (UNCHANGED <<uart, shell, heard>> /\ upc' = "test")
    BY <1>0 DEF sbi_console_getchar
  <1>9. uart_read_reg => Hear(typed)
    BY <1>0 DEF uart_read_reg
  <1> QED
    BY <1>1, <1>2, <1>3, <1>4, <1>5, <1>6, <1>7, <1>8, <1>9

\* BufferKept for every buffer size, number of keys and interleaving of the
\* UART interrupt with the steps of input_buffer_get and getchar_blocking.
THEOREM BufferSafe == CSpec => []BufferKept
  <1>1. ConsoleInv => BufferKept
    BY DEF ConsoleInv, BufferInv
  <1> QED
    BY <1>1, InitConsole, ConsoleKept, PTL DEF CSpec

\* KeysAccounted likewise: no key typed is lost without a trace, and only the
\* race on RHR duplicates one.
THEOREM KeysSafe == CSpec => []KeysAccounted
  <1>1. ConsoleInv => KeysAccounted
    BY DEF ConsoleInv, KeysInv
  <1> QED
    BY <1>1, InitConsole, ConsoleKept, PTL DEF CSpec

=============================================================================
