------------------------------ MODULE MCConsole ------------------------------
(***************************************************************************)
(* A frame with each kind of register: ra, t0, which kernel_entry itself   *)
(* uses, one other that handle_trap may change, one that it preserves, one *)
(* that no C code touches, and sp.  A buffer of two keys, and a line that  *)
(* is full after one.                                                      *)
(***************************************************************************)
EXTENDS Console

TestFrameRegs == <<"ra", "gp", "t0", "a0", "s0", "sp">>
TestCallerSaved == {"ra", "t0", "a0"}
TestKey == <<"char", "char", "delete", "enter">>

=============================================================================
