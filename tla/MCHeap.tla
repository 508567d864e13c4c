------------------------------- MODULE MCHeap -------------------------------
(***************************************************************************)
(* A heap of 104 bytes.  It holds up to five minimal blocks (12 + 8 bytes) *)
(* and a tail of four bytes, which is enough for a freed block between     *)
(* free neighbours on both sides while another free pair is left over.     *)
(***************************************************************************)
EXTENDS Heap
=============================================================================
