------------------------------- MODULE MCCfs -------------------------------
(***************************************************************************)
(* Three slots and the nice values of test_features.c.  The unit of time   *)
(* is 1000 ns: a tick is 1000 units, and 2^32 ns is 4294967 units.  Twelve *)
(* ticks let every process be preempted and run again.                     *)
(***************************************************************************)
EXTENDS Cfs

MCNices == {-5, 0, 5}

=============================================================================
