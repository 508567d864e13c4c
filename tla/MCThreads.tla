----------------------------- MODULE MCThreads -----------------------------
(***************************************************************************)
(* Four slots: a process can be overtaken by two others while a slot is    *)
(* free.  Six threads: slots are used again after an exit.                 *)
(***************************************************************************)
EXTENDS Threads
=============================================================================
