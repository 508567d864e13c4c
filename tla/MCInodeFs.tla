------------------------------ MODULE MCInodeFs ------------------------------
(***************************************************************************)
(* Three files with one-letter names, a name that is too long, blocks of   *)
(* two bytes of which there are too few for every file, and nodes of two   *)
(* keys, so that the third name splits the root.  The hashes of the names  *)
(* are below the addresses.                                                *)
(***************************************************************************)
EXTENDS InodeFs

TestNodes == 70001 .. 70016
TestNames == {<<97>>, <<98>>, <<99>>, <<97, 97, 97>>}
TestData == {<<1>>, <<1, 2, 1>>}

=============================================================================
