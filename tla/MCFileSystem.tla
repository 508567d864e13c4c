---------------------------- MODULE MCFileSystem ----------------------------
(***************************************************************************)
(* Two slots for three names, and four bytes of heap for files of up to    *)
(* two bytes: the table, the heap and the size limit can all be exhausted, *)
(* and a freed range is used again.                                        *)
(***************************************************************************)
EXTENDS FileSystem
=============================================================================
