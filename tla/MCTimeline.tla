----------------------------- MODULE MCTimeline -----------------------------
(***************************************************************************)
(* Ten tasks, some of which share a vruntime.  MAX_PROCESSES is 8, but a   *)
(* tree of black height three, in which the fix-up of an erase can climb   *)
(* more than one level, is first reached with ten nodes.                   *)
(***************************************************************************)
EXTENDS Timeline

MCNodes == 1 .. 10
MCvruntime == <<1, 2, 2, 3, 4, 5, 6, 6, 7, 8>>

=============================================================================
