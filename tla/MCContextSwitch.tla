-------------------------- MODULE MCContextSwitch --------------------------
(***************************************************************************)
(* Two processes and the full register lists of the two routines.          *)
(***************************************************************************)
EXTENDS ContextSwitch

MCProcs == {"A", "B"}

\* struct trap_frame.
FrameRegs == <<"ra", "gp", "tp", "t0", "t1", "t2", "t3", "t4", "t5", "t6",
               "a0", "a1", "a2", "a3", "a4", "a5", "a6", "a7",
               "s0", "s1", "s2", "s3", "s4", "s5", "s6", "s7", "s8", "s9", "s10", "s11",
               "sp">>

\* switch_context.
StackRegs == <<"ra", "s0", "s1", "s2", "s3", "s4", "s5", "s6", "s7", "s8", "s9", "s10", "s11">>
StackRegsBack == [k \in 1 .. 13 |-> StackRegs[14 - k]]

MCRoutines == {[saved |-> FrameRegs, loaded |-> FrameRegs, bases |-> Elems(FrameRegs) \ {"sp"}],
               [saved |-> StackRegs, loaded |-> StackRegsBack, bases |-> {"sp"}]}

=============================================================================
