------------------------------ MODULE Threads ------------------------------
(***************************************************************************)
(* What the CPU executes while the round-robin scheduler of kernel.c runs. *)
(*                                                                         *)
(* A thread is one line of execution: kernel_main, or a process body that  *)
(* create_process has set up.  frame[p] is the thread that the trap_frame  *)
(* of slot p would resume.  context_switch is taken at its word here: it   *)
(* stores the thread on the CPU in the frame of prev and resumes the one   *)
(* in the frame of next (module ContextSwitch is about its instructions).  *)
(* schedule calls it only if there was a current process, so the first     *)
(* schedule, and the one inside process_exit, change current_proc but not  *)
(* the thread.                                                             *)
(***************************************************************************)
EXTENDS Scheduler

CONSTANT MAX_THREADS   \* bound on the processes ever created

ASSUME ThreadsAssumption == MAX_THREADS \in Nat

Boot == 0              \* the thread of kernel_main
ThreadIds == 0 .. MAX_THREADS

VARIABLES
    cpu,     \* the thread that executes
    frame,   \* slot |-> the thread its trap_frame resumes, or NULL
    own,     \* slot |-> the thread create_process set up for it, or NULL
    born     \* number of process threads created so far

ctx == <<cpu, frame, own, born>>

TInit ==
    /\ Init
    /\ cpu = Boot
    /\ frame = [p \in Procs |-> NULL]
    /\ own = [p \in Procs |-> NULL]
    /\ born = 0

\* create_process also writes entry point and stack pointer to the frame.
TCreate ==
    /\ create_process
    /\ IF SlotsLeft
       THEN /\ born < MAX_THREADS
            /\ born' = born + 1
            /\ frame' = [frame EXCEPT ![FreeSlot] = born + 1]
            /\ own' = [own EXCEPT ![FreeSlot] = born + 1]
       ELSE UNCHANGED <<frame, own, born>>
    /\ UNCHANGED cpu

\* Mutant: the registers are stored and never loaded.
SaveOnly(prev, next) ==
    /\ frame' = [frame EXCEPT ![prev] = cpu]
    /\ UNCHANGED <<cpu, own, born>>

context_switch(prev, next) ==
    LET saved == [frame EXCEPT ![prev] = cpu]
    IN  /\ frame' = saved
        /\ cpu' = saved[next]
        /\ UNCHANGED <<own, born>>

\* schedule and yield.  A current process is always a candidate of the scan,
\* so with one there is a switch, possibly to itself.
Reschedule ==
    /\ schedule \/ yield
    /\ IF current_proc = NULL
       THEN UNCHANGED ctx
       ELSE context_switch(current_proc, current_proc')

\* prev is NULL in the schedule that process_exit calls: the caller goes on.
TExit == process_exit /\ UNCHANGED ctx

TNext == TCreate \/ Reschedule \/ TExit

\* The fairness of Spec.
TSpec == TInit /\ [][TNext]_<<vars, ctx>> /\ WF_<<vars, ctx>>(Reschedule)

-----------------------------------------------------------------------------

\* Threads are numbered in the order of their creation, and a slot in use has
\* a thread in its frame.
TTypeOK ==
    /\ cpu \in ThreadIds /\ born \in ThreadIds /\ cpu <= born
    /\ frame \in [Procs -> ThreadIds \cup {NULL}]
    /\ own \in [Procs -> ThreadIds \cup {NULL}]
    /\ \A p \in Procs : /\ state[p] # "UNUSED" => frame[p] # NULL
                        /\ frame[p] <= born /\ own[p] <= born

\* No thread is in two places from which it can go on: the CPU and the frames
\* of the READY processes hold different threads, whatever mixture of calls
\* schedule, yield, process_exit and create_process see.
NeverTwice ==
    /\ TypeOK /\ TTypeOK
    /\ \A p, q \in Ready(state) :
         /\ frame[p] # cpu
         /\ p # q => frame[p] # frame[q]

\* "Complete context switching": the thread that create_process set up for a
\* process waits in its frame or is on the CPU, until the process exits.
ContextsKept ==
    \A p \in Procs : state[p] # "UNUSED" => own[p] \in {cpu, frame[p]}

=============================================================================
