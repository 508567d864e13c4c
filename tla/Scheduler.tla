----------------------------- MODULE Scheduler -----------------------------
(***************************************************************************)
(* The round-robin scheduler of kernel.c: scheduler_init, create_process,  *)
(* schedule, yield and process_exit, as they act on processes[] and        *)
(* current_proc.  The scheduler is cooperative: TIME_SLICE is used nowhere *)
(* and no timer interrupt reaches it.  Which code really runs after a call *)
(* is the subject of module Threads.                                       *)
(***************************************************************************)
EXTENDS Integers

CONSTANT MAX_PROCESSES

ASSUME SchedulerAssumption == MAX_PROCESSES \in Nat \ {0}

Procs == 0 .. (MAX_PROCESSES - 1)
NULL == -1

VARIABLES
    state,          \* pid |-> "UNUSED", "READY" or "RUNNING"
    current_proc,   \* pid or NULL
    passed          \* history: pid |-> the pids dispatched since it became READY
                    \* or, if that is later, since the last process_exit

vars == <<state, current_proc, passed>>

\* scheduler_init.
Init ==
    /\ state = [p \in Procs |-> "UNUSED"]
    /\ current_proc = NULL
    /\ passed = [p \in Procs |-> {}]

\* The first unused slot, if there is one.
FreeSlot == CHOOSE p \in Procs : /\ state[p] = "UNUSED"
                                 /\ \A q \in 0 .. (p - 1) : state[q] # "UNUSED"
SlotsLeft == \E p \in Procs : state[p] = "UNUSED"

\* Without a free slot the call returns NULL.
create_process ==
    /\ IF SlotsLeft
       THEN /\ state' = [state EXCEPT ![FreeSlot] = "READY"]
            /\ passed' = [passed EXCEPT ![FreeSlot] = {}]
       ELSE UNCHANGED <<state, passed>>
    /\ UNCHANGED current_proc

\* The number of slots the scan of schedule visits before p when it begins
\* at start.
Distance(start, p) == IF p >= start THEN p - start ELSE p - start + MAX_PROCESSES

Ready(st) == {p \in Procs : st[p] = "READY"}

\* Mutant: the scan begins at the current process itself.
ScanStartHere(cur) == IF cur = NULL THEN 0 ELSE cur

\* Mutant: the scan begins one slot too far.
ScanStartSkips(cur) == IF cur = NULL THEN 0 ELSE (cur + 2) % MAX_PROCESSES

\* Where the scan of schedule begins.
ScanStart(cur) ==
    IF cur = NULL \/ cur = MAX_PROCESSES - 1 THEN 0 ELSE cur + 1

FirstReady(st, start) ==
    CHOOSE p \in Ready(st) : \A q \in Ready(st) : Distance(start, p) <= Distance(start, q)

\* schedule makes a RUNNING current process READY before it scans.
Preempted(st, cur) ==
    IF cur # NULL /\ st[cur] = "RUNNING" THEN [st EXCEPT ![cur] = "READY"] ELSE st

\* schedule on the given states, current process and history.  With no process
\* ready it returns; otherwise the first one from the scan's start becomes
\* current.
Dispatch(st, cur, seen) ==
    LET st1  == Preempted(st, cur)
        next == FirstReady(st1, ScanStart(cur))
        st2  == [st1 EXCEPT ![next] = "RUNNING"]
    IN  IF Ready(st1) = {}
        THEN /\ state' = st1
             /\ current_proc' = cur
             /\ passed' = [p \in Procs |-> {}]
        ELSE /\ state' = st2
             /\ current_proc' = next
             /\ passed' = [p \in Procs |->
                             IF st2[p] = "READY" THEN seen[p] \cup {next} ELSE {}]

schedule == Dispatch(state, current_proc, passed)

yield ==
    /\ current_proc # NULL
    /\ Dispatch([state EXCEPT ![current_proc] = "READY"], current_proc, passed)

NoHistory == [p \in Procs |-> {}]

\* Mutant: the slot is not released.
exit_keeps ==
    /\ current_proc # NULL
    /\ Dispatch(state, NULL, NoHistory)

\* The scan starts at slot 0, because current_proc is NULL by then.
process_exit ==
    /\ current_proc # NULL
    /\ Dispatch([state EXCEPT ![current_proc] = "UNUSED"], NULL, NoHistory)

Next == create_process \/ schedule \/ yield \/ process_exit

\* The running code calls schedule or yield again and again, unless it exits,
\* which EveryReadyRuns lets happen only finitely often.  Nothing in the kernel
\* enforces this; process_a, process_b and process_c do it.
Spec == Init /\ [][Next]_vars /\ WF_vars(schedule \/ yield)

-----------------------------------------------------------------------------

\* Every variable has its type, and a slot that does not wait has no history.
TypeOK ==
    /\ state \in [Procs -> {"UNUSED", "READY", "RUNNING"}]
    /\ current_proc \in Procs \cup {NULL}
    /\ passed \in [Procs -> SUBSET Procs]
    /\ \A p \in Procs : state[p] # "READY" => passed[p] = {}

\* current_proc and the states agree: exactly the current process is RUNNING.
\* In particular schedule never returns with a current process left READY,
\* and process_exit never leaves a dangling current_proc.
CurrentIsRunning ==
    \A p \in Procs : state[p] = "RUNNING" <=> p = current_proc

\* Why the scan of schedule is fair: whoever was dispatched while p waits lies
\* on the way from p to the current process, and the scan only goes forward.
RoundRobinInv ==
    \A p \in Procs : (state[p] = "READY" /\ passed[p] # {}) =>
      /\ current_proc # NULL
      /\ \A q \in passed[p] : q # p /\ Distance(p, q) <= Distance(p, current_proc)

\* Round robin: while a process waits, schedule and yield dispatch no other one
\* twice, unless a process exits in between.
OvertakenOnce ==
    [][schedule \/ yield =>
         \A p \in Procs : (state[p] = "READY" /\ state'[p] = "READY") =>
           current_proc' = current_proc \/ current_proc' \notin passed[p]]_vars

\* Round robin: once processes stop to exit, every ready process runs in the
\* end.  The premise is needed: process_exit makes the scan of schedule start
\* over at slot 0, and exits that never end can starve the last slots.
EveryReadyRuns ==
    <>[][~process_exit]_vars =>
      \A p \in Procs : state[p] = "READY" ~> state[p] = "RUNNING"

=============================================================================
