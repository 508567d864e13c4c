-------------------------------- MODULE Cfs --------------------------------
(***************************************************************************)
(* The completely fair scheduler of cfs.c: cfs_init, cfs_create_process,   *)
(* cfs_scheduler_tick and the functions they call.  The kernel calls       *)
(* nothing else of it from outside.                                        *)
(*                                                                         *)
(* tasks_timeline is a stable sorted queue here; module Timeline shows     *)
(* that the red-black tree of the code is one.  rb_leftmost is kept as the *)
(* separate, cached pointer that it is.                                    *)
(***************************************************************************)
EXTENDS StableQueue

CONSTANTS
    MAX_PROCESSES,     \* slots of cfs_processes[]
    Nices,             \* nice values that callers pass
    TICK,              \* what get_time_ns adds to its counter on every call
    MIN_GRANULARITY,
    U32,               \* 2^32, in the unit of TICK
    U64,               \* stands for 2^64: beyond every vruntime that is reached
    CLOCK_MAX          \* bound on the counter of get_time_ns

NICE_0_LOAD == 1024
NULL == 0

Procs == 1 .. MAX_PROCESSES   \* slot i of the code is i + 1 here

ASSUME CfsAssumption ==
    /\ MAX_PROCESSES \in Nat \ {0} /\ Nices \subseteq Int
    /\ TICK \in Nat \ {0} /\ MIN_GRANULARITY \in Nat
    /\ U32 \in Nat /\ U64 \in Nat /\ CLOCK_MAX \in Nat

\* One tick scaled by NICE_0_LOAD fits 32 bits, and vruntime, which advances
\* at most NICE_0_LOAD times as fast as the clock, stays far from 64 bits.
ASSUME WidthAssumption ==
    /\ TICK * NICE_0_LOAD < U32
    /\ CLOCK_MAX * NICE_0_LOAD + MIN_GRANULARITY < U64

VARIABLES
    state,           \* process |-> base.state
    vruntime,        \* process |-> se.vruntime
    exec_start,      \* process |-> se.exec_start
    sum_exec,        \* process |-> se.sum_exec_runtime
    weight,          \* process |-> se.weight
    on_rq,           \* process |-> se.on_rq
    tasks_timeline,  \* the queued processes in tree order
    rb_leftmost,     \* cached first element of tasks_timeline, or NULL
    min_vruntime, nr_running, total_weight,
    cfs_current,     \* the running process, or NULL
    clock            \* the counter of get_time_ns

vars == <<state, vruntime, exec_start, sum_exec, weight, on_rq, tasks_timeline,
          rb_leftmost, min_vruntime, nr_running, total_weight, cfs_current, clock>>

-----------------------------------------------------------------------------

prio_to_weight ==
    <<88761, 71755, 56483, 46273, 36291, 29154, 23254, 18705, 14949, 11916,
       9548,  7620,  6100,  4904,  3906,  3121,  2501,  1991,  1586,  1277,
       1024,   820,   655,   526,   423,   335,   272,   215,   172,   137,
        110,    87,    70,    56,    45,    36,    29,    23,    18,    15>>

nice_to_weight(nice) ==
    LET n == IF nice < -20 THEN -20 ELSE IF nice > 19 THEN 19 ELSE nice
    IN  prio_to_weight[n + 21]

\* The product is computed in 32 bits.
calc_delta_fair(delta, w) ==
    IF w # NICE_0_LOAD /\ delta < U32 - 1
    THEN ((delta * NICE_0_LOAD) % U32) \div w
    ELSE delta

\* Mutants: the cached leftmost node is not moved on; every insertion becomes
\* leftmost; the minimum follows the clock.
LeftKept(q, left, p) == left
LeftAlways(q, left, vr, p) == p
MinFollowsClock == min_vruntime + TICK

\* update_min_vruntime with the given current task, leftmost task and keys:
\* the smaller key of the two, but never less than before.
UpdatedMin(min, curr, left, vr) ==
    LET keys == {vr[p] : p \in {curr, left} \ {NULL}}
        low  == CHOOSE k \in keys : \A j \in keys : k <= j
    IN  IF keys = {} \/ low <= min THEN min ELSE low

\* Unsigned 64-bit subtraction and comparison.
cfs_check_preempt_curr(vcurr, vnew) == (vcurr - vnew) % U64 > MIN_GRANULARITY

\* rb_leftmost after p enters the queue q, and after p leaves it.
LeftAfterEnqueue(q, left, vr, p) == IF Place(q, vr, vr[p]) = 0 THEN p ELSE left
LeftAfterDequeue(q, left, p) ==
    LET i == CHOOSE j \in 1 .. Len(q) : q[j] = p
    IN  IF left # p THEN left ELSE IF i < Len(q) THEN q[i + 1] ELSE NULL

cfs_pick_next_task == rb_leftmost

-----------------------------------------------------------------------------

\* cfs_init.
Init ==
    /\ state = [p \in Procs |-> "UNUSED"]
    /\ vruntime = [p \in Procs |-> 0]
    /\ exec_start = [p \in Procs |-> 0]
    /\ sum_exec = [p \in Procs |-> 0]
    /\ weight = [p \in Procs |-> 0]
    /\ on_rq = [p \in Procs |-> FALSE]
    /\ tasks_timeline = <<>>
    /\ rb_leftmost = NULL
    /\ min_vruntime = 0
    /\ nr_running = 0
    /\ total_weight = 0
    /\ cfs_current = NULL
    /\ clock = 0

\* The first unused slot becomes a queued process that starts at min_vruntime;
\* without one the call returns NULL.
cfs_create_process(nice) ==
    IF \A p \in Procs : state[p] # "UNUSED"
    THEN UNCHANGED vars
    ELSE LET p  == CHOOSE i \in Procs : /\ state[i] = "UNUSED"
                                        /\ \A j \in 1 .. (i - 1) : state[j] # "UNUSED"
             w  == nice_to_weight(nice)
             vr == [vruntime EXCEPT ![p] = min_vruntime]
         IN  /\ state' = [state EXCEPT ![p] = "READY"]
             /\ vruntime' = vr
             /\ weight' = [weight EXCEPT ![p] = w]
             /\ exec_start' = [exec_start EXCEPT ![p] = 0]
             /\ sum_exec' = [sum_exec EXCEPT ![p] = 0]
             /\ on_rq' = [on_rq EXCEPT ![p] = TRUE]
             /\ rb_leftmost' = LeftAfterEnqueue(tasks_timeline, rb_leftmost, vr, p)
             /\ tasks_timeline' = Enqueued(tasks_timeline, vr, p)
             /\ nr_running' = nr_running + 1
             /\ total_weight' = total_weight + w
             /\ UNCHANGED <<min_vruntime, cfs_current, clock>>

\* cfs_scheduler_tick without a current task: run the first one of the queue.
\* With an empty queue it returns without reading the clock.
TickIdle ==
    /\ cfs_current = NULL
    /\ cfs_pick_next_task # NULL
    /\ clock + TICK <= CLOCK_MAX
    /\ LET next == cfs_pick_next_task
           left == LeftAfterDequeue(tasks_timeline, rb_leftmost, next)
       IN  /\ tasks_timeline' = Dequeued(tasks_timeline, next)
           /\ rb_leftmost' = left
           /\ on_rq' = [on_rq EXCEPT ![next] = FALSE]
           /\ nr_running' = nr_running - 1
           /\ total_weight' = total_weight - weight[next]
           /\ min_vruntime' = UpdatedMin(min_vruntime, NULL, left, vruntime)
           /\ state' = [state EXCEPT ![next] = "RUNNING"]
           /\ exec_start' = [exec_start EXCEPT ![next] = clock + TICK]
           /\ cfs_current' = next
    /\ clock' = clock + TICK
    /\ UNCHANGED <<vruntime, sum_exec, weight>>

\* cfs_update_curr: the keys once the current task is charged for its run.
\* A task without exec_start is not charged.
DeltaExec == IF exec_start[cfs_current] = 0
             THEN 0
             ELSE clock + TICK - exec_start[cfs_current]
Charged == [vruntime EXCEPT ![cfs_current] =
              IF exec_start[cfs_current] = 0
              THEN @
              ELSE @ + calc_delta_fair(DeltaExec, weight[cfs_current])]
MinCharged == IF exec_start[cfs_current] = 0
              THEN min_vruntime
              ELSE UpdatedMin(min_vruntime, cfs_current, rb_leftmost, Charged)

\* The test of cfs_scheduler_tick after cfs_update_curr.
Preempts ==
    /\ cfs_pick_next_task # NULL
    /\ cfs_check_preempt_curr(Charged[cfs_current], Charged[cfs_pick_next_task])

\* Mutant: cfs_update_curr forgets exec_start = now.
TickKeepStale ==
    /\ cfs_current # NULL
    /\ clock + TICK <= CLOCK_MAX
    /\ ~Preempts
    /\ vruntime' = Charged
    /\ sum_exec' = [sum_exec EXCEPT ![cfs_current] = @ + DeltaExec]
    /\ min_vruntime' = MinCharged
    /\ clock' = clock + TICK
    /\ UNCHANGED <<state, exec_start, weight, on_rq, tasks_timeline, rb_leftmost,
                   nr_running, total_weight, cfs_current>>

\* cfs_scheduler_tick that charges the current task and lets it go on.
TickKeep ==
    /\ cfs_current # NULL
    /\ clock + TICK <= CLOCK_MAX
    /\ ~Preempts
    /\ vruntime' = Charged
    /\ sum_exec' = [sum_exec EXCEPT ![cfs_current] = @ + DeltaExec]
    /\ exec_start' = [exec_start EXCEPT ![cfs_current] = clock + TICK]
    /\ min_vruntime' = MinCharged
    /\ clock' = clock + TICK
    /\ UNCHANGED <<state, weight, on_rq, tasks_timeline, rb_leftmost, nr_running,
                   total_weight, cfs_current>>

\* cfs_scheduler_tick that charges the current task, queues it and runs the
\* task that was leftmost before.  cfs_current still is the old task when
\* cfs_dequeue_task updates min_vruntime.
TickPreempt ==
    /\ cfs_current # NULL
    /\ clock + 2 * TICK <= CLOCK_MAX
    /\ Preempts
    /\ LET curr  == cfs_current
           next  == cfs_pick_next_task
           queue == Enqueued(tasks_timeline, Charged, curr)
           left1 == LeftAfterEnqueue(tasks_timeline, rb_leftmost, Charged, curr)
           left2 == LeftAfterDequeue(queue, left1, next)
       IN  /\ vruntime' = Charged
           /\ sum_exec' = [sum_exec EXCEPT ![curr] = @ + DeltaExec]
           /\ exec_start' = [exec_start EXCEPT ![curr] = 0, ![next] = clock + 2 * TICK]
           /\ state' = [state EXCEPT ![curr] = "READY", ![next] = "RUNNING"]
           /\ on_rq' = [on_rq EXCEPT ![curr] = TRUE, ![next] = FALSE]
           /\ tasks_timeline' = Dequeued(queue, next)
           /\ rb_leftmost' = left2
           /\ nr_running' = (nr_running + 1) - 1
           /\ total_weight' = (total_weight + weight[curr]) - weight[next]
           /\ min_vruntime' = UpdatedMin(MinCharged, curr, left2, Charged)
           /\ cfs_current' = next
    /\ clock' = clock + 2 * TICK
    /\ UNCHANGED weight

Tick == TickIdle \/ TickKeep \/ TickPreempt

Next == (\E nice \in Nices : cfs_create_process(nice)) \/ Tick

Spec == Init /\ [][Next]_vars

-----------------------------------------------------------------------------

Active == {p \in Procs : state[p] # "UNUSED"}

\* Every field has the type of its C declaration.
TypeOK ==
    /\ state \in [Procs -> {"UNUSED", "READY", "RUNNING"}]
    /\ vruntime \in [Procs -> Nat] /\ exec_start \in [Procs -> Nat]
    /\ sum_exec \in [Procs -> Nat] /\ weight \in [Procs -> Nat]
    /\ on_rq \in [Procs -> BOOLEAN]
    /\ tasks_timeline \in Seq(Procs)
    /\ rb_leftmost \in Procs \cup {NULL}
    /\ min_vruntime \in Nat /\ nr_running \in Nat /\ total_weight \in Nat
    /\ cfs_current \in Procs \cup {NULL}
    /\ clock \in Nat

\* f[1] + ... + f[k] for each k up to n, and the last of these.
PartialSums(f, n) ==
    LET S[k \in 0 .. n] == IF k = 0 THEN 0 ELSE S[k - 1] + f[k] IN S
SumTo(f, n) == PartialSums(f, n)[n]

\* What each process contributes to total_weight.
QueuedWeight == [p \in Procs |-> IF on_rq[p] THEN weight[p] ELSE 0]

\* The queue holds exactly the processes marked on_rq, once each and sorted;
\* they are the READY ones, and the cached rb_leftmost is the first of them.
\* The running process is cfs_current and is not queued.  The counters of the
\* run queue agree with it, after any mixture of creations and ticks.
QueueInv ==
    /\ TypeOK
    /\ IsSorted(tasks_timeline, vruntime)
    /\ \A i, j \in 1 .. Len(tasks_timeline) : tasks_timeline[i] = tasks_timeline[j] => i = j
    /\ \A p \in Procs : /\ on_rq[p] <=> p \in Members(tasks_timeline)
                        /\ on_rq[p] <=> state[p] = "READY"
                        /\ state[p] = "RUNNING" <=> p = cfs_current
    /\ rb_leftmost = IF tasks_timeline = <<>> THEN NULL ELSE tasks_timeline[1]
    /\ nr_running = Len(tasks_timeline)
    /\ total_weight = SumTo(QueuedWeight, MAX_PROCESSES)

\* No stretch of time is charged to two processes or twice to one, and none
\* is charged late: the running process was stamped by the last reading of the
\* clock, so that every charge is one tick, for which the 32-bit product of
\* calc_delta_fair does not wrap.
NoDoubleCharge ==
    /\ SumTo(sum_exec, MAX_PROCESSES) <= clock
    /\ cfs_current # NULL => exec_start[cfs_current] = clock

\* min_vruntime, at which new processes start, never overtakes everyone: some
\* active process is at or beyond it.
MinVruntimeReached ==
    Active # {} => \E p \in Active : min_vruntime <= vruntime[p]

\* One step of PicksLeast.
PicksLeastStep ==
    /\ cfs_current' # cfs_current =>
         \A p \in Procs : on_rq[p] => vruntime[cfs_current'] <= vruntime[p]
    /\ (cfs_current # NULL /\ rb_leftmost # NULL /\ clock' # clock) =>
         LET ahead == vruntime'[cfs_current] - vruntime[rb_leftmost]
         IN  cfs_current' = cfs_current <=> ahead \in 0 .. MIN_GRANULARITY

\* Whenever the scheduler changes the running process, it picks one whose
\* vruntime is least among all that were queued.  The process that loses the
\* CPU, once charged, is either ahead of that one by more than the granularity,
\* or behind it, because the unsigned difference then wraps; one that keeps the
\* CPU is neither.
PicksLeast == [][PicksLeastStep]_vars

=============================================================================
