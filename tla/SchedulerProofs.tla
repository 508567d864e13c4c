-------------------------- MODULE SchedulerProofs --------------------------
(***************************************************************************)
(* Proofs about the round-robin scheduler and the threads that it switches *)
(* between, for every number of slots.                                     *)
(***************************************************************************)
EXTENDS Threads, TLAPS, WellFoundedInduction

States == {"UNUSED", "READY", "RUNNING"}

\* A set of natural numbers has a least element.
LEMMA LeastNat ==
    ASSUME NEW T, T \subseteq Nat, T # {}
    PROVE  \E x \in T : \A y \in T : x <= y
  <1>1. \E x \in T : \A y \in T : ~(<<y, x>> \in OpToRel(<, Nat))
    BY NatLessThanWellFounded, WFMin, Zenon
  <1>2. PICK x \in T : \A y \in T : ~(<<y, x>> \in OpToRel(<, Nat))
    BY <1>1, Zenon
  <1>3. \A y, z \in Nat : y < z => <<y, z>> \in OpToRel(<, Nat)
    <2> TAKE y, z \in Nat
    <2> HAVE y < z
    <2> DEFINE ss == <<y, z>>
    <2>1. ss \in Nat \X Nat /\ ss[1] < ss[2]
      OBVIOUS
    <2>2. ss \in {r \in Nat \X Nat : r[1] < r[2]}
      BY <2>1
    <2> QED
      BY <2>2, Zenon DEF OpToRel
  <1>4. ASSUME NEW y \in T PROVE x <= y
    <2>1. x \in Nat /\ y \in Nat
      BY <1>4
    <2>2. ~(y < x)
      BY <1>2, <1>3, <2>1, Zenon
    <2> QED
      BY <2>1, <2>2
  <1> QED
    BY <1>4

\* create_process finds an unused slot if there is one.
LEMMA FreeSlotFacts ==
    ASSUME SlotsLeft
    PROVE  FreeSlot \in Procs /\ state[FreeSlot] = "UNUSED"
  <1> DEFINE T == {p \in Procs : state[p] = "UNUSED"}
  <1>1. T \subseteq Nat /\ T # {}
    BY SchedulerAssumption DEF SlotsLeft, Procs
  <1>2. PICK x \in T : \A y \in T : x <= y
    BY <1>1, LeastNat, Zenon
  <1>3. \A q \in 0 .. (x - 1) : state[q] # "UNUSED"
    BY <1>2, SchedulerAssumption DEF Procs
  <1> QED
    BY <1>2, <1>3 DEF FreeSlot

\* The scan of schedule ends at a ready process, the first on its way.
LEMMA FirstReadyFacts ==
    ASSUME NEW st, NEW start \in Procs, Ready(st) # {}
    PROVE  /\ FirstReady(st, start) \in Ready(st)
           /\ \A q \in Ready(st) : Distance(start, FirstReady(st, start)) <= Distance(start, q)
  <1> DEFINE T == {Distance(start, q) : q \in Ready(st)}
  <1>1. Ready(st) \subseteq Procs
    BY DEF Ready
  <1>2. \A q \in Procs : Distance(start, q) \in Nat
    BY SchedulerAssumption DEF Distance, Procs
  <1>3. T \subseteq Nat /\ T # {}
    BY <1>1, <1>2
  <1>4. PICK x \in T : \A y \in T : x <= y
    BY <1>3, LeastNat, Zenon
  <1>5. PICK p \in Ready(st) : x = Distance(start, p)
    BY <1>4
  <1>6. \A q \in Ready(st) : Distance(start, p) <= Distance(start, q)
    BY <1>4, <1>5
  <1> QED
    BY <1>6 DEF FirstReady

\* The scan starts at a slot.
LEMMA ScanStartFacts ==
    ASSUME NEW cur \in Procs \cup {NULL}
    PROVE  ScanStart(cur) \in Procs
  BY SchedulerAssumption DEF ScanStart, Procs, NULL

\* What schedule does to the states it is called with: a current process that
\* runs becomes ready, and the first ready process runs, if there is one.
LEMMA DispatchFacts ==
    ASSUME NEW st \in [Procs -> States], NEW cur \in Procs \cup {NULL},
           NEW seen, \A p \in Procs : st[p] = "RUNNING" => p = cur,
           cur # NULL => st[cur] # "UNUSED",
           Dispatch(st, cur, seen)
    PROVE  /\ state' \in [Procs -> States]
           /\ current_proc' \in Procs \cup {NULL}
           /\ \A p \in Procs : state'[p] = "RUNNING" <=> p = current_proc'
           /\ \A p \in Procs : state'[p] = "READY" => (st[p] = "READY" \/ p = cur)
           /\ \A p \in Procs : state'[p] = "UNUSED" <=> st[p] = "UNUSED"
           /\ \/ current_proc' = cur
              \/ current_proc' \in Procs /\ st[current_proc'] = "READY"
  <1> DEFINE st1  == Preempted(st, cur)
             next == FirstReady(st1, ScanStart(cur))
  <1>1. /\ st1 \in [Procs -> States]
        /\ \A p \in Procs : st1[p] # "RUNNING"
        /\ \A p \in Procs : st1[p] = "READY" => (st[p] = "READY" \/ p = cur)
        /\ \A p \in Procs : st1[p] = "UNUSED" <=> st[p] = "UNUSED"
        /\ cur # NULL => st1[cur] = "READY"
    <2>1. CASE cur # NULL /\ st[cur] = "RUNNING"
      <3>1. cur \in Procs /\ st1 = [st EXCEPT ![cur] = "READY"]
        BY <2>1 DEF Preempted
      <3> QED
        BY <2>1, <3>1 DEF States
    <2>2. CASE ~(cur # NULL /\ st[cur] = "RUNNING")
      <3>1. st1 = st
        BY <2>2 DEF Preempted
      <3>2. cur # NULL => cur \in Procs
        OBVIOUS
      <3>3. NULL \notin Procs
        BY SchedulerAssumption DEF NULL, Procs
      <3> QED
        BY <2>2, <3>1, <3>2, <3>3 DEF States
    <2> QED
      BY <2>1, <2>2
  <1>2. CASE Ready(st1) = {}
    <2>1. cur = NULL
      BY <1>1, <1>2 DEF Ready
    <2>2. state' = st1 /\ current_proc' = cur
      BY <1>2 DEF Dispatch
    <2>3. NULL \notin Procs
      BY SchedulerAssumption DEF NULL, Procs
    <2> QED
      BY <1>1, <2>1, <2>2, <2>3
  <1>3. CASE Ready(st1) # {}
    <2>1. next \in Ready(st1)
      BY <1>3, ScanStartFacts, FirstReadyFacts
    <2>2. next \in Procs /\ st1[next] = "READY"
      BY <2>1 DEF Ready
    <2>3. state' = [st1 EXCEPT ![next] = "RUNNING"] /\ current_proc' = next
      BY <1>3 DEF Dispatch
    <2> HIDE DEF next, st1
    <2> QED
      BY <1>1, <2>2, <2>3 DEF States
  <1> QED
    BY <1>2, <1>3

\* The type invariant and CurrentIsRunning hold together; passed follows state.
SchedInv == TypeOK /\ CurrentIsRunning

\* Dispatch keeps the history typed, and none for a slot that does not wait.
LEMMA DispatchHistory ==
    ASSUME NEW st \in [Procs -> States], NEW cur \in Procs \cup {NULL},
           NEW seen \in [Procs -> SUBSET Procs], Dispatch(st, cur, seen)
    PROVE  /\ passed' \in [Procs -> SUBSET Procs]
           /\ \A p \in Procs : state'[p] # "READY" => passed'[p] = {}
  <1> DEFINE st1  == Preempted(st, cur)
             next == FirstReady(st1, ScanStart(cur))
             st2  == [st1 EXCEPT ![next] = "RUNNING"]
  <1>1. CASE Ready(st1) = {}
    BY <1>1 DEF Dispatch
  <1>2. CASE Ready(st1) # {}
    <2>1. next \in Procs
      BY <1>2, ScanStartFacts, FirstReadyFacts DEF Ready
    <2>2. /\ state' = st2
          /\ passed' = [p \in Procs |-> IF st2[p] = "READY" THEN seen[p] \cup {next} ELSE {}]
      BY <1>2 DEF Dispatch
    <2> HIDE DEF next, st2
    <2> QED
      BY <2>1, <2>2
  <1> QED
    BY <1>1, <1>2

\* create_process preserves the invariant: the slot it takes was UNUSED, so it
\* is not the current one.
LEMMA CreateKeeps ==
    ASSUME SchedInv, create_process
    PROVE  SchedInv'
  <1>1. CASE SlotsLeft
    <2> DEFINE f == FreeSlot
    <2>1. f \in Procs /\ state[f] = "UNUSED"
      BY <1>1, FreeSlotFacts
    <2>2. /\ state' = [state EXCEPT ![f] = "READY"]
          /\ passed' = [passed EXCEPT ![f] = {}]
          /\ current_proc' = current_proc
      BY <1>1 DEF create_process
    <2> HIDE DEF f
    <2> QED
      BY <2>1, <2>2 DEF SchedInv, TypeOK, CurrentIsRunning
  <1>2. CASE ~SlotsLeft
    BY <1>2 DEF create_process, SchedInv, TypeOK, CurrentIsRunning
  <1> QED
    BY <1>1, <1>2

\* schedule, yield and process_exit preserve it, each by what it hands over to
\* the scan.
LEMMA SwitchKeeps ==
    ASSUME SchedInv, schedule \/ yield \/ process_exit
    PROVE  SchedInv'
  <1>0. NULL \notin Procs
    BY SchedulerAssumption DEF NULL, Procs
  <1>1. PICK st \in [Procs -> States], cur \in Procs \cup {NULL}, seen \in [Procs -> SUBSET Procs] :
          /\ \A p \in Procs : st[p] = "RUNNING" => p = cur
          /\ cur # NULL => st[cur] # "UNUSED"
          /\ Dispatch(st, cur, seen)
    <2>1. CASE schedule
      BY <2>1 DEF schedule, SchedInv, TypeOK, CurrentIsRunning, States
    <2>2. CASE yield
      <3> DEFINE st == [state EXCEPT ![current_proc] = "READY"]
      <3>1. st \in [Procs -> States] /\ current_proc \in Procs
        BY <2>2 DEF yield, SchedInv, TypeOK, States
      <3>2. \A p \in Procs : st[p] = "RUNNING" => p = current_proc
        BY <3>1 DEF SchedInv, TypeOK, CurrentIsRunning
      <3>3. st[current_proc] # "UNUSED"
        BY <3>1 DEF SchedInv, TypeOK
      <3>4. Dispatch(st, current_proc, passed)
        BY <2>2 DEF yield
      <3>5. passed \in [Procs -> SUBSET Procs]
        BY DEF SchedInv, TypeOK
      <3> HIDE DEF st
      <3> QED
        BY <3>1, <3>2, <3>3, <3>4, <3>5
    <2>3. CASE process_exit
      <3> DEFINE st == [state EXCEPT ![current_proc] = "UNUSED"]
      <3>1. st \in [Procs -> States] /\ current_proc \in Procs
        BY <2>3 DEF process_exit, SchedInv, TypeOK, States
      <3>2. \A p \in Procs : st[p] # "RUNNING"
        BY <3>1 DEF SchedInv, TypeOK, CurrentIsRunning
      <3>3. Dispatch(st, NULL, NoHistory)
        BY <2>3 DEF process_exit
      <3>4. NoHistory \in [Procs -> SUBSET Procs]
        BY DEF NoHistory
      <3> HIDE DEF st
      <3> QED
        BY <3>1, <3>2, <3>3, <3>4
    <2> QED
      BY <2>1, <2>2, <2>3
  <1>2. /\ state' \in [Procs -> States]
        /\ current_proc' \in Procs \cup {NULL}
        /\ \A p \in Procs : state'[p] = "RUNNING" <=> p = current_proc'
    BY <1>1, DispatchFacts
  <1>3. /\ passed' \in [Procs -> SUBSET Procs]
        /\ \A p \in Procs : state'[p] # "READY" => passed'[p] = {}
    BY <1>1, DispatchHistory
  <1> QED
    BY <1>2, <1>3 DEF SchedInv, TypeOK, CurrentIsRunning, States

\* Whatever programs do, exactly the current process is RUNNING, at every number
\* of slots: schedule, yield and process_exit keep current_proc and the states
\* of processes[] in agreement.
THEOREM SchedulerSafe == Spec => [](TypeOK /\ CurrentIsRunning)
  <1>1. Init => SchedInv
    BY SchedulerAssumption DEF Init, SchedInv, TypeOK, CurrentIsRunning, NULL, Procs
  <1>2. SchedInv /\ [Next]_vars => SchedInv'
    <2> SUFFICES ASSUME SchedInv, [Next]_vars PROVE SchedInv'
      OBVIOUS
    <2>1. CASE create_process
      BY <2>1, CreateKeeps
    <2>2. CASE schedule \/ yield \/ process_exit
      BY <2>2, SwitchKeeps
    <2>3. CASE UNCHANGED vars
      BY <2>3 DEF vars, SchedInv, TypeOK, CurrentIsRunning
    <2> QED
      BY <2>1, <2>2, <2>3 DEF Next
  <1> QED
    BY <1>1, <1>2, PTL DEF Spec, SchedInv

\* The arithmetic of round robin.  If the scan from the slot after cur finds n
\* before it reaches p, then n is strictly farther from p than cur is.
LEMMA ScanGoesForward ==
    ASSUME NEW cur \in Procs, NEW n \in Procs, NEW p \in Procs,
           p # cur, p # n, Distance(ScanStart(cur), n) <= Distance(ScanStart(cur), p)
    PROVE  Distance(p, cur) < Distance(p, n)
  <1>1. cur # NULL
    BY SchedulerAssumption DEF NULL, Procs
  <1>2. CASE cur = MAX_PROCESSES - 1
    BY <1>1, <1>2, SchedulerAssumption DEF ScanStart, Distance, Procs
  <1>3. CASE cur # MAX_PROCESSES - 1
    <2>1. ScanStart(cur) = cur + 1
      BY <1>1, <1>3 DEF ScanStart
    <2> QED
      BY <1>3, <2>1, SchedulerAssumption DEF Distance, Procs
  <1> QED
    BY <1>2, <1>3

\* schedule and yield hand the same states to the scan: those with the current
\* process READY.
LEMMA SwitchCases ==
    ASSUME SchedInv, schedule \/ yield
    PROVE  \E st1 \in [Procs -> States] :
             /\ \A p \in Procs : st1[p] = "READY" <=> (state[p] = "READY" \/ p = current_proc)
             /\ LET next == FirstReady(st1, ScanStart(current_proc))
                    st2  == [st1 EXCEPT ![next] = "RUNNING"]
                IN  IF Ready(st1) = {}
                    THEN /\ state' = st1
                         /\ current_proc' = current_proc
                         /\ passed' = [p \in Procs |-> {}]
                    ELSE /\ state' = st2
                         /\ current_proc' = next
                         /\ passed' = [p \in Procs |->
                                         IF st2[p] = "READY" THEN passed[p] \cup {next} ELSE {}]
  <1>0. NULL \notin Procs
    BY SchedulerAssumption DEF NULL, Procs
  <1>1. CASE schedule
    <2> DEFINE st1 == Preempted(state, current_proc)
    <2>1. st1 \in [Procs -> States]
      BY DEF Preempted, SchedInv, TypeOK, States
    <2>2. \A p \in Procs : st1[p] = "READY" <=> (state[p] = "READY" \/ p = current_proc)
      BY <1>0 DEF Preempted, SchedInv, TypeOK, CurrentIsRunning
    <2> QED
      BY <1>1, <2>1, <2>2 DEF schedule, Dispatch
  <1>2. CASE yield
    <2> DEFINE st  == [state EXCEPT ![current_proc] = "READY"]
               st1 == Preempted(st, current_proc)
    <2>1. current_proc \in Procs /\ st \in [Procs -> States] /\ st[current_proc] = "READY"
      BY <1>2 DEF yield, SchedInv, TypeOK, States
    <2>2. st1 = st
      BY <2>1 DEF Preempted
    <2>3. \A p \in Procs : st1[p] = "READY" <=> (state[p] = "READY" \/ p = current_proc)
      BY <2>1, <2>2, Zenon DEF SchedInv, TypeOK
    <2>4. st1 \in [Procs -> States]
      BY <2>1, <2>2, Zenon
    <2> QED
      BY <1>2, <2>3, <2>4, Zenon DEF yield, Dispatch
  <1> QED
    BY <1>1, <1>2

\* One switch: the process dispatched has not been dispatched since p became
\* ready, and the invariant goes on to hold.
LEMMA SwitchRound ==
    ASSUME SchedInv, RoundRobinInv, schedule \/ yield
    PROVE  /\ RoundRobinInv'
           /\ \A p \in Procs : (state[p] = "READY" /\ state'[p] = "READY") =>
                current_proc' = current_proc \/ current_proc' \notin passed[p]
  <1>0. NULL \notin Procs
    BY SchedulerAssumption DEF NULL, Procs
  <1> DEFINE next(st1) == FirstReady(st1, ScanStart(current_proc))
             st2(st1)  == [st1 EXCEPT ![next(st1)] = "RUNNING"]
  <1>1. PICK st1 \in [Procs -> States] :
          /\ \A p \in Procs : st1[p] = "READY" <=> (state[p] = "READY" \/ p = current_proc)
          /\ IF Ready(st1) = {}
             THEN /\ state' = st1
                  /\ current_proc' = current_proc
                  /\ passed' = [p \in Procs |-> {}]
             ELSE /\ state' = st2(st1)
                  /\ current_proc' = next(st1)
                  /\ passed' = [p \in Procs |->
                                  IF st2(st1)[p] = "READY" THEN passed[p] \cup {next(st1)} ELSE {}]
    BY SwitchCases
  <1>2. CASE Ready(st1) = {}
    BY <1>1, <1>2 DEF RoundRobinInv
  <1>3. CASE Ready(st1) # {}
    <2> DEFINE n == next(st1)
    <2>1. /\ n \in Procs
          /\ \A q \in Ready(st1) : Distance(ScanStart(current_proc), n)
                                       <= Distance(ScanStart(current_proc), q)
      BY <1>3, ScanStartFacts, FirstReadyFacts DEF Ready, SchedInv, TypeOK
    <2>2. /\ state' = [st1 EXCEPT ![n] = "RUNNING"]
          /\ current_proc' = n
          /\ passed' = [p \in Procs |-> IF state'[p] = "READY" THEN passed[p] \cup {n} ELSE {}]
      BY <1>1, <1>3
    <2> HIDE DEF n, next, st2
    <2>3. ASSUME NEW p \in Procs, state[p] = "READY", state'[p] = "READY",
                 NEW q \in passed[p]
          PROVE  q \in Procs /\ q # p /\ Distance(p, q) < Distance(p, n)
      <3>1. p # n /\ p \in Ready(st1)
        BY <1>1, <2>1, <2>2, <2>3 DEF Ready
      <3>2. /\ current_proc \in Procs /\ q \in Procs /\ q # p
            /\ Distance(p, q) <= Distance(p, current_proc)
        BY <2>3 DEF RoundRobinInv, SchedInv, TypeOK
      <3>3. p # current_proc
        BY <2>3, <3>2 DEF SchedInv, CurrentIsRunning
      <3>4. Distance(p, current_proc) < Distance(p, n)
        BY <2>1, <3>1, <3>2, <3>3, ScanGoesForward
      <3> QED
        BY <2>1, <3>2, <3>4, SchedulerAssumption DEF Distance, Procs
    <2>4. \A p \in Procs : (state[p] = "READY" /\ state'[p] = "READY") => n \notin passed[p]
      BY <2>1, <2>3, SchedulerAssumption DEF Distance, Procs
    <2>5. ASSUME NEW p \in Procs, state'[p] = "READY", NEW q \in passed'[p]
          PROVE  q # p /\ Distance(p, q) <= Distance(p, n)
      <3>1. p # n
        BY <1>1, <2>1, <2>2, <2>5
      <3>2. q = n \/ (state[p] = "READY" /\ q \in passed[p])
        BY <2>2, <2>5 DEF SchedInv, TypeOK
      <3>3. CASE q = n
        BY <2>1, <3>1, <3>3, SchedulerAssumption DEF Distance, Procs
      <3>4. CASE state[p] = "READY" /\ q \in passed[p]
        BY <2>1, <2>3, <2>5, <3>4, SchedulerAssumption DEF Distance, Procs
      <3> QED
        BY <3>2, <3>3, <3>4
    <2> QED
      BY <1>0, <2>1, <2>2, <2>4, <2>5 DEF RoundRobinInv, Distance
  <1> QED
    BY <1>2, <1>3

\* process_exit starts the histories over.
LEMMA ExitRound ==
    ASSUME SchedInv, process_exit
    PROVE  RoundRobinInv'
  <1>0. NULL \notin Procs
    BY SchedulerAssumption DEF NULL, Procs
  <1> DEFINE st == [state EXCEPT ![current_proc] = "UNUSED"]
             n  == FirstReady(Preempted(st, NULL), ScanStart(NULL))
  <1>1. Preempted(st, NULL) = st /\ Dispatch(st, NULL, NoHistory)
    BY DEF Preempted, process_exit
  <1>2. CASE Ready(st) = {}
    BY <1>1, <1>2, Zenon DEF Dispatch, RoundRobinInv
  <1>3. CASE Ready(st) # {}
    <2>1. n \in Procs
      BY <1>1, <1>3, ScanStartFacts, FirstReadyFacts, Zenon DEF Ready
    <2>2. /\ state' = [st EXCEPT ![n] = "RUNNING"]
          /\ current_proc' = n
          /\ passed' = [p \in Procs |-> IF [st EXCEPT ![n] = "RUNNING"][p] = "READY"
                                        THEN NoHistory[p] \cup {n} ELSE {}]
      BY <1>1, <1>3, Zenon DEF Dispatch
    <2>3. st \in [Procs -> States]
      BY DEF SchedInv, TypeOK, process_exit, States
    <2> HIDE DEF n, st
    <2>4. ASSUME NEW p \in Procs, state'[p] = "READY"
          PROVE  p # n /\ passed'[p] = {n}
      BY <2>1, <2>2, <2>3, <2>4 DEF NoHistory
    <2>5. \A p \in Procs : Distance(p, n) <= Distance(p, n)
      BY <2>1, SchedulerAssumption DEF Distance, Procs
    <2> QED
      BY <1>0, <2>1, <2>2, <2>4, <2>5 DEF RoundRobinInv, Distance
  <1> QED
    BY <1>2, <1>3, Zenon

\* Round robin, for every number of slots: between two exits, schedule and
\* yield dispatch no process twice while another one waits.
LEMMA SafeRoundRobin == Init /\ [][Next]_vars => OvertakenOnce
  <1> DEFINE Inv == SchedInv /\ RoundRobinInv
             Step == schedule \/ yield =>
                       \A p \in Procs : (state[p] = "READY" /\ state'[p] = "READY") =>
                         current_proc' = current_proc \/ current_proc' \notin passed[p]
  <1>1. Init => Inv
    BY SchedulerAssumption DEF Init, SchedInv, TypeOK, CurrentIsRunning, RoundRobinInv, NULL, Procs
  <1>2. Inv /\ [Next]_vars => Inv' /\ [Step]_vars
    <2> SUFFICES ASSUME Inv, [Next]_vars PROVE Inv' /\ [Step]_vars
      OBVIOUS
    <2>0. Step
      BY SwitchRound
    <2>1. CASE create_process
      <3>1. SchedInv'
        BY <2>1, CreateKeeps
      <3>2. current_proc' = current_proc
        BY <2>1 DEF create_process
      <3>3. \A p \in Procs : \/ passed'[p] = {}
                             \/ state'[p] = state[p] /\ passed'[p] = passed[p]
        BY <2>1, FreeSlotFacts DEF create_process, SchedInv, TypeOK
      <3>4. RoundRobinInv'
        <4> SUFFICES ASSUME NEW p \in Procs, state'[p] = "READY", passed'[p] # {}
                     PROVE  /\ current_proc' # NULL
                            /\ \A q \in passed'[p] :
                                 q # p /\ Distance(p, q) <= Distance(p, current_proc')
          BY DEF RoundRobinInv, Distance
        <4>1. state[p] = "READY" /\ passed'[p] = passed[p]
          BY <3>3
        <4>2. /\ current_proc # NULL
              /\ \A q \in passed[p] : q # p /\ Distance(p, q) <= Distance(p, current_proc)
          BY <4>1 DEF RoundRobinInv
        <4> QED
          BY <3>2, <4>1, <4>2
      <3> QED
        BY <2>0, <3>1, <3>4
    <2>2. CASE schedule \/ yield
      BY <2>0, <2>2, SwitchKeeps, SwitchRound
    <2>4. CASE process_exit
      BY <2>0, <2>4, SwitchKeeps, ExitRound
    <2>3. CASE UNCHANGED vars
      BY <2>3 DEF vars, SchedInv, TypeOK, CurrentIsRunning, RoundRobinInv, Distance
    <2> QED
      BY <2>1, <2>2, <2>3, <2>4 DEF Next
  <1> QED
    BY <1>1, <1>2, PTL DEF OvertakenOnce

\* While a process waits, the scan of schedule dispatches no other one twice,
\* unless a process exits in between, for every number of slots.
THEOREM RoundRobin == Spec => OvertakenOnce
  BY SafeRoundRobin, PTL DEF Spec

-----------------------------------------------------------------------------
(***************************************************************************)
(* Threads.  NeverTwice is inductive together with CurrentIsRunning; the   *)
(* thread on the CPU was created before (cpu <= born in TTypeOK), so that  *)
(* the one create_process makes is not the one that runs.                  *)
(***************************************************************************)
ThreadInv == CurrentIsRunning /\ NeverTwice

\* create_process: the new thread is younger than every other one.
LEMMA CreateThreads ==
    ASSUME ThreadInv, TCreate
    PROVE  ThreadInv'
  <1>1. SchedInv /\ SchedInv'
    BY CreateKeeps DEF ThreadInv, NeverTwice, SchedInv, TCreate
  <1>2. CASE SlotsLeft
    <2> DEFINE f == FreeSlot
    <2>1. f \in Procs
      BY <1>2, FreeSlotFacts
    <2>2. /\ state' = [state EXCEPT ![f] = "READY"]
          /\ born < MAX_THREADS /\ born' = born + 1 /\ cpu' = cpu
          /\ frame' = [frame EXCEPT ![f] = born + 1]
          /\ own' = [own EXCEPT ![f] = born + 1]
      BY <1>2 DEF TCreate, create_process
    <2> HIDE DEF f
    <2>3. /\ frame \in [Procs -> ThreadIds \cup {NULL}] /\ own \in [Procs -> ThreadIds \cup {NULL}]
          /\ cpu \in ThreadIds /\ born \in ThreadIds /\ cpu <= born
          /\ state \in [Procs -> States]
          /\ \A p \in Procs : /\ state[p] # "UNUSED" => frame[p] # NULL
                              /\ frame[p] <= born /\ own[p] <= born
      BY DEF ThreadInv, NeverTwice, TTypeOK, TypeOK, States
    <2>4. born + 1 \in ThreadIds /\ born + 1 # NULL
      BY <2>2, <2>3, ThreadsAssumption DEF ThreadIds, NULL
    <2>5. cpu' <= born'
      BY <2>2, <2>3, ThreadsAssumption DEF ThreadIds
    <2>6. TTypeOK'
      BY <2>1, <2>2, <2>3, <2>4, <2>5, ThreadsAssumption DEF TTypeOK, ThreadIds, NULL, States
    <2>7. ASSUME NEW p \in Procs, NEW q \in Procs, state'[p] = "READY", state'[q] = "READY"
          PROVE  frame'[p] # cpu' /\ (p # q => frame'[p] # frame'[q])
      <3>1. /\ state[p] = "READY" \/ p = f
            /\ state[q] = "READY" \/ q = f
        BY <2>2, <2>3, <2>7
      <3>2. \A r \in Procs : frame[r] # born + 1
        BY <2>3, ThreadsAssumption DEF ThreadIds, NULL
      <3>3. cpu # born + 1
        BY <2>3, ThreadsAssumption DEF ThreadIds
      <3> QED
        BY <2>1, <2>2, <2>3, <3>1, <3>2, <3>3 DEF ThreadInv, NeverTwice, Ready
    <2> QED
      BY <1>1, <2>6, <2>7 DEF ThreadInv, NeverTwice, SchedInv, Ready
  <1>3. CASE ~SlotsLeft
    <2>1. UNCHANGED <<state, cpu, frame, own, born>>
      BY <1>3 DEF TCreate, create_process
    <2> QED
      BY <1>1, <2>1 DEF ThreadInv, NeverTwice, SchedInv, TTypeOK, Ready
  <1> QED
    BY <1>2, <1>3

\* What schedule and yield do to the states, as far as the threads are
\* concerned: only the current process becomes READY, and the next one was
\* READY or is the current one.
LEMMA SwitchEffect ==
    ASSUME SchedInv, schedule \/ yield
    PROVE  /\ \A p \in Procs : state'[p] # "UNUSED" => state[p] # "UNUSED"
           /\ \A p \in Procs : state'[p] = "READY" => state[p] = "READY" \/ p = current_proc
           /\ current_proc # NULL =>
                /\ current_proc' \in Procs
                /\ state[current_proc'] = "READY" \/ current_proc' = current_proc
  <1>1. CASE schedule
    <2>1. Dispatch(state, current_proc, passed)
      BY <1>1 DEF schedule
    <2>2. /\ state \in [Procs -> States] /\ current_proc \in Procs \cup {NULL}
          /\ \A p \in Procs : state[p] = "RUNNING" => p = current_proc
          /\ current_proc # NULL => state[current_proc] # "UNUSED"
      BY DEF SchedInv, TypeOK, CurrentIsRunning, States
    <2> QED
      BY <1>1, <2>1, <2>2, DispatchFacts
  <1>2. CASE yield
    <2> DEFINE st == [state EXCEPT ![current_proc] = "READY"]
    <2>1. Dispatch(st, current_proc, passed) /\ current_proc \in Procs
      BY <1>2 DEF yield, SchedInv, TypeOK
    <2>2. /\ st \in [Procs -> States]
          /\ \A p \in Procs : st[p] = "RUNNING" => p = current_proc
          /\ st[current_proc] # "UNUSED"
          /\ \A p \in Procs : st[p] = state[p] \/ p = current_proc
          /\ state[current_proc] # "UNUSED"
      BY <2>1 DEF SchedInv, TypeOK, CurrentIsRunning, States
    <2> HIDE DEF st
    <2>3. /\ \A p \in Procs : state'[p] = "READY" => (st[p] = "READY" \/ p = current_proc)
          /\ \A p \in Procs : state'[p] = "UNUSED" <=> st[p] = "UNUSED"
          /\ \/ current_proc' = current_proc
             \/ current_proc' \in Procs /\ st[current_proc'] = "READY"
      BY <2>1, <2>2, DispatchFacts
    <2> QED
      BY <2>1, <2>2, <2>3
  <1> QED
    BY <1>1, <1>2

\* process_exit makes no process READY.
LEMMA ExitEffect ==
    ASSUME SchedInv, process_exit
    PROVE  /\ \A p \in Procs : state'[p] # "UNUSED" => state[p] # "UNUSED"
           /\ \A p \in Procs : state'[p] = "READY" => state[p] = "READY"
  <1> DEFINE st == [state EXCEPT ![current_proc] = "UNUSED"]
  <1>0. NULL \notin Procs
    BY SchedulerAssumption DEF NULL, Procs
  <1>1. Dispatch(st, NULL, NoHistory) /\ current_proc \in Procs
    BY DEF process_exit, SchedInv, TypeOK
  <1>2. /\ st \in [Procs -> States]
        /\ \A p \in Procs : st[p] # "RUNNING"
        /\ \A p \in Procs : p # current_proc => st[p] = state[p]
        /\ st[current_proc] = "UNUSED"
    BY <1>1 DEF SchedInv, TypeOK, CurrentIsRunning, States
  <1> HIDE DEF st
  <1>3. /\ \A p \in Procs : state'[p] = "READY" => (st[p] = "READY" \/ p = NULL)
        /\ \A p \in Procs : state'[p] = "UNUSED" <=> st[p] = "UNUSED"
    BY <1>1, <1>2, DispatchFacts
  <1> QED
    BY <1>0, <1>1, <1>2, <1>3

\* schedule and yield: with a current process the frame of prev takes the
\* thread of the CPU and the CPU the thread of next's frame, so the threads
\* that can go on are the same ones in other places.
LEMMA RescheduleThreads ==
    ASSUME ThreadInv, Reschedule
    PROVE  ThreadInv'
  <1>1. SchedInv /\ SchedInv'
    BY SwitchKeeps DEF ThreadInv, NeverTwice, SchedInv, Reschedule
  <1>2. /\ \A p \in Procs : state'[p] # "UNUSED" => state[p] # "UNUSED"
        /\ \A p \in Procs : state'[p] = "READY" => state[p] = "READY" \/ p = current_proc
        /\ current_proc # NULL =>
             /\ current_proc' \in Procs
             /\ state[current_proc'] = "READY" \/ current_proc' = current_proc
    BY <1>1, SwitchEffect DEF Reschedule
  <1>3. /\ frame \in [Procs -> ThreadIds \cup {NULL}]
        /\ cpu \in ThreadIds /\ born \in ThreadIds /\ cpu <= born
        /\ own \in [Procs -> ThreadIds \cup {NULL}]
        /\ current_proc \in Procs \cup {NULL}
        /\ \A p \in Procs : /\ state[p] # "UNUSED" => frame[p] # NULL
                            /\ frame[p] <= born /\ own[p] <= born
        /\ \A p, q \in Procs : (state[p] = "READY" /\ state[q] = "READY") =>
             frame[p] # cpu /\ (p # q => frame[p] # frame[q])
    BY DEF ThreadInv, NeverTwice, TTypeOK, TypeOK, Ready
  <1>4. CASE current_proc = NULL
    <2>1. UNCHANGED <<cpu, frame, own, born>> /\ NULL \notin Procs
      BY <1>4, SchedulerAssumption DEF Reschedule, ctx, Procs, NULL
    <2> QED
      BY <1>1, <1>2, <1>3, <1>4, <2>1 DEF ThreadInv, NeverTwice, SchedInv, TTypeOK, Ready
  <1>5. CASE current_proc # NULL
    <2> DEFINE c == current_proc
               n == current_proc'
    <2>1. /\ c \in Procs /\ n \in Procs
          /\ state[n] = "READY" \/ n = c
          /\ state'[n] = "RUNNING" /\ state[n] # "UNUSED"
      BY <1>1, <1>2, <1>3, <1>5 DEF SchedInv, CurrentIsRunning
    <2>2. /\ frame' = [frame EXCEPT ![c] = cpu]
          /\ cpu' = frame'[n] /\ own' = own /\ born' = born
      BY <1>5, Zenon DEF Reschedule, context_switch
    <2> HIDE DEF c, n
    <2>3. cpu # NULL
      BY <1>3, ThreadsAssumption DEF ThreadIds, NULL
    <2>4. TTypeOK'
      BY <1>2, <1>3, <2>1, <2>2, <2>3 DEF TTypeOK
    <2>5. ASSUME NEW p \in Procs, NEW q \in Procs, state'[p] = "READY", state'[q] = "READY"
          PROVE  frame'[p] # cpu' /\ (p # q => frame'[p] # frame'[q])
      <3>1. p # n /\ q # n
        BY <2>1, <2>5
      <3>2. /\ state[p] = "READY" \/ p = c
            /\ state[q] = "READY" \/ q = c
        BY <1>2, <2>5 DEF c
      <3> QED
        BY <1>3, <2>1, <2>2, <3>1, <3>2
    <2> QED
      BY <1>1, <2>4, <2>5 DEF ThreadInv, NeverTwice, SchedInv, Ready
  <1> QED
    BY <1>4, <1>5

\* NeverTwice in every state that the calls of kernel.c reach, for any number
\* of slots and processes: no thread, kernel_main included, can go on from two
\* places, although the schedule of process_exit resumes nobody.
THEOREM ThreadsSafe == TSpec => [](NeverTwice /\ CurrentIsRunning)
  <1>1. TInit => ThreadInv
    BY SchedulerAssumption, ThreadsAssumption
    DEF TInit, Init, ThreadInv, NeverTwice, CurrentIsRunning, TypeOK, TTypeOK,
        Ready, Boot, ThreadIds, NULL, Procs
  <1>2. ThreadInv /\ [TNext]_<<vars, ctx>> => ThreadInv'
    <2> SUFFICES ASSUME ThreadInv, [TNext]_<<vars, ctx>>
                 PROVE  ThreadInv'
      OBVIOUS
    <2>1. CASE TCreate
      BY <2>1, CreateThreads
    <2>2. CASE Reschedule
      BY <2>2, RescheduleThreads
    <2>3. CASE TExit
      <3>1. SchedInv /\ SchedInv'
        BY <2>3, SwitchKeeps DEF ThreadInv, NeverTwice, SchedInv, TExit
      <3>2. /\ \A p \in Procs : state'[p] # "UNUSED" => state[p] # "UNUSED"
            /\ \A p \in Procs : state'[p] = "READY" => state[p] = "READY"
        BY <2>3, <3>1, ExitEffect DEF TExit
      <3>3. UNCHANGED <<cpu, frame, own, born>>
        BY <2>3 DEF TExit, ctx
      <3> QED
        BY <3>1, <3>2, <3>3 DEF ThreadInv, NeverTwice, SchedInv, TTypeOK, Ready
    <2>4. CASE UNCHANGED <<vars, ctx>>
      BY <2>4 DEF vars, ctx, ThreadInv, NeverTwice, CurrentIsRunning, TypeOK, TTypeOK, Ready
    <2> QED
      BY <2>1, <2>2, <2>3, <2>4 DEF TNext
  <1>3. ThreadInv => NeverTwice /\ CurrentIsRunning
    BY DEF ThreadInv
  <1> QED
    BY <1>1, <1>2, <1>3, PTL DEF TSpec

\* The same with the thread that really runs: what context_switch does to the
\* frames does not disturb the order of the scan.
THEOREM ThreadsRoundRobin == TSpec => OvertakenOnce
  <1>1. TInit => Init
    BY DEF TInit
  <1>2. [TNext]_<<vars, ctx>> => [Next]_vars
    BY DEF TNext, TCreate, Reschedule, TExit, Next
  <1> QED
    BY <1>1, <1>2, SafeRoundRobin, PTL DEF TSpec

=============================================================================
