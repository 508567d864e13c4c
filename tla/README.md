# A TLA+ verification of fru1t-os

fru1t-os is a small kernel for 32-bit RISC-V, about 3,900 lines of C and
assembler without its tests. These modules model its parts, TLC checks them on
small instances, and TLAPS proves for every size what matters most about the heap,
both schedulers, the register switch, the trap path with the console, the RAM file
system, the shell and the files and blocks of the i-node file system. All line
numbers refer to `src/`.

Check a run with `tlc -config X.cfg M` (the pairs are listed under *Runs*) and
the proofs of a module with `tlapm M.tla`; the proofs are in the modules whose
names end in `Proofs`.

## 1. The system

The kernel is one thread of control on one hart. It has no user mode and no
preemption. `kernel_main` clears bss, initialises the parts, runs the tests of
`test_features.c` and `test_btree_fs.c` and halts. `stvec` and the interrupt
enable register of the UART are never written, and nobody calls
`input_buffer_get`, so the trap path and the input buffer are code that waits for
its installer. The models therefore do not
follow that one boot sequence: each part is checked under every sequence of
calls that its interface allows.

| part | state | operations | source |
|---|---|---|---|
| heap | block headers in `heap[]`, `free_list` | `memory_init`, `kmalloc`, `kfree` | kernel.c 242-300 |
| round-robin scheduler | `processes[]`, `current_proc` | `create_process`, `schedule`, `yield`, `process_exit` | kernel.c 49-136 |
| register switch | registers, `trap_frame` of each process | `context_switch`; `switch_context` | kernel.c 138-210; asm 80-121 |
| trap path | registers, frame on the stack, `sepc`, `sscratch` | `kernel_entry`, `handle_trap` | asm 141-215; kernel.c 27-47 |
| red-black tree | root, and parent, children and colour of each node | `rb_insert_color`, `rb_erase`, `rb_first`, `rb_next` | rbtree.c |
| CFS | run queue, `min_vruntime`, `cfs_current`, per-task entity | `cfs_create_process`, `cfs_scheduler_tick` and what they call | cfs.c |
| RAM file system | `fs.files[]`, buffers in the heap | `fs_create`, `fs_write`, `fs_read`, `fs_delete` | kernel.c 408-524 |
| shell | the line, its words in heap buffers | `shell_run` down to `cmd_create`, `cmd_delete` | kernel.c 570-756 |
| descriptor table | `global_fd_table` | `fd_alloc`, `fd_get`, `fd_close`, `fd_poll` | fd.c |
| epoll | instances, items in a tree | `epoll_create`, `epoll_ctl`, `epoll_wait`, `epoll_close` | epoll.c |
| B-tree | nodes from the heap | `btree_insert`, `btree_search`, `btree_delete`, `btree_traverse`, `btree_destroy` | btree.c |
| i-node file system | bitmaps, i-node table, two B-trees, blocks | `inode_*`, `block_*`, `btree_fs_*` | inode.c |
| UART and input buffer | ring buffer, receiver flag | `input_buffer_*`, `uart_*`, `getchar_blocking` | kernel.c 758-854 |
| common library | none | `printf`, string helpers | common.c |

How they interact: the heap serves the RAM file system, the shell, epoll, the
B-tree and the i-node file system. The red-black tree serves CFS and epoll. The
round-robin scheduler calls the register switch. epoll polls descriptors, and a
descriptor may have the UART behind it. The trap path feeds the input buffer.

What is hard about it:

- the heap changes its list while it walks it, and coalesces in one pass only;
- a schedule that follows an exit does not switch, though the bookkeeping says
  it did;
- the register switch overwrites the registers it works with;
- the tree repairs have shapes that appear only in trees of ten nodes;
- cached pointers (`rb_leftmost`), counters and `min_vruntime` must follow every
  change of the queue, half of it made inside other functions;
- words, files and items share one heap and are freed by different code;
- descriptors are closed behind the back of epoll;
- the split of a B-tree node reads past the end of its arrays;
- the i-node file system ignores what its B-trees return;
- an interrupt may fall between the test of a flag or counter and its use;
- `kmalloc` may fail at every call.

`PROJECT.json` lists these hazards with their lines and the properties that
cover them.

## 2. The modules

Abstraction: control is kept, loop iteration by loop iteration where the loop
changes shared state; data is reduced to what the properties distinguish.
Definitions have the names of the source where one definition is one function.
Definitions whose comment begins with *Mutant* are faulty versions of their
neighbours; nothing uses them, and each breaks a property when it replaces the
definition it imitates.

**HeapAbs, Heap, HeapProofs.** `HeapAbs` is what callers rely on: a function
`live` from pointers to sizes. An allocation adds a range that overlaps no
other, or fails; a free removes one. `Heap` models the list. `blk` maps the
offset of each header to its fields, `pc`, `current` and `req` are the control
state of the call in progress, and each action is one loop iteration of `kmalloc`
(`kmalloc_take`, `_next`, `_fail`) or `kfree` (`kfree_merge`, `_next`, `_done`).
Sizes are computed modulo `WORD`. Callers free only what they hold.

**RbTree, StableQueue, TimelineAbs, Timeline.** `RbTree` has the operations of
rbtree.c as operators from trees to trees, with one definition for each pair of
mirrored cases. `Timeline` uses them as `cfs_enqueue_task` and
`cfs_dequeue_task` do, with the cached `rb_leftmost`. `TimelineAbs` is a
sequence of tasks sorted by key, where a new task goes behind its equals.

**Cfs, CfsProofs.** The scheduler over that sequence (`StableQueue` holds its operators).
The three outcomes of `cfs_scheduler_tick` are the actions `TickIdle`, `TickKeep`
and `TickPreempt`. `get_time_ns` advances its counter by one tick at every call.
The difference of two vruntimes is modulo `U64`, the scaled delta modulo `U32`.

**Scheduler, Threads, SchedulerProofs.** `Scheduler` is the bookkeeping:
process states, `current_proc` and the scan of `schedule`. `passed` is a history
variable: who was dispatched while a process waits, since it became `READY` or
since the last exit. `Threads` extends it with the thread of control that really runs:
`frame[p]` is the thread that the frame of `p` would resume, `own[p]` the one
made for it. `schedule` calls `context_switch` only if there was a current
process, and the model does the same.

**ContextSwitch, ContextSwitchProofs.** One store or one load per step. A routine is a record of the
registers it stores, those it loads and those that may hold the base address of
the loads. MCContextSwitch has both routines of the kernel: `context_switch` with
the registers of the frame and any of them as base, and `switch_context` with
`ra`, `s0`-`s11` and the base `sp`. That the address of the stores is in a
register too is left out: the stores only read it.

**Trap, Console, ConsoleProofs.** `Trap` is `kernel_entry` store by store, `handle_trap` with its
causes, the loads and `sret`. The C code of the handler may change every
caller-saved register. `TakeTrap`, the processor's part, is external. `Console`
composes it with the code that is interrupted: `input_buffer_get` in three steps
(test, take, `count--`) and `getchar_blocking` in three (firmware, test of the
receiver, read), followed by the line editing of `shell_run`. The handler reads
the receiver into the ring buffer in between. Keys are numbers in the order of
typing. The receiver, `Type`, is external and holds one key. `raced` counts how
often the handler came at one of the two bad moments, so that the properties can
say what is true without such a moment and how little is lost with it.

**FsAbs, FileSystem, Numbers, Shell, ShellProofs.** `FsAbs` is a map from names to
contents. In `FileSystem` the table of files refers to buffers of `HeapAbs`, whose bytes are
in `mem`. `kmalloc` may hand out any free range, or none, at every call. `Shell`
extends it with the words of the command being executed, one buffer each.
A word that gets no buffer is copied to address 0 by the code; the model ends
there, in `pc = "fault"`. `Numbers` has `str_to_int`, with which `create` reads
its size, and the number formats of `printf`, over words of a given width.

**Fd, EpollAbs, Epoll.** `Fd` is the descriptor table with a UART that has a
receiver flag; the kernel allocates descriptors of no other kind. `Epoll` has
instances whose items are the nodes of `RbTree` trees and come from a pool that
stands for the heap; `kmalloc` may fail there too. `EpollAbs` is one map per
instance from descriptors to what is asked of them. `Waited` is what a call of
`epoll_wait` returns; a character may arrive before any of its polls.

**BTree, BTreeWalk, BTreeAbs, BTreeMap.** `BTree` has the functions of btree.c as
operators on a memory of nodes, `BTreeWalk` its recursive walks. A node is the array of words that the struct is in memory,
so that an index past the end of one array names the first word of the next
field, which is what the code reads there. `kmalloc` succeeds as long as the call
has `room`. `BTreeMap` is one tree with its calls and, in `dict`, what the callers
were told; `BTreeAbs` is the map that they rely on. `state` records that a split
failed inside a call or that a walk has no end; the model stops there.

**Inodes, InodeFs, InodesProofs, InodeFsProofs.** `Inodes` has the i-node table, the blocks, the bitmaps and
the counters, with allocation, reading, writing and truncation. `InodeFs` adds the
two B-trees, which share the memory of nodes, and the calls `btree_fs_create`,
`btree_fs_write`, `btree_fs_delete` and the truncation of an open file. The code
ignores what the trees return; `lost` records the i-nodes that this leaves
without a name or without an index entry. `files` and `number` are histories of the
bytes that a name was given and of the i-node it was created with. The model stops
when the removal of a name was refused and ignored.

## 3. Runs

| run | module, config | instance | states |
|---|---|---|---|
| heap | MCHeap, MCHeap.cfg | 104 bytes, requests 0, 1, 9, 20 | 32,552 |
| timeline | MCTimeline, MCTimeline.cfg | ten tasks, some with equal keys | 24,313 |
| cfs | MCCfs, MCCfs.cfg | three slots, nice -5, 0, 5, twelve clock ticks | 3,053 |
| threads | MCThreads, MCThreads.cfg | four slots, six threads | 34,304 |
| context_switch | MCContextSwitch, MCContextSwitch.cfg | two processes, both routines, all registers, every base | 44,870 |
| trap | MCConsole, MCConsole.cfg | a frame with each kind of register, every cause, four keys, buffer and line of two | 430,000 |
| file_system | MCFileSystem, MCFileSystem.cfg | two slots, three names, four bytes | 4,720 |
| shell | MCShell, MCShell.cfg | commands that succeed or fail in each way | 177,097 |
| epoll | MCEpoll, MCEpoll.cfg | two instances, three descriptors, three items | 23,040 |
| btree | MCBTree, MCBTree.cfg | order 5, eight keys, any allocation fails | 24,215 |
| inode_fs | MCInodeFs, MCInodeFs.cfg | three files, three i-nodes, three blocks, order 3 | 12,088 |

Why the bounds suffice for what is asked:

- *heap*: five blocks fit, so that a block with free neighbours on both sides can
  be freed while another free pair remains, the worst case of a pass of `kfree`;
  the requests round to 0, 8, 16 and 24 and leave a tail that is too small to split.
- *timeline*: the repair after a removal first climbs two levels in a tree of ten.
- *cfs*: every process is preempted and runs again; three weights, of which one
  is `NICE_0_LOAD`. The unit of time is 1000 ns, and `U32` is scaled with it.
  `U64` only has to exceed all values reached.
- *threads*: with four slots processes can wait on both sides of the current one,
  and slots are reused after an exit. The kernel has eight slots; the proofs
  cover every number.
- *file_system*, *shell*: table, heap and size limit can all be exhausted, and a
  freed range is handed out again at another size.
- *epoll*: items outlive descriptors, and the pool runs out of items; with three
  descriptors the tree rotates and `epoll_wait` has more events than it may return.
  Items are interchangeable, so symmetry over them is sound for these safety properties.
- *trap*: six registers stand for the 31, one for each way in which the entry code
  and the handler treat them. Four keys fill the buffer and wrap around both
  positions, and an interrupt can come inside two calls of `input_buffer_get`.
- *shell*: `PrintedRight`, an assumption of MCShell that TLC evaluates, compares
  `Numbers` with its reference definitions on every value of a 12-bit word.
- *btree*: eight keys split a leaf and one of its halves again, in every order of
  insertions and deletions. The order is the kernel's. The first split of an inner
  node needs more keys; `AscendingFound`, an assumption of MCBTree, evaluates
  ascending insertions of up to 26.
- *inode_fs*: three names split the root of a tree of order 3; i-nodes, blocks and
  tree nodes can all run out, in the middle of a call too.

What they show:

- **heap.** The blocks tile `heap[]` after every step, and callers and list agree
  on what is allocated (both in `HeapInv`). Payloads are disjoint, live blocks
  stay put, `kmalloc` is first-fit and fails only when no block suits, every call
  returns, and the list implements `HeapAbs`. `kfree` does not coalesce fully,
  but between calls at most one pair of free neighbours exists (`OneFreePair`).
- **timeline.** Balance, links, the cached leftmost node and iteration survive
  all insertions and removals, and the tree is the stable queue of `Cfs`.
- **cfs.** Queue, states, counters and cache agree; every charge is one tick, so
  the 32-bit product does not wrap; no time is charged twice; `min_vruntime`
  never overtakes everyone; each dispatch picks the least vruntime, and a task is
  preempted exactly if it is ahead by more than the granularity or is behind.
- **threads.** Exactly the current process is `RUNNING`. Between exits nobody is
  dispatched twice while another waits, and once exits stop every ready process
  runs. No thread can be resumed from two places.
- **context_switch.** The stores are complete. The loads are right up to the one
  that overwrites their base; in `switch_context` there is none, and it restores
  all it names.
- **trap.** A trap is invisible to the interrupted code and resumes behind an
  `ecall` and at the same instruction after an interrupt. The ring buffer delivers
  the keys in order and drops them only when it is full, unless a key arrives
  during a get; then `count` is too small by at most one for each such key, and
  never too large. No key is lost except to a full receiver or buffer, and none is
  delivered twice unless the handler comes between the test and the read of
  `getchar_blocking`.
- **file_system.** The table implements a map, names are unique, and each buffer
  has one owner, whichever allocations fail.
- **shell.** No command leaks a buffer, mixes words with files, or changes the
  contents of a file; every command comes to an end.
- **epoll.** Items are allocated and freed in pairs, searches find
  every item, the instances are independent maps, and `epoll_wait` reports exactly
  the events that were asked for and that the polls returned, in order.
- **btree.** With keys below all addresses the words that a split copies from past
  the arrays are never met by a search, and the tree is a map. Up to height 2 a
  walk comes to each node once, in order.
- **inode_fs.** Until a refused removal is ignored, files read back what was
  written, every block and i-node has one owner, and the counters agree. A failed
  insertion that `btree_fs_create` ignores harms only the file being created.

Fairness is assumed in four places. `Heap`: a loop that has begun goes on, since
nothing preempts it. `Console`: likewise for the trap path, where interrupts are
masked; nobody is obliged to type or to read. `Shell`: a command that has begun
goes on; users are not obliged to type one. `Scheduler`: the running code gives up
the CPU again and again. The kernel does not enforce this last one, as no timer
reaches the scheduler; `process_a`, `process_b` and `process_c` (kernel.c 212-240)
do it by calling `yield` in their loops until they exit, and `EveryReadyRuns` is
about the time after the last exit.

Deadlock is checked everywhere except in MCShell.cfg, where `exit`
and the fault end the program.

## 4. Where documentation and code differ

One run ends in a violation: threads_kept (MCThreads, ThreadsKept.cfg) checks
`ContextsKept`, "complete context switching" (README.md:148). Without a previous
process nothing is switched, and the next switch saves the wrong thread.

Other differences that follow from the models and have no run of their own:

- "preempt when the difference exceeds the granularity" (cfs.c:220): the unsigned
  difference wraps when the current task is behind, and it is preempted then too
  (`PicksLeast` says exactly when);
- "including register preservation" (README.md:148): the loads of
  `context_switch` overwrite their base register (`RightUpToBase` says what is
  restored);
- "8-byte aligned allocation" (README.md:153): sizes are rounded to 8, but the
  header has 12 bytes, so the offset of a payload is a multiple of 4 only;
- "the higher the more CPU" (cfs.h:18): as the difference wraps, tasks alternate
  whatever their weights;
- "the tree's minimum vruntime" (cfs.h:26): `min_vruntime` can exceed the smallest
  key in the tree;
- "round-robin scheduler" (README.md:146): an exit makes the scan start over at
  slot 0, so exits that never end can starve a high slot. `OvertakenOnce` and
  `EveryReadyRuns` say what remains of round robin;
- "the descriptor being monitored" (epoll.h:32): an item outlives its descriptor,
  and `epoll_ctl` then refuses to remove it; `epoll_wait` skips it until another
  descriptor gets the number;
- a B-tree is a map only for keys below all addresses, as i-node numbers are and
  the hashes of most names are not: the key that a split copies from past the
  array is then an address below the keys, and a search goes the wrong way;
- the split of an inner node, which fourteen ascending keys bring about, copies the
  parent as a child; `btree_traverse` and `btree_destroy` then have no end
  (`AscendingFound`);
- a split without memory returns silently (btree.c:70), and the insertion goes on
  into the full node;
- `btree_delete` refuses keys of inner nodes; `btree_fs_delete` ignores that
  (inode.c:420), and the name then leads to a free i-node;
- names with equal hashes are one file (inode.c:345);
- `inode_free` frees the first `block_count` slots, so a file with holes would
  keep blocks; no caller writes one;
- `count--` of `input_buffer_get` against the handler's `count++`, and the test
  and read of `getchar_blocking` against its read, are not atomic: see `trap`;
- `sbi_console_getchar` calls SBI function 1, which in the legacy numbering is the
  output of a character; the model lets it return a key or none;
- the trap frame of a process lies at the top of its own stack and its stack
  pointer starts above the frame (kernel.c:84), so its calls overwrite the frame.

## 5. Proofs

The theorems hold for all values of the constants that satisfy the named
assumptions, which TLC evaluates in the runs.

| module | theorems | property | assumptions |
|---|---|---|---|
| HeapProofs | HeapInvariance, TypeCorrect, NoOverlap | `HeapInv`, `PayloadsDisjoint` | HeapAssumption, RequestAssumption |
| | KmallocFirstFit, LiveBlocksKept, AtMostOneFreePair | `FirstFit`, `LiveBlocksStable`, `OneFreePair` | |
| | HeapRefinesAbs | `AbsSpec` (HeapAbs) | |
| SchedulerProofs | SchedulerSafe, RoundRobin | `CurrentIsRunning`, `OvertakenOnce` | SchedulerAssumption |
| | ThreadsSafe, ThreadsRoundRobin | `NeverTwice`, `OvertakenOnce` | and ThreadsAssumption |
| ContextSwitchProofs | SwitchSaves, SwitchLoads | `SavesAll`, `RightUpToBase` | RoutinesAssumption |
| ConsoleProofs | TrapSafe | `TrapTransparent` | TrapAssumption |
| | BufferSafe, KeysSafe | `BufferKept`, `KeysAccounted` | ConsoleAssumption |
| ShellProofs | FilesUnique, BuffersSafe | `NamesUnique`, `BuffersOwned` | FileSystemAssumption, NamesAssumption |
| | FilesImplement | `AbsSpec` (FsAbs) | |
| | ShellLeaksNothing, ShellKeepsFiles | `NothingLeaks`, `FilesKept` | and ShellAssumption, LinesAssumption |
| InodeFsProofs | FilesReadBack, BlocksSafe | `FilesRead`, `BlocksOwned`, both if always `TreesRight` | InodesAssumption, InodeFsAssumption |
| CfsProofs | CfsQueueSafe, CfsChargesOnce, CfsMinReached | `QueueInv`, `NoDoubleCharge`, `MinVruntimeReached` | CfsAssumption, WidthAssumption |
| | CfsPicksLeast | `PicksLeast` | |

**Heap.** The assumptions: there is room for one header, `size_t` can hold the
size of the heap, no request wraps when it is rounded.
`HeapInvariance` proves `HeapInv`. `Tiling` is not inductive alone: a split is
harmless only because blocks do not overlap (`Disjoint`), a merge only because
callers hold no free block (`Ownership`), and both only because the cursor is on
a header that still exists (`CursorInList`). `WalkRejects`, that every block
behind the cursor of `kmalloc` was unsuitable, makes first-fit provable. From it
follow the other theorems. `AtMostOneFreePair` needs `PassInv` as well: a pass
starts with at most three free pairs, and leaves one behind only where it meets
two in a row.

**Scheduler and threads** (at least one slot). `SchedulerSafe` proves
`TypeOK` and `CurrentIsRunning`, which are inductive together. `RoundRobin` proves
`OvertakenOnce` from `RoundRobinInv`: whoever was dispatched while `p` waits lies
on the way from `p` to the current process. An exit breaks this, because the next
scan starts at slot 0; therefore the histories start over there. `ScanGoesForward`
is its arithmetic: if the scan meets `n` before `p`, then `n` is strictly farther
from `p` than the current process is. `ThreadsSafe` rests on the numbering of
threads: a thread just created has a number above all that are in frames or on the
CPU, and a switch only exchanges the two ends of what it moves.

**Register switch.** A routine is any list of stores and any list of loads that
loads no register twice and none that was not stored. `SwitchInv` says that the part
of the stores already done is in the frame, and that the part of the loads already
done is in the registers, up to the load that overwrites the base; from there on
nothing is claimed.

**Trap path and console.** The frame is any list of registers with `sp` as its last.
`TrapInv` says for each phase of `kernel_entry` where the values of the interrupted
code are: in the registers, in the part of the frame already stored, and that of `sp`
in `sscratch`; and on the way back which part is loaded already. For the ring
buffer, `BufferInv` relates the number of keys put and taken to `count`, including the copy of
`count` that an interrupted `count--` will store; this is what a key that arrives
during a get changes. The positions are those numbers modulo the size of the
buffer, and two unread keys are less than that size apart, so their cells differ.
`KeysInv` needs that a key in the receiver is younger than all keys delivered.

**RAM file system and shell.** Sizes, names, bytes and the number of slots are
arbitrary; file names are any set, the heap is the abstract one that
`HeapRefinesAbs` is about. `FsInv` says that ranges handed out do not overlap, that
files own different ones, and that everything else of the heap (`Others`) is not a
file's. It is stated for a heap with other users, so that the shell can use it: there
`Others` are the words. That a write to a word or a file leaves all other
contents alone follows from the disjoint ranges (`ContentsApart`).
`LinesAssumption` says that the names in a command line are file names and that its
numbers are within `int`.

**I-node file system.** The table, the number of blocks, of slots and of bytes in a
block, the names and the data are arbitrary. Both theorems have the hypothesis that
the B-trees are right in every state (`[]TreesRight`): a name leads to the i-node it
was created with and to nothing before and after, an i-node is found by number unless
its insertion had failed. That is the promise of the trees to this part of the
kernel. It fails when two names have the same hash, or when a
tree has lost an entry. `FilesRead` contains it, so that TLC checks
it with the trees as they are; what is proved is everything that inode.c builds on it.

`FilesInv` relates the histories to the table: a name's file is the `Contents` of its
i-node, no two names have one i-node, and the i-nodes in use are those of the names
and the lost ones. A file whose i-node is not found by number is empty. Below it,
`TableInv` is about the table alone. Its part `Core` is the ownership of blocks: no
two slots hold one block, a block is marked exactly if a slot holds it, the counters
count. Its part `Fits` says that an i-node holds a block for every byte up to its
size and none behind. `Core` alone would not do: a reader stops at the first slot
without a block, so that a file reads back only because none of its slots is empty,
and a write to one file leaves the others alone only because their blocks differ
(`ByteOwned`).

The loops of `inode_write` and `inode_read` are recursive functions of the number of
rounds. `WritesExist` and `ReadsExist` unfold them; `WriteInv` and `ReadInv` are the
loop invariants: after each round the bytes done so far are in place, and either the
loop is done or the next round is in a later slot, which is why as many rounds as
there are slots are enough. A write may end early for lack of blocks; `Wrote`, the
outcome of `inode_write`, says that then exactly the bytes it reports are in the file,
which still `Fits`. `TruncateKeeps`, `DropKeeps` and `TakeKeeps` are the other
operations. `HeldCount` is the step that the counter of free blocks needs: as many
bits are cleared as slots are emptied, because the slots hold different blocks.
What the library knows of finite sets is a hypothesis of these lemmas, `SetFacts`, and
is proved in `LibraryFacts`; the theorems do not have it.

**CFS.** `CfsInv` adds to the four properties that a queued task has a positive
weight, and that no key exceeds the clock times `NICE_0_LOAD`; with the latter and
`WidthAssumption` the unsigned difference of `cfs_check_preempt_curr` is understood
(`PreemptMeans`). `EnqueueFacts` and `DequeueFacts` say what an insertion behind all
equals and a removal do to a sorted sequence and to the cached leftmost task.
`total_weight` and the time charged are sums over all processes; `SumUpdate` says how
a sum changes with one of its terms.

How sums and scans are handled: an induction is carried out on a set of numbers,
through the least element of its complement (`LeastNat`, `UpTo`), which needs no
operator as a parameter.

Only model-checked: all liveness properties (`CallsReturn`, `TrapsReturn`,
`CommandsEnd`, `EveryReadyRuns`); the red-black tree and what is built on it
(`Timeline`, `Epoll`: `WellLinked`, `StaysBalanced`, `NextVisitsAll`, `ItemsOwned`,
`SearchFinds`, `WaitReports`), which is written with recursive operators; the B-tree
(`MapKept`, `WalkComplete` and that it implements `BTreeAbs`) and with it `TreesRight`,
because they are about the shape of trees of any height, which takes an induction over
trees; and the printed numbers of `Numbers`.

## 6. Not modelled

- The stack of a process: the layout is fixed and its consequence is stated above.
- File names that do not fit their field in the RAM file system; the i-node file
  system, which tests the length, has one.
- `uart_init` and the enabling of interrupts: the model allows an interrupt at
  every instruction. `uart_putchar` and everything that only prints, such as
  listing, statistics and `btree_print`.
- The borrow and merge helpers of btree.c (196-258), the indirect blocks of an
  i-node and `alloc_pages`: nothing uses them.
- What follows a failed split, an endless walk, a refused removal of a name, or a
  copy to address 0: the models end there.
- The boot sequence, a straight line; string and memory helpers, which are
  assignments and equalities in the models; single-instruction helpers in
  asm_functions.s; the test programs.

## 7. Plan

Proofs: that an insertion and a removal keep a B-tree whose splits succeed a map from
keys to values. With it `TreesRight` would follow for names with different hashes.
