------------------------------- MODULE Epoll -------------------------------
(***************************************************************************)
(* epoll.c on top of the file descriptor table and the red-black tree.     *)
(*                                                                         *)
(* A node of the tree is a struct epoll_item from kmalloc.  kmalloc hands  *)
(* out any item that is not in use, or none.  Its revents field is written *)
(* and read within one epoll_wait only, so it is no variable here.         *)
(***************************************************************************)
EXTENDS Fd, RbTree, FiniteSets

CONSTANTS
    Insts,       \* the slots of global_epoll, numbered from 0
    Events,      \* the event masks that callers ask for
    Data,        \* the user data they pass
    MaxEvents    \* the maxevents they pass to epoll_wait

VARIABLES
    instances,   \* slot |-> struct epoll_instance
    item,        \* node |-> struct epoll_item, without rb_node
    held         \* the items that are allocated

epvars == <<instances, item, held>>
vars == <<fds, next_fd, rx_ready, instances, item, held>>

Closed == [in_use |-> FALSE, items_tree |-> RB_ROOT, num_items |-> 0]
NoItem == [fd |-> -1, events |-> {}, user_data |-> 0]   \* an item not in use

Init ==
    /\ FdInit
    /\ instances = [e \in Insts |-> Closed]
    /\ item = [n \in Nodes |-> NoItem]
    /\ held = {}

\* The first unused slot is opened; without one the call fails.
epoll_create ==
    LET free == {e \in Insts : ~instances[e].in_use}
        e    == CHOOSE x \in free : \A y \in free : x <= y
    IN  /\ instances' = IF free = {} THEN instances
                        ELSE [instances EXCEPT ![e] = [Closed EXCEPT !.in_use = TRUE]]
        /\ UNCHANGED <<fdvars, item, held>>

-----------------------------------------------------------------------------

Side(f, n) == IF f < item[n].fd THEN "left" ELSE "right"

\* epoll_find_item below n.
RECURSIVE FindFrom(_, _, _)
FindFrom(t, f, n) ==
    IF n = NULL \/ item[n].fd = f THEN n ELSE FindFrom(t, f, t.child[n][Side(f, n)])
epoll_find_item(e, f) ==
    FindFrom(instances[e].items_tree, f, instances[e].items_tree.root)

\* The node under which epoll_insert_item hangs a new item for f.  The item is
\* not in the tree: epoll_ctl has looked for it.
RECURSIVE ParentFor(_, _, _)
ParentFor(t, f, n) ==
    IF t.child[n][Side(f, n)] = NULL THEN n ELSE ParentFor(t, f, t.child[n][Side(f, n)])

\* Mutant: the item becomes the root also of a tree that has one.
InsertAsRoot(t, f, n) ==
    rb_insert_color([t EXCEPT !.root = n, !.parent[n] = NULL,
                              !.child[n] = RB_ROOT.child[n], !.color[n] = "red"], n)

epoll_insert_item(t, f, n) ==
    LET p    == ParentFor(t, f, t.root)
        leaf == [t EXCEPT !.parent[n] = IF t.root = NULL THEN NULL ELSE p,
                          !.child[n]  = RB_ROOT.child[n],
                          !.color[n]  = "red"]
    IN  rb_insert_color(IF t.root = NULL THEN [leaf EXCEPT !.root = n]
                        ELSE [leaf EXCEPT !.child[p][Side(f, p)] = n], n)

\* epoll_ctl goes on only for an open instance and an open descriptor.
CtlValid(e, f) == instances[e].in_use /\ fd_get(f)

CtlRefused(e, f) == ~CtlValid(e, f) /\ UNCHANGED <<fdvars, instances, item, held>>

\* EPOLL_CTL_ADD; nothing happens if the descriptor is present, or kmalloc
\* fails.
CtlAdd(e, f, events, data) ==
    /\ CtlValid(e, f)
    /\ epoll_find_item(e, f) = NULL
    /\ \E n \in Nodes \ held :
         /\ item' = [item EXCEPT ![n] = [fd |-> f, events |-> events, user_data |-> data]]
         /\ held' = held \cup {n}
         /\ instances' = [instances EXCEPT ![e].items_tree = epoll_insert_item(@, f, n),
                                           ![e].num_items = @ + 1]
    /\ UNCHANGED fdvars

\* Mutant: the item leaves the tree but is not freed.
DelKeeps(e, f) ==
    /\ CtlValid(e, f)
    /\ epoll_find_item(e, f) # NULL
    /\ LET n == epoll_find_item(e, f)
       IN  instances' = [instances EXCEPT ![e].items_tree = RB_CLEAR_NODE(rb_erase(@, n), n),
                                          ![e].num_items = @ - 1]
    /\ UNCHANGED <<fdvars, item, held>>

\* EPOLL_CTL_DEL; nothing happens if the descriptor is not present.
CtlDel(e, f) ==
    /\ CtlValid(e, f)
    /\ epoll_find_item(e, f) # NULL
    /\ LET n == epoll_find_item(e, f)
       IN  /\ instances' = [instances EXCEPT ![e].items_tree = RB_CLEAR_NODE(rb_erase(@, n), n),
                                             ![e].num_items = @ - 1]
           /\ held' = held \ {n}
           /\ item' = [item EXCEPT ![n] = NoItem]
    /\ UNCHANGED fdvars

\* EPOLL_CTL_MOD; nothing happens if the descriptor is not present.
CtlMod(e, f, events, data) ==
    /\ CtlValid(e, f)
    /\ epoll_find_item(e, f) # NULL
    /\ item' = [item EXCEPT ![epoll_find_item(e, f)].events = events,
                            ![epoll_find_item(e, f)].user_data = data]
    /\ UNCHANGED <<fdvars, instances, held>>

-----------------------------------------------------------------------------

\* The translation of fd flags to events in epoll_poll_fds.
EventOf == [READABLE |-> "IN", WRITABLE |-> "OUT", ERROR |-> "ERR", HANGUP |-> "HUP"]
ToEvents(flags) == {EventOf[flag] : flag \in flags}

\* What epoll_wait returns: epoll_poll_fds polls the items in tree order, and
\* the events are collected in the same order up to maxevents.  A character
\* arrives before the k-th poll.
Waited(e, maxevents, k) ==
    LET walk  == Iterate(instances[e].items_tree, rb_first(instances[e].items_tree))
        revents == [j \in 1 .. Len(walk) |->
                      ToEvents(Polled(item[walk[j]].fd, rx_ready \/ j >= k)) \cap item[walk[j]].events]
        ready == SelectSeq([j \in 1 .. Len(walk) |-> j], LAMBDA j : revents[j] # {})
    IN  [j \in 1 .. (IF Len(ready) < maxevents THEN Len(ready) ELSE maxevents) |->
           [events |-> revents[ready[j]], data |-> item[walk[ready[j]]].user_data]]

\* epoll_wait changes nothing that outlasts it; a character may arrive.
epoll_wait(e, maxevents) ==
    /\ instances[e].in_use
    /\ maxevents > 0
    /\ rx_ready' \in {rx_ready, TRUE}
    /\ UNCHANGED <<fds, next_fd, instances, item, held>>

\* The loop of epoll_close: it frees node and goes on with the node that was
\* its successor before.  The nodes it frees.
RECURSIVE Freed(_, _)
Freed(t, n) == IF n = NULL THEN {} ELSE {n} \cup Freed(rb_erase(t, n), rb_next(t, n))

epoll_close(e) ==
    /\ instances[e].in_use
    /\ LET t    == instances[e].items_tree
           gone == Freed(t, rb_first(t))
       IN  /\ held' = held \ gone
           /\ item' = [n \in Nodes |-> IF n \in gone THEN NoItem ELSE item[n]]
    /\ instances' = [instances EXCEPT ![e] = Closed]
    /\ UNCHANGED fdvars

\* Calls of fd.c.
FdCall ==
    /\ \/ \E kind \in Kinds : fd_alloc(kind)
       \/ \E f \in Fds : fd_close(f)
       \/ Receive
       \/ uart_fd_read
    /\ UNCHANGED <<instances, item, held>>

Next ==
    \/ FdCall
    \/ epoll_create
    \/ \E e \in Insts, f \in Fds :
         \/ CtlRefused(e, f)
         \/ CtlDel(e, f)
         \/ \E events \in Events, data \in Data :
              CtlAdd(e, f, events, data) \/ CtlMod(e, f, events, data)
    \/ \E e \in Insts : epoll_close(e) \/ \E m \in MaxEvents : epoll_wait(e, m)

Spec == Init /\ [][Next]_vars

-----------------------------------------------------------------------------

Items(e) == InTree(instances[e].items_tree)

\* Every field has its type.
TypeOK ==
    /\ fds \in [Fds -> [type : {"UNUSED", "UART", "FILE"}, ops : {"uart_fd_ops", "NULL"},
                        ref_count : 0 .. 1]]
    /\ \A f \in Fds : fds[f].type = "UNUSED" => fds[f] = Unused
    /\ next_fd \in Fds /\ rx_ready \in BOOLEAN
    /\ \A e \in Insts : instances[e].items_tree \in Trees
    /\ held \subseteq Nodes

\* kmalloc and kfree are paired: the allocated items are those of the interest
\* lists, each in one list, and num_items counts them.  No sequence of ADD,
\* DEL and epoll_close leaks an item or frees one twice.
ItemsOwned ==
    /\ TypeOK
    /\ held = UNION {Items(e) : e \in Insts}
    /\ \A d, e \in Insts : d # e => Items(d) \cap Items(e) = {}
    /\ \A e \in Insts : /\ instances[e].num_items = Cardinality(Items(e))
                        /\ ~instances[e].in_use => Items(e) = {}

\* The search finds every item that is in the tree, and the tree stays a
\* balanced one, through all insertions and removals.
SearchFinds ==
    \A e \in Insts :
      /\ \A n \in Items(e) : epoll_find_item(e, item[n].fd) = n
      /\ Balanced(instances[e].items_tree)
      /\ Linked(instances[e].items_tree)

Interest(e) ==
    [f \in {item[n].fd : n \in Items(e)} |->
       LET n == epoll_find_item(e, f) IN <<item[n].events, item[n].user_data>>]

\* The interest lists implement the maps of EpollAbs: an operation on one
\* descriptor of one instance leaves all others alone.
Abs == INSTANCE EpollAbs WITH
         interest <- [e \in {d \in Insts : instances[d].in_use} |-> Interest(e)],
         Interests <- Events \X Data
AbsSpec == Abs!Spec

\* epoll_wait reports, in the order of their numbers and up to maxevents, the
\* descriptors whose answer to the poll contains an event that was asked for:
\* none that is closed, none twice, and none with an event not asked for,
\* whenever the character arrives.
WaitReports ==
    \A e \in {d \in Insts : instances[d].in_use}, max \in MaxEvents \ {0} :
      \A k \in 1 .. (instances[e].num_items + 1) :
        LET want    == Interest(e)
            out     == Waited(e, max, k)
            Nth(f)  == Cardinality({g \in DOMAIN want : g <= f})
            Got(f)  == ToEvents(Polled(f, rx_ready \/ Nth(f) >= k)) \cap want[f][1]
            ready   == {f \in DOMAIN want : Got(f) # {}}
            Rank(f) == Cardinality({g \in ready : g <= f})
        IN  /\ Len(out) = IF Cardinality(ready) < max THEN Cardinality(ready) ELSE max
            /\ \A f \in ready : Rank(f) <= max =>
                 fd_get(f) /\ out[Rank(f)] = [events |-> Got(f), data |-> want[f][2]]

=============================================================================
