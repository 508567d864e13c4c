------------------------------ MODULE EpollAbs ------------------------------
(***************************************************************************)
(* What epoll promises about interest lists: each open instance is a map   *)
(* from descriptors to the events and the data asked for.                  *)
(***************************************************************************)
CONSTANTS Insts, Fds, Interests

VARIABLE interest   \* open instance |-> (descriptor |-> interest)

Init == interest = [e \in {} |-> <<>>]

Create(e) ==
    /\ e \notin DOMAIN interest
    /\ interest' = [d \in DOMAIN interest \cup {e} |->
                      IF d = e THEN [f \in {} |-> <<>>] ELSE interest[d]]

\* EPOLL_CTL_ADD and EPOLL_CTL_MOD.
Set(e, f, v) ==
    /\ e \in DOMAIN interest
    /\ interest' = [interest EXCEPT ![e] = [g \in DOMAIN @ \cup {f} |->
                                              IF g = f THEN v ELSE @[g]]]

\* EPOLL_CTL_DEL.
Remove(e, f) ==
    /\ e \in DOMAIN interest
    /\ f \in DOMAIN interest[e]
    /\ interest' = [interest EXCEPT ![e] = [g \in DOMAIN @ \ {f} |-> @[g]]]

Close(e) ==
    /\ e \in DOMAIN interest
    /\ interest' = [d \in DOMAIN interest \ {e} |-> interest[d]]

\* Calls that leave all maps as they are need no action.
Next ==
    /\ interest' # interest
    /\ \E e \in Insts :
         \/ Create(e) \/ Close(e)
         \/ \E f \in Fds : Remove(e, f) \/ \E v \in Interests : Set(e, f, v)

Spec == Init /\ [][Next]_interest

=============================================================================
