------------------------------- MODULE BTreeAbs -------------------------------
(***************************************************************************)
(* What the B-tree promises its callers: a partial map from keys to value  *)
(* addresses.  A call that returns 0 does what it says, a call that        *)
(* returns -1 changes nothing; a deletion may be refused at any time.      *)
(* The promise ends (sound is FALSE) when an insertion runs out of memory. *)
(***************************************************************************)
EXTENDS Integers

CONSTANTS Keys, Vals, NULL

VARIABLES dict, ret, sound

vars == <<dict, ret, sound>>

Init == dict = [k \in Keys |-> NULL] /\ ret = 0 /\ sound = TRUE

Refuse == ret' = -1 /\ UNCHANGED <<dict, sound>>

Insert(k, v) ==
    /\ dict[k] = NULL
    /\ dict' = [dict EXCEPT ![k] = v]
    /\ ret' = 0
    /\ UNCHANGED sound

Delete(k) ==
    /\ dict[k] # NULL
    /\ dict' = [dict EXCEPT ![k] = NULL]
    /\ ret' = 0
    /\ UNCHANGED sound

Destroy ==
    /\ dict' = [k \in Keys |-> NULL]
    /\ ret' = 0
    /\ UNCHANGED sound

Next ==
    \/ ~sound'
    \/ Refuse
    \/ \E k \in Keys : Delete(k) \/ \E v \in Vals[k] : Insert(k, v)
    \/ Destroy

Spec == Init /\ [][sound /\ Next]_vars

=============================================================================
