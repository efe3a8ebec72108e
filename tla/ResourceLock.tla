---------------------------- MODULE ResourceLock ----------------------------
(***************************************************************************)
(* What the Allocations table promises about individual resources: it is a *)
(* lock on each of them.  A hold is taken only while nothing holds the     *)
(* resource, stays until it is given back, and its id is never used again. *)
(* Who takes it, and through which workflow, does not matter here.         *)
(***************************************************************************)
CONSTANTS Resources, Holders

VARIABLES
    holds,  \* the live holds of each resource
    used    \* ids of all holds ever taken

lockVars == <<holds, used>>

Init ==
    /\ holds = [r \in Resources |-> {}]
    /\ used = {}

Take(r, h) ==
    /\ holds[r] = {}
    /\ h \notin used
    /\ holds' = [holds EXCEPT ![r] = {h}]
    /\ used' = used \cup {h}

GiveBack(r) ==
    /\ holds[r] # {}
    /\ holds' = [holds EXCEPT ![r] = {}]
    /\ UNCHANGED used

Next == \E r \in Resources : GiveBack(r) \/ \E h \in Holders : Take(r, h)

Spec == Init /\ [][Next]_lockVars
=============================================================================
