------------------------------ MODULE UnitBank ------------------------------
(***************************************************************************)
(* What a quantity pool promises, whatever workflow uses it: each unit is  *)
(* free in a pool, reserved in a pool, or out with one holder, and a step  *)
(* only moves units from one of these places to another.                   *)
(***************************************************************************)
EXTENDS Naturals

CONSTANTS
    Pools,
    Holders,
    Quantities  \* how many units a pool may be stocked with

VARIABLES
    free,      \* units of each pool that anyone may take
    reserved,  \* units of each pool that are set aside
    out        \* units of each pool that each holder has

bankVars == <<free, reserved, out>>

Init ==
    /\ free = [r \in Pools |-> 0]
    /\ reserved = [r \in Pools |-> 0]
    /\ out = [h \in Holders |-> [r \in Pools |-> 0]]

\* The only step that brings units in: an empty pool is stocked.
Stock(r, n) ==
    /\ free[r] = 0 /\ reserved[r] = 0
    /\ \A h \in Holders : out[h][r] = 0
    /\ free' = [free EXCEPT ![r] = n]
    /\ UNCHANGED <<reserved, out>>

SetAside(r) ==
    \E n \in 1..free[r] :
        /\ free' = [free EXCEPT ![r] = @ - n]
        /\ reserved' = [reserved EXCEPT ![r] = @ + n]
        /\ UNCHANGED out

PutBack(r) ==
    \E n \in 1..reserved[r] :
        /\ reserved' = [reserved EXCEPT ![r] = @ - n]
        /\ free' = [free EXCEPT ![r] = @ + n]
        /\ UNCHANGED out

TakeFree(h, r) ==
    \E n \in 1..free[r] :
        /\ free' = [free EXCEPT ![r] = @ - n]
        /\ out' = [out EXCEPT ![h][r] = @ + n]
        /\ UNCHANGED reserved

TakeReserved(h, r) ==
    \E n \in 1..reserved[r] :
        /\ reserved' = [reserved EXCEPT ![r] = @ - n]
        /\ out' = [out EXCEPT ![h][r] = @ + n]
        /\ UNCHANGED free

\* A holder's units go back to their pool (d = r) or over to another one.
HandIn(h, r, d) ==
    /\ out[h][r] > 0
    /\ free' = [free EXCEPT ![d] = @ + out[h][r]]
    /\ out' = [out EXCEPT ![h][r] = 0]
    /\ UNCHANGED reserved

Next ==
    \/ \E r \in Pools : SetAside(r) \/ PutBack(r)
    \/ \E r \in Pools, n \in Quantities : Stock(r, n)
    \/ \E h \in Holders, r \in Pools : TakeFree(h, r) \/ TakeReserved(h, r)
    \/ \E h \in Holders, r, d \in Pools : HandIn(h, r, d)

Spec == Init /\ [][Next]_bankVars
=============================================================================
