--------------------------- MODULE MCQuantityPool ---------------------------
(* Small instances of QuantityPool: emergency requests of organization A,   *)
(* which owns what it registers, and an exchange that B asks for.           *)
EXTENDS QuantityPool, TLC

CONSTANTS A, B, x1

MCOrgOf == [h \in Requests \cup Exchanges |-> IF h = x1 THEN B ELSE A]

\* Pools before they are registered, the requests of one organization and the
\* calls: each may be exchanged for another of its kind.
Interchangeable ==
    Permutations(Pools) \cup Permutations(Requests) \cup Permutations(Calls)
=============================================================================
