---------------------------- MODULE MCHoldLedger ----------------------------
(* Small instances of HoldLedger: emergency requests of organization A, and *)
(* an exchange that organization B asks for.                                *)
EXTENDS HoldLedger, TLC

CONSTANTS A, B, x1

MCOrgOf == [h \in Requests \cup Exchanges |-> IF h = x1 THEN B ELSE A]

\* The requests are of one organization, as are the tickets and the resources
\* before they are registered: each may be exchanged for another of its kind.
Interchangeable ==
    Permutations(Requests) \cup Permutations(Tickets) \cup Permutations(Resources)
=============================================================================
