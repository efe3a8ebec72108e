--------------------------- MODULE MCEmergencyDesk --------------------------
(* Values for EmergencyDesk. *)
EXTENDS EmergencyDesk, TLC

\* Calls are alike; the members are not, the cap of a fan-out takes the first.
Interchangeable == Permutations(Calls)
=============================================================================
