----------------------------- MODULE ReliefCase -----------------------------
(* What an organization may rely on about one emergency request: units are  *)
(* held for it only after it was cleared by a reviewer, never more than it  *)
(* asks for; it is completed only with all of them held and after a receipt *)
(* was confirmed; a request that was rejected, cancelled, released or       *)
(* completed stays so.                                                      *)
EXTENDS Naturals

CONSTANT Demand

VARIABLES
    status,     \* Status of the request, "NONE" before it is submitted
    cleared,    \* it may be served
    held,       \* units held by its allocation
    arrived     \* the receipt of a delivery was confirmed

vars == <<status, cleared, held, arrived>>

Init ==
    /\ held = 0 /\ arrived = FALSE
    /\ \/ status = "NONE" /\ cleared = FALSE
       \/ status = "PENDING" /\ cleared = TRUE      \* from before reviews existed

Submit ==
    /\ status = "NONE" /\ status' = "PENDING"
    /\ UNCHANGED <<cleared, held, arrived>>

Clear ==
    /\ status = "PENDING" /\ cleared' = TRUE
    /\ UNCHANGED <<status, held, arrived>>

TurnAway ==
    /\ status = "PENDING"
    /\ \/ status' = "CANCELLED" /\ UNCHANGED cleared
       \/ status' = "REJECTED" /\ cleared' = FALSE
    /\ UNCHANGED <<held, arrived>>

Hold ==
    /\ status \in {"PENDING", "PARTIALLY_ALLOCATED"}
    /\ cleared
    /\ held' \in (held + 1)..Demand
    /\ status' = IF held' = Demand THEN "ALLOCATED" ELSE "PARTIALLY_ALLOCATED"
    /\ UNCHANGED <<cleared, arrived>>

Arrive ==
    /\ status \notin {"NONE", "PENDING", "CANCELLED", "REJECTED"}
    /\ arrived' = TRUE
    /\ UNCHANGED <<status, cleared, held>>

GiveBack ==
    /\ status = "ALLOCATED" /\ status' = "RELEASED"
    /\ held' = 0
    /\ UNCHANGED <<cleared, arrived>>

Complete ==
    /\ status = "ALLOCATED" /\ arrived
    /\ status' = "COMPLETED"
    /\ UNCHANGED <<cleared, held, arrived>>

Next == Submit \/ Clear \/ TurnAway \/ Hold \/ Arrive \/ GiveBack \/ Complete

Spec == Init /\ [][Next]_vars
=============================================================================
