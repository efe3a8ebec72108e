------------------------- MODULE SubscriptionStates -------------------------
(* What an organization may rely on about its subscription: the status      *)
(* moves along the table of billing/transitions.py, it becomes ACTIVE only  *)
(* for a provider subscription that was really paid, and a checkout takes   *)
(* another subscription for it only on a cancelled row or when the provider *)
(* has answered that nobody authorized the one it has.  Somebody may do so  *)
(* between that answer and the write.                                       *)
EXTENDS Integers

VARIABLES
    status,     \* subscription_status, "NONE" while there is no row
    sub,        \* the provider subscription the row names, 0 for none
    paid,       \* provider subscriptions the payer ever authorized
    asked       \* those a checkout in progress was told are not authorized

vars == <<status, sub, paid, asked>>

TRANSITIONS ==
    [NONE          |-> {"TRIALING", "GRANDFATHERED"},
     TRIALING      |-> {"ACTIVE", "EXPIRED"},
     ACTIVE        |-> {"PAST_DUE", "CANCELLED"},
     PAST_DUE      |-> {"ACTIVE", "EXPIRED"},
     CANCELLED     |-> {"ACTIVE", "EXPIRED"},
     EXPIRED       |-> {"ACTIVE"},
     GRANDFATHERED |-> {"ACTIVE"}]

Paying == {"ACTIVE", "PAST_DUE"}

Init == status = "NONE" /\ sub = 0 /\ paid = {} /\ asked = {}

Move ==
    /\ status' \in TRANSITIONS[status]
    /\ status' = "ACTIVE" => sub \in paid
    /\ UNCHANGED <<sub, paid, asked>>

Ask ==
    /\ \E s \in asked' : asked' = asked \cup {s} /\ s \notin paid
    /\ UNCHANGED <<status, sub, paid>>

\* With the checkout that asked, or that dies, its answers are gone.
Checkout ==
    /\ status \notin Paying \cup {"NONE"}
    /\ sub = 0 \/ sub \in asked \/ status = "CANCELLED"
    /\ sub' # sub
    /\ asked' \subseteq asked
    /\ UNCHANGED <<status, paid>>

Forget ==
    /\ asked' \subseteq asked
    /\ UNCHANGED <<status, sub, paid>>

Pay ==
    /\ \E s \in paid' : paid' = paid \cup {s}
    /\ UNCHANGED <<status, sub, asked>>

Next == Forget \/ Move \/ Ask \/ Checkout \/ Pay

Spec == Init /\ [][Next]_vars
=============================================================================
