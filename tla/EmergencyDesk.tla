--------------------------- MODULE EmergencyDesk ----------------------------
(* One emergency request on its way from submission to completion: its      *)
(* review and cancellation (request/handler.py), its allocation             *)
(* (allocation/service.py), the deliveries of that allocation               *)
(* (shared/delivery_service.py) and the notice that a delivery was received *)
(* (Notices).  Where the units come from is QuantityPool's subject: here an *)
(* allocation takes any number of units that the request still lacks.       *)
(*                                                                          *)
(* allocate, create_delivery and complete_request decide on rows their      *)
(* write does not recheck: they are split at the read, and other calls run  *)
(* in between.  A delivery operation is one action: its write requires the  *)
(* version and the status it read, and every write of a delivery increases  *)
(* the version.  So do the status conditions of a review and of a           *)
(* cancellation.  A call may die between its steps (Crash).                 *)
(*                                                                          *)
(* An operator marked [mutant] is a plausible mistake in the definition     *)
(* after it; no specification uses it.                                      *)
EXTENDS Notices

CONSTANTS
    Calls,          \* invocations that overlap
    Demand,         \* quantity_requested; 1 for an individual resource
    Legacy,         \* whether the request is a row from before reviews existed
    MaxDeliveries   \* bound on the deliveries created

ASSUME DeskAssumption ==
    /\ Demand \in Nat \ {0}
    /\ Legacy \in BOOLEAN
    /\ MaxDeliveries \in Nat
    /\ Stamps = 1..MaxDeliveries

VARIABLES
    request,    \* the EmergencyRequests row
    allocation, \* the Allocations row ALLOC-<request_id>
    delivery,   \* the Deliveries rows, in the order of creation
    call        \* what each invocation remembers

desk == <<request, allocation, delivery>>
vars == <<request, allocation, delivery, call, active, event, inbox>>

Deliveries == 1..MaxDeliveries

RequestStatuses == {"NONE", "PENDING", "PARTIALLY_ALLOCATED", "ALLOCATED", "RELEASED",
                    "CANCELLED", "REJECTED", "COMPLETED"}

\* "" is the review_status of a row written before requests were reviewed.
Reviews == {"", "PENDING_REVIEW", "APPROVED", "REJECTED"}

Requests == [status: RequestStatuses, review: Reviews, fulfilled: 0..Demand]

Allocations == [status: {"NONE", "ALLOCATED", "RELEASED"}, quantity: 0..Demand]

TERMINAL_STATUSES == {"HANDOVER_COMPLETED", "DELIVERY_FAILED", "CANCELLED"}

DELIVERY_STATUSES ==
    {"ALLOCATED", "READY_FOR_DISPATCH", "DISPATCHED", "IN_TRANSIT", "DELIVERED",
     "PARTIALLY_DELIVERED", "RECEIVED", "PARTIALLY_RECEIVED", "HANDOVER_PENDING"}
    \cup TERMINAL_STATUSES

ACTIVE_DELIVERY_STATUSES == DELIVERY_STATUSES \ TERMINAL_STATUSES

\* [mutant] A receipt can be set by hand.
ManualReceipt ==
    [ALLOCATED |-> {"READY_FOR_DISPATCH", "CANCELLED"},
     READY_FOR_DISPATCH |-> {"DISPATCHED", "CANCELLED"},
     DISPATCHED |-> {"IN_TRANSIT", "DELIVERED", "PARTIALLY_DELIVERED", "DELIVERY_FAILED"},
     IN_TRANSIT |-> {"DELIVERED", "PARTIALLY_DELIVERED", "DELIVERY_FAILED", "RECEIVED"}]

MANUAL_STATUS_TRANSITIONS ==
    [ALLOCATED |-> {"READY_FOR_DISPATCH", "CANCELLED"},
     READY_FOR_DISPATCH |-> {"DISPATCHED", "CANCELLED"},
     DISPATCHED |-> {"IN_TRANSIT", "DELIVERED", "PARTIALLY_DELIVERED", "DELIVERY_FAILED"},
     IN_TRANSIT |-> {"DELIVERED", "PARTIALLY_DELIVERED", "DELIVERY_FAILED"}]

RECEIPT_FROM == {"DELIVERED", "PARTIALLY_DELIVERED"}
HANDOVER_FROM == {"RECEIVED", "PARTIALLY_RECEIVED", "HANDOVER_PENDING"}

\* [mutant] A delivery that arrived counts as received.
ReceiptOrArrival == {"DELIVERED", "RECEIVED", "HANDOVER_COMPLETED"}

RECEIPT_COMPLETE == {"RECEIVED", "HANDOVER_COMPLETED"}

\* A row that was created; quantity_damaged and quantity_missing only matter
\* through the received quantity, which they are subtracted from.
DeliveryRows == [status: DELIVERY_STATUSES, allocated: 0..Demand, dispatched: 0..Demand,
                 received: 0..Demand, handed: 0..Demand,
                 receipt: BOOLEAN, recorded: BOOLEAN, verified: BOOLEAN]

NoDelivery == [status |-> "NONE"]

Created == {d \in Deliveries : delivery[d] # NoDelivery}

Idle == [op |-> "none"]

CallStates ==
    {Idle}
    \cup [op: {"allocate"}, quantity: 1..Demand, fulfilled: 0..Demand]
    \cup [op: {"create_delivery"}, quantity: 0..Demand]
    \cup [op: {"complete_request"}]
    \cup [op: {"notify"}, at: Stamps]
    \cup [op: {"fanout"}, at: Stamps, left: SUBSET Users]

\* No call begins in an organization that is not ACTIVE; the worker's may, and
\* one that was authorized before goes on.
Authorized == active

Remember(c, memory) == call' = [call EXCEPT ![c] = memory]
Return(c) == Remember(c, Idle)

Init ==
    /\ request = IF Legacy THEN [status |-> "PENDING", review |-> "", fulfilled |-> 0]
                 ELSE [status |-> "NONE", review |-> "PENDING_REVIEW", fulfilled |-> 0]
    /\ allocation = [status |-> "NONE", quantity |-> 0]
    /\ delivery = [d \in Deliveries |-> NoDelivery]
    /\ call = [c \in Calls |-> Idle]
    /\ NoticesInit

-----------------------------------------------------------------------------
(* Requests                                                                *)

CreateRequest ==
    /\ request.status = "NONE"
    /\ request' = [request EXCEPT !.status = "PENDING"]
    /\ UNCHANGED <<allocation, delivery, call, notices>>

cancel_request ==
    /\ request.status = "PENDING"
    /\ request' = [request EXCEPT !.status = "CANCELLED"]
    /\ UNCHANGED <<allocation, delivery, call, notices>>

Reject == request' = [request EXCEPT !.review = "REJECTED", !.status = "REJECTED"]

Approve == request' = [request EXCEPT !.review = "APPROVED"]

\* The reviewer is another operator than the creator of the request.
review_request ==
    /\ request.status = "PENDING"
    /\ request.review \in {"", "PENDING_REVIEW"}
    /\ Approve \/ Reject
    /\ UNCHANGED <<allocation, delivery, call, notices>>

\* quantity_remaining: what was requested, less what was claimed.
Remaining == Demand - request.fulfilled

\* Every delivery of the request, the failed and the cancelled ones too.
receipt_allows_completion ==
    /\ Created # {}
    /\ \A d \in Created : delivery[d].status \in RECEIPT_COMPLETE

ReadForCompletion(c) ==
    /\ Authorized
    /\ call[c] = Idle
    /\ request.status = "ALLOCATED"
    /\ allocation.status = "ALLOCATED"
    /\ receipt_allows_completion
    /\ Remaining = 0
    /\ Remember(c, [op |-> "complete_request"])
    /\ UNCHANGED <<desk, notices>>

\* The write requires the status only: a delivery created or handed over since
\* the read goes unseen.
complete_request(c) ==
    /\ call[c].op = "complete_request"
    /\ request' = IF request.status = "ALLOCATED"
                  THEN [request EXCEPT !.status = "COMPLETED"] ELSE request
    /\ Return(c)
    /\ UNCHANGED <<allocation, delivery, notices>>

-----------------------------------------------------------------------------
(* Allocation                                                              *)

AllocationReviewAllowed == request.review \in {"", "APPROVED"}

\* quantity units of the resource were available.
ReadToAllocate(c, quantity) ==
    /\ Authorized
    /\ call[c] = Idle
    /\ request.status \in {"PENDING", "PARTIALLY_ALLOCATED"}
    /\ AllocationReviewAllowed
    /\ quantity <= Remaining
    /\ Remember(c, [op |-> "allocate", quantity |-> quantity, fulfilled |-> request.fulfilled])
    /\ UNCHANGED <<desk, notices>>

\* Neither the review nor the location is looked at again.
ClaimCondition(memory) ==
    /\ request.status \in {"PENDING", "PARTIALLY_ALLOCATED"}
    /\ request.fulfilled = memory.fulfilled

\* The allocation row is put for the first claim and updated by the others.
Claim(next) ==
    /\ request' = [request EXCEPT
           !.fulfilled = next,
           !.status = IF next >= Demand THEN "ALLOCATED" ELSE "PARTIALLY_ALLOCATED"]
    /\ allocation' = [status |-> "ALLOCATED", quantity |-> next]

allocate(c) ==
    /\ call[c].op = "allocate"
    /\ IF ClaimCondition(call[c]) THEN Claim(call[c].fulfilled + call[c].quantity)
       ELSE UNCHANGED <<request, allocation>>
    /\ Return(c)
    /\ UNCHANGED <<delivery, notices>>

ReleaseCondition == allocation.status = "ALLOCATED" /\ request.status = "ALLOCATED"

\* The transaction of a release by an operator or by the worker.
Release ==
    /\ ReleaseCondition
    /\ request' = [request EXCEPT !.status = "RELEASED"]
    /\ allocation' = [allocation EXCEPT !.status = "RELEASED"]
    /\ UNCHANGED <<delivery, call, notices>>

-----------------------------------------------------------------------------
(* Deliveries                                                              *)

ReadToDeliver(c) ==
    /\ Authorized
    /\ call[c] = Idle
    /\ allocation.status = "ALLOCATED"
    /\ \A d \in Created : delivery[d].status \notin ACTIVE_DELIVERY_STATUSES
    /\ Remember(c, [op |-> "create_delivery", quantity |-> allocation.quantity])
    /\ UNCHANGED <<desk, notices>>

\* The put requires a new key only: two calls create two active deliveries.
create_delivery(c, d) ==
    /\ call[c].op = "create_delivery"
    /\ d \notin Created /\ 1..(d - 1) \subseteq Created
    /\ delivery' = [delivery EXCEPT ![d] =
           [status |-> "ALLOCATED", allocated |-> call[c].quantity, dispatched |-> 0,
            received |-> 0, handed |-> 0,
            receipt |-> FALSE, recorded |-> FALSE, verified |-> FALSE]]
    /\ Return(c)
    /\ UNCHANGED <<request, allocation, notices>>

\* The write of a row with the version after the one that was read.
PutVersioned(d, row) == delivery' = [delivery EXCEPT ![d] = row]

Save(d, row) == PutVersioned(d, row) /\ UNCHANGED <<request, allocation>>

InStatus(d, statuses) == delivery[d].status \in statuses

\* [mutant] A dispatched quantity is not compared with the allocated one.
AnyQuantity(d) == 0..(Demand + 1)

\* dispatch_quantity of the body, or what the row already has.
DispatchQuantities(d) == 0..delivery[d].allocated

update_transport(d, quantity) ==
    /\ InStatus(d, {"ALLOCATED", "READY_FOR_DISPATCH"})
    /\ Save(d, [delivery[d] EXCEPT !.dispatched = quantity])
    /\ UNCHANGED <<call, notices>>

\* The route and the vehicle come with the body or are in the row.
mark_ready(d, quantity) ==
    /\ InStatus(d, {"ALLOCATED"})
    /\ quantity >= 1
    /\ Save(d, [delivery[d] EXCEPT !.dispatched = quantity, !.status = "READY_FOR_DISPATCH"])
    /\ UNCHANGED <<call, notices>>

dispatch_delivery(d, quantity) ==
    /\ InStatus(d, {"READY_FOR_DISPATCH"})
    /\ quantity >= 1
    /\ Save(d, [delivery[d] EXCEPT !.dispatched = quantity, !.status = "DISPATCHED"])
    /\ UNCHANGED <<call, notices>>

\* No condition on the quantity or the route: a delivery can be set to READY
\* and DISPATCHED with nothing on it.
update_status(d) ==
    /\ InStatus(d, DOMAIN MANUAL_STATUS_TRANSITIONS)
    /\ \E target \in MANUAL_STATUS_TRANSITIONS[delivery[d].status] :
           Save(d, [delivery[d] EXCEPT !.status = target])
    /\ UNCHANGED <<call, notices>>

\* The call goes on to notify the other members; the event id names the
\* allocation, so all its deliveries share it.
notify_delivery_received(c, d) == Remember(c, [op |-> "notify", at |-> d])

confirm_receipt(c, d) ==
    /\ Authorized
    /\ call[c] = Idle
    /\ d \in Created
    /\ InStatus(d, RECEIPT_FROM)
    /\ ~delivery[d].receipt
    /\ \E received \in 0..delivery[d].dispatched :
           Save(d, [delivery[d] EXCEPT
               !.received = received, !.receipt = TRUE,
               !.status = IF received = delivery[d].dispatched THEN "RECEIVED"
                          ELSE "PARTIALLY_RECEIVED"])
    /\ notify_delivery_received(c, d)
    /\ UNCHANGED notices

record_handover(d) ==
    /\ InStatus(d, HANDOVER_FROM)
    /\ ~delivery[d].recorded
    /\ delivery[d].receipt
    /\ \E handed \in 0..delivery[d].received :
           Save(d, [delivery[d] EXCEPT !.handed = handed, !.recorded = TRUE,
                                       !.verified = FALSE, !.status = "HANDOVER_PENDING"])
    /\ UNCHANGED <<call, notices>>

\* A smaller quantity than the received one can never be verified, and the
\* record cannot be replaced.
verify_handover(d) ==
    /\ InStatus(d, {"HANDOVER_PENDING"})
    /\ delivery[d].recorded /\ ~delivery[d].verified /\ delivery[d].receipt
    /\ delivery[d].handed = delivery[d].received
    /\ Save(d, [delivery[d] EXCEPT !.verified = TRUE, !.status = "HANDOVER_COMPLETED"])
    /\ UNCHANGED <<call, notices>>

-----------------------------------------------------------------------------
(* The notice that a delivery of this allocation was received              *)

\* The actor is the member who confirmed the receipt, any of them: no step before
\* this one depends on who it was.
EmitEvent(c, actor) ==
    /\ call[c].op = "notify"
    /\ PutEvent(call[c].at)
    /\ Remember(c, IF event.fanout = "COMPLETE" THEN Idle
                   ELSE [op |-> "fanout", at |-> CreatedAt(call[c].at),
                         left |-> resolve_recipients(actor)])
    /\ UNCHANGED <<desk, active, inbox>>

FanOut(c, u) ==
    /\ call[c].op = "fanout"
    /\ u \in call[c].left
    /\ PutInbox(u, call[c].at)
    /\ Remember(c, [call[c] EXCEPT !.left = @ \ {u}])
    /\ UNCHANGED <<desk, active, event>>

FinishFanOut(c) ==
    /\ call[c].op = "fanout"
    /\ call[c].left = {}
    /\ CompleteFanout
    /\ Return(c)
    /\ UNCHANGED <<desk, active, inbox>>

Read(u, at) ==
    /\ Authorized
    /\ MarkRead(u, at) \/ MarkAllRead(u, at)
    /\ UNCHANGED <<desk, call>>

\* It matters only between a receipt and the emission of its event: at any other
\* time it does no more than keep calls from beginning.  No call of another kind
\* is then under way: what is left of one does not look at the status, so the
\* suspension can as well come after it.
SuspendOrganization ==
    /\ \E c \in Calls : call[c].op = "notify"
    /\ \A c \in Calls : call[c].op \in {"none", "notify", "fanout"}
    /\ Suspend
    /\ UNCHANGED <<desk, call>>

\* A failed emission is logged and swallowed: it ends like a call that died.
Crash(c) ==
    /\ call[c] # Idle
    /\ Return(c)
    /\ UNCHANGED <<desk, notices>>

-----------------------------------------------------------------------------

RequestCalls ==
    \/ Authorized /\ (CreateRequest \/ cancel_request \/ review_request)
    \/ Release

DeliveryCalls(d) ==
    /\ Authorized
    /\ d \in Created
    /\ \/ \E q \in DispatchQuantities(d) : update_transport(d, q)
       \/ \E q \in DispatchQuantities(d) : mark_ready(d, q)
       \/ \E q \in DispatchQuantities(d) : dispatch_delivery(d, q)
       \/ update_status(d)
       \/ record_handover(d)
       \/ verify_handover(d)

Invocation(c) ==
    \/ ReadForCompletion(c) \/ complete_request(c)
    \/ (\E quantity \in 1..Demand : ReadToAllocate(c, quantity)) \/ allocate(c)
    \/ ReadToDeliver(c) \/ (\E d \in Deliveries : create_delivery(c, d))
    \/ (\E d \in Deliveries : confirm_receipt(c, d))
    \/ (\E actor \in Users : EmitEvent(c, actor))
    \/ (\E u \in Users : FanOut(c, u)) \/ FinishFanOut(c)
    \/ Crash(c)

Next ==
    \/ RequestCalls
    \/ \E d \in Deliveries : DeliveryCalls(d)
    \/ \E c \in Calls : Invocation(c)
    \/ \E u \in Users, at \in Stamps : Read(u, at)
    \/ SuspendOrganization

Spec == Init /\ [][Next]_vars

-----------------------------------------------------------------------------

\* Every row and every call has the attributes and values the code gives it.
TypeOK ==
    /\ request \in Requests
    /\ allocation \in Allocations
    /\ delivery \in [Deliveries -> {NoDelivery} \cup DeliveryRows]
    /\ call \in [Calls -> CallStates]
    /\ active \in BOOLEAN
    /\ event \in Events
    /\ inbox \in Inboxes

\* Through every order of the delivery operations, of corrections by hand and
\* of overlapping calls the quantities of a delivery only shrink on the way,
\* its flags agree with its status, and a verified handover passed on all that
\* was received (delivery_service.py, MANUAL_STATUS_TRANSITIONS).
QuantitiesAgree ==
    \A d \in Created : LET row == delivery[d] IN
        /\ row.handed <= row.received
        /\ row.received <= row.dispatched
        /\ row.dispatched <= row.allocated
        /\ row.receipt <=> row.status \in HANDOVER_FROM \cup {"HANDOVER_COMPLETED"}
        /\ row.recorded <=> row.status \in {"HANDOVER_PENDING", "HANDOVER_COMPLETED"}
        /\ row.status = "RECEIVED" => row.received = row.dispatched
        /\ row.status = "HANDOVER_COMPLETED" => row.verified /\ row.handed = row.received

Case == INSTANCE ReliefCase WITH
    status  <- request.status,
    cleared <- request.status # "NONE" /\ AllocationReviewAllowed,
    held    <- IF allocation.status = "ALLOCATED" THEN allocation.quantity ELSE 0,
    arrived <- \E d \in Created : delivery[d].receipt

\* Reviews, cancellations, overlapping claims, releases, deliveries and the
\* completion together do what ReliefCase promises: nothing is held for a
\* request that was not cleared, claims never exceed the demand, and a request
\* is completed with all its units held and a confirmed receipt.  (Of how much
\* is another matter: nothing may have been received at all.)
ImplementsCase == Case!Spec
=============================================================================
