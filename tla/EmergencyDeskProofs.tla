------------------------ MODULE EmergencyDeskProofs -------------------------
(* Theorems about EmergencyDesk, for every demand and any number of calls,  *)
(* deliveries and members.                                                  *)
EXTENDS EmergencyDesk, FiniteSetTheorems, TLAPS

-----------------------------------------------------------------------------
(* The parts of the inductive invariant                                    *)

\* What QuantitiesAgree says of one row, and that a quantity is 0 until the
\* operation that sets it.
RowAgrees(row) ==
    /\ row.handed <= row.received
    /\ row.received <= row.dispatched
    /\ row.dispatched <= row.allocated
    /\ row.receipt <=> row.status \in HANDOVER_FROM \cup {"HANDOVER_COMPLETED"}
    /\ row.recorded <=> row.status \in {"HANDOVER_PENDING", "HANDOVER_COMPLETED"}
    /\ row.status = "RECEIVED" => row.received = row.dispatched
    /\ row.status = "HANDOVER_COMPLETED" => row.verified /\ row.handed = row.received
    /\ ~row.receipt => row.received = 0
    /\ ~row.recorded => row.handed = 0

RowsAgree == \A d \in Created : RowAgrees(delivery[d])

\* A claim in flight never asks for more than the request lacked, and a fan-out
\* has put its event.
CallsAgree == \A c \in Calls :
    /\ call[c].op = "allocate" => call[c].quantity + call[c].fulfilled <= Demand
    /\ call[c].op = "fanout" => event # NoEvent

DeskInv == TypeOK /\ RowsAgree /\ CallsAgree

-----------------------------------------------------------------------------
(* The memory of a call has the fields of its operation                    *)

LEMMA AllocateShape ==
    ASSUME NEW m \in CallStates, m.op = "allocate"
    PROVE  m.quantity \in 1..Demand /\ m.fulfilled \in 0..Demand
  BY DEF CallStates, Idle

LEMMA CreateShape ==
    ASSUME NEW m \in CallStates, m.op = "create_delivery"
    PROVE  m.quantity \in 0..Demand
  BY DEF CallStates, Idle

LEMMA NotifyShape ==
    ASSUME NEW m \in CallStates, m.op = "notify"
    PROVE  m.at \in Stamps
  BY DEF CallStates, Idle

LEMMA FanoutShape ==
    ASSUME NEW m \in CallStates, m.op = "fanout"
    PROVE  m.at \in Stamps /\ m.left \subseteq Users
  BY DEF CallStates, Idle

LEMMA IdleTyped == Idle \in CallStates /\ Idle.op = "none"
  BY DEF CallStates, Idle

\* Remembering a legal memory keeps the calls typed and changes one of them.
LEMMA RememberTyped ==
    ASSUME call \in [Calls -> CallStates], NEW c \in Calls, NEW m \in CallStates,
           Remember(c, m)
    PROVE  /\ call' \in [Calls -> CallStates]
           /\ call'[c] = m
           /\ \A x \in Calls \ {c} : call'[x] = call[x]
  BY DEF Remember

\* A created row is one that has the attributes of a delivery.
LEMMA CreatedTyped ==
    ASSUME delivery \in [Deliveries -> {NoDelivery} \cup DeliveryRows], NEW d \in Created
    PROVE  d \in Deliveries /\ delivery[d] \in DeliveryRows
  BY DEF Created

LEMMA RowIsCreated ==
    ASSUME NEW row \in DeliveryRows
    PROVE  row # NoDelivery
  <1>1. row.status \in DELIVERY_STATUSES
    BY DEF DeliveryRows
  <1>2. "NONE" \notin DELIVERY_STATUSES
    BY DEF DELIVERY_STATUSES, TERMINAL_STATUSES
  <1> QED
    BY <1>1, <1>2 DEF NoDelivery

\* Writing one row that was created keeps the rows typed and in agreement.
LEMMA PutKept ==
    ASSUME TypeOK, RowsAgree, NEW d \in Created, NEW row \in DeliveryRows,
           RowAgrees(row), PutVersioned(d, row)
    PROVE  /\ delivery' \in [Deliveries -> {NoDelivery} \cup DeliveryRows]
           /\ Created' = Created
           /\ RowsAgree'
           /\ delivery'[d] = row
           /\ \A e \in Created \ {d} : delivery'[e] = delivery[e]
  <1>1. d \in Deliveries /\ delivery \in [Deliveries -> {NoDelivery} \cup DeliveryRows]
    BY DEF TypeOK, Created
  <1>2. delivery' = [delivery EXCEPT ![d] = row]
    BY DEF PutVersioned
  <1>3. delivery' \in [Deliveries -> {NoDelivery} \cup DeliveryRows]
    BY <1>1, <1>2
  <1>4. delivery'[d] = row /\ \A e \in Deliveries \ {d} : delivery'[e] = delivery[e]
    BY <1>1, <1>2
  <1>5. row # NoDelivery
    BY RowIsCreated
  <1>6. Created' = Created
    BY <1>1, <1>4, <1>5 DEF Created
  <1>7. ASSUME NEW e \in Created' PROVE RowAgrees(delivery[e])'
    <2>1. e \in Created /\ e \in Deliveries
      BY <1>6 DEF Created
    <2>2. CASE e = d
      BY <2>2, <1>4 DEF RowAgrees
    <2>3. CASE e # d
      <3>1. delivery'[e] = delivery[e] /\ RowAgrees(delivery[e])
        BY <2>1, <2>3, <1>4 DEF RowsAgree
      <3> QED
        BY <3>1 DEF RowAgrees
    <2> QED
      BY <2>2, <2>3
  <1> QED
    BY <1>3, <1>4, <1>6, <1>7 DEF RowsAgree, Created

-----------------------------------------------------------------------------
(* A write of a delivery                                                   *)

\* What a delivery operation may write: a row in agreement, with the same
\* receipt.
RowStep(d, row) ==
    /\ row \in DeliveryRows
    /\ RowAgrees(row)
    /\ row.receipt = delivery[d].receipt
    /\ PutVersioned(d, row)
    /\ UNCHANGED <<request, allocation, call, notices>>

LEMMA DispatchStep ==
    ASSUME DeskAssumption, TypeOK, RowsAgree, NEW d \in Created,
           NEW q \in DispatchQuantities(d), NEW s \in {"ALLOCATED", "READY_FOR_DISPATCH", "DISPATCHED"},
           delivery[d].status \in {"ALLOCATED", "READY_FOR_DISPATCH"},
           Save(d, [delivery[d] EXCEPT !.dispatched = q, !.status = s]),
           UNCHANGED <<call, notices>>
    PROVE  \E row \in DeliveryRows : RowStep(d, row)
  <1> DEFINE row == [delivery[d] EXCEPT !.dispatched = q, !.status = s]
  <1>1. delivery[d] \in DeliveryRows /\ RowAgrees(delivery[d])
    BY CreatedTyped DEF TypeOK, RowsAgree
  <1>2. q \in 0..delivery[d].allocated /\ delivery[d].allocated \in 0..Demand /\ Demand \in Nat
    BY <1>1 DEF DispatchQuantities, DeliveryRows, DeskAssumption
  <1>3. s \in DELIVERY_STATUSES
    BY DEF DELIVERY_STATUSES
  <1>0. q \in 0..Demand
    BY <1>2
  <1>4. row \in DeliveryRows
    BY <1>0, <1>1, <1>3 DEF DeliveryRows
  <1>5. /\ row.status = s /\ row.dispatched = q
        /\ row.allocated = delivery[d].allocated /\ row.received = delivery[d].received
        /\ row.handed = delivery[d].handed /\ row.receipt = delivery[d].receipt
        /\ row.recorded = delivery[d].recorded /\ row.verified = delivery[d].verified
    BY <1>1 DEF DeliveryRows
  <1>6. ~delivery[d].receipt /\ ~delivery[d].recorded
    BY <1>1 DEF RowAgrees, HANDOVER_FROM
  <1>7. delivery[d].received = 0 /\ delivery[d].handed = 0
    BY <1>1, <1>6 DEF RowAgrees
  <1>8. PutVersioned(d, row) /\ UNCHANGED <<request, allocation>>
    BY DEF Save
  <1> HIDE DEF row
  <1>9. RowAgrees(row)
    BY <1>1, <1>2, <1>5, <1>6, <1>7 DEF RowAgrees, HANDOVER_FROM
  <1> QED
    BY <1>4, <1>5, <1>8, <1>9 DEF RowStep

LEMMA TransportStep ==
    ASSUME DeskAssumption, TypeOK, RowsAgree, NEW d \in Created,
           NEW q \in DispatchQuantities(d), update_transport(d, q)
    PROVE  \E row \in DeliveryRows : RowStep(d, row)
  <1>1. delivery[d] \in DeliveryRows
    BY CreatedTyped DEF TypeOK
  <1>2. delivery[d].status \in {"ALLOCATED", "READY_FOR_DISPATCH"}
    BY DEF update_transport, InStatus
  <1> DEFINE s == delivery[d].status
  <1>3. [delivery[d] EXCEPT !.dispatched = q] = [delivery[d] EXCEPT !.dispatched = q, !.status = s]
    BY <1>1 DEF DeliveryRows
  <1> QED
    BY <1>2, <1>3, DispatchStep DEF update_transport

LEMMA ReadyStep ==
    ASSUME DeskAssumption, TypeOK, RowsAgree, NEW d \in Created,
           NEW q \in DispatchQuantities(d), mark_ready(d, q) \/ dispatch_delivery(d, q)
    PROVE  \E row \in DeliveryRows : RowStep(d, row)
  BY DispatchStep DEF mark_ready, dispatch_delivery, InStatus

\* A correction by hand stays before the receipt.
LEMMA StatusStep ==
    ASSUME TypeOK, RowsAgree, NEW d \in Created, update_status(d)
    PROVE  \E row \in DeliveryRows : RowStep(d, row)
  <1>0. PICK target \in MANUAL_STATUS_TRANSITIONS[delivery[d].status] :
            Save(d, [delivery[d] EXCEPT !.status = target])
    BY DEF update_status
  <1> DEFINE row == [delivery[d] EXCEPT !.status = target]
  <1>1. delivery[d] \in DeliveryRows /\ RowAgrees(delivery[d])
    BY CreatedTyped DEF TypeOK, RowsAgree
  <1>4. delivery[d].status \in {"ALLOCATED", "READY_FOR_DISPATCH", "DISPATCHED", "IN_TRANSIT"}
    BY DEF update_status, InStatus, MANUAL_STATUS_TRANSITIONS
  <1>5. target \in DELIVERY_STATUSES \ (HANDOVER_FROM \cup {"HANDOVER_COMPLETED"})
    BY <1>0, <1>4 DEF MANUAL_STATUS_TRANSITIONS, HANDOVER_FROM, DELIVERY_STATUSES,
                      TERMINAL_STATUSES
  <1>2. row \in DeliveryRows
    BY <1>1, <1>5 DEF DeliveryRows
  <1>3. /\ row.status = target /\ row.dispatched = delivery[d].dispatched
        /\ row.allocated = delivery[d].allocated /\ row.received = delivery[d].received
        /\ row.handed = delivery[d].handed /\ row.receipt = delivery[d].receipt
        /\ row.recorded = delivery[d].recorded /\ row.verified = delivery[d].verified
    BY <1>1 DEF DeliveryRows
  <1>6. ~delivery[d].receipt /\ ~delivery[d].recorded
    BY <1>1, <1>4 DEF RowAgrees, HANDOVER_FROM
  <1> HIDE DEF row
  <1>7. RowAgrees(row)
    BY <1>1, <1>3, <1>5, <1>6 DEF RowAgrees, HANDOVER_FROM
  <1> QED
    BY <1>0, <1>2, <1>3, <1>7 DEF RowStep, update_status, Save, row

LEMMA RecordStep ==
    ASSUME DeskAssumption, TypeOK, RowsAgree, NEW d \in Created, record_handover(d)
    PROVE  \E row \in DeliveryRows : RowStep(d, row)
  <1>0. PICK handed \in 0..delivery[d].received :
            Save(d, [delivery[d] EXCEPT !.handed = handed, !.recorded = TRUE,
                                        !.verified = FALSE, !.status = "HANDOVER_PENDING"])
    BY DEF record_handover
  <1> DEFINE row == [delivery[d] EXCEPT !.handed = handed, !.recorded = TRUE, !.verified = FALSE,
                                        !.status = "HANDOVER_PENDING"]
  <1>1. delivery[d] \in DeliveryRows /\ RowAgrees(delivery[d])
    BY CreatedTyped DEF TypeOK, RowsAgree
  <1>6. handed \in 0..Demand
    BY <1>1 DEF DeliveryRows, DeskAssumption
  <1>2. row \in DeliveryRows
    BY <1>1, <1>6 DEF DeliveryRows, DELIVERY_STATUSES
  <1>3. /\ row.status = "HANDOVER_PENDING" /\ row.dispatched = delivery[d].dispatched
        /\ row.allocated = delivery[d].allocated /\ row.received = delivery[d].received
        /\ row.handed = handed /\ row.receipt = delivery[d].receipt
        /\ row.recorded = TRUE /\ row.verified = FALSE
    BY <1>1 DEF DeliveryRows
  <1>4. delivery[d].receipt /\ handed <= delivery[d].received
    BY DEF record_handover
  <1> HIDE DEF row
  <1>5. RowAgrees(row)
    BY <1>1, <1>3, <1>4 DEF RowAgrees, HANDOVER_FROM
  <1> QED
    BY <1>0, <1>2, <1>3, <1>5 DEF RowStep, record_handover, Save, row

LEMMA VerifyStep ==
    ASSUME TypeOK, RowsAgree, NEW d \in Created, verify_handover(d)
    PROVE  \E row \in DeliveryRows : RowStep(d, row)
  <1> DEFINE row == [delivery[d] EXCEPT !.verified = TRUE, !.status = "HANDOVER_COMPLETED"]
  <1>1. delivery[d] \in DeliveryRows /\ RowAgrees(delivery[d])
    BY CreatedTyped DEF TypeOK, RowsAgree
  <1>2. row \in DeliveryRows
    BY <1>1 DEF DeliveryRows, DELIVERY_STATUSES, TERMINAL_STATUSES
  <1>3. /\ row.status = "HANDOVER_COMPLETED" /\ row.dispatched = delivery[d].dispatched
        /\ row.allocated = delivery[d].allocated /\ row.received = delivery[d].received
        /\ row.handed = delivery[d].handed /\ row.receipt = delivery[d].receipt
        /\ row.recorded = delivery[d].recorded /\ row.verified = TRUE
    BY <1>1 DEF DeliveryRows
  <1>4. delivery[d].receipt /\ delivery[d].recorded /\ delivery[d].handed = delivery[d].received
    BY DEF verify_handover
  <1> HIDE DEF row
  <1>5. RowAgrees(row)
    BY <1>1, <1>3, <1>4 DEF RowAgrees, HANDOVER_FROM
  <1> QED
    BY <1>2, <1>3, <1>5 DEF RowStep, verify_handover, Save, row

\* Every operation on a delivery but the receipt is one such write.
LEMMA DeliveryStep ==
    ASSUME DeskAssumption, TypeOK, RowsAgree, NEW d \in Deliveries, DeliveryCalls(d)
    PROVE  d \in Created /\ \E row \in DeliveryRows : RowStep(d, row)
  BY TransportStep, ReadyStep, StatusStep, RecordStep, VerifyStep DEF DeliveryCalls

\* The receipt is a write of a row in agreement.
LEMMA ReceiptStep ==
    ASSUME DeskAssumption, TypeOK, RowsAgree, NEW c \in Calls, NEW d \in Created,
           confirm_receipt(c, d)
    PROVE  \E row \in DeliveryRows :
               RowAgrees(row) /\ row.receipt /\ PutVersioned(d, row)
               /\ UNCHANGED <<request, allocation>>
  <1>0. PICK received \in 0..delivery[d].dispatched :
            Save(d, [delivery[d] EXCEPT
                !.received = received, !.receipt = TRUE,
                !.status = IF received = delivery[d].dispatched THEN "RECEIVED"
                           ELSE "PARTIALLY_RECEIVED"])
    BY DEF confirm_receipt
  <1> DEFINE status == IF received = delivery[d].dispatched THEN "RECEIVED" ELSE "PARTIALLY_RECEIVED"
             row == [delivery[d] EXCEPT !.received = received, !.receipt = TRUE, !.status = status]
  <1>1. delivery[d] \in DeliveryRows /\ RowAgrees(delivery[d])
    BY CreatedTyped DEF TypeOK, RowsAgree
  <1>8. received \in 0..Demand
    BY <1>1 DEF DeliveryRows, DeskAssumption
  <1>2. row \in DeliveryRows
    BY <1>1, <1>8 DEF DeliveryRows, DELIVERY_STATUSES
  <1>3. /\ row.status = status /\ row.dispatched = delivery[d].dispatched
        /\ row.allocated = delivery[d].allocated /\ row.received = received
        /\ row.handed = delivery[d].handed /\ row.receipt = TRUE
        /\ row.recorded = delivery[d].recorded /\ row.verified = delivery[d].verified
    BY <1>1 DEF DeliveryRows
  <1>4. received <= delivery[d].dispatched /\ delivery[d].status \in RECEIPT_FROM
    BY DEF confirm_receipt, InStatus
  <1>5. ~delivery[d].recorded /\ delivery[d].handed = 0
    BY <1>1, <1>4 DEF RowAgrees, RECEIPT_FROM
  <1>6. PutVersioned(d, row) /\ UNCHANGED <<request, allocation>>
    BY <1>0 DEF Save
  <1> HIDE DEF row
  <1>7. RowAgrees(row)
    BY <1>1, <1>3, <1>4, <1>5 DEF RowAgrees, HANDOVER_FROM
  <1> QED
    BY <1>2, <1>3, <1>6, <1>7

-----------------------------------------------------------------------------
(* Types and quantities                                                    *)

LEMMA RememberAgrees ==
    ASSUME call \in [Calls -> CallStates], CallsAgree, NEW c \in Calls, NEW m \in CallStates,
           m.op = "allocate" => m.quantity + m.fulfilled <= Demand,
           m.op = "fanout" => event' # NoEvent,
           event # NoEvent => event' # NoEvent,
           Remember(c, m)
    PROVE  call' \in [Calls -> CallStates] /\ CallsAgree'
  <1>1. /\ call' \in [Calls -> CallStates]
        /\ call'[c] = m
        /\ \A x \in Calls \ {c} : call'[x] = call[x]
    BY RememberTyped
  <1> QED
    BY <1>1 DEF CallsAgree

LEMMA ReturnAgrees ==
    ASSUME call \in [Calls -> CallStates], CallsAgree, NEW c \in Calls, Return(c),
           event # NoEvent => event' # NoEvent
    PROVE  call' \in [Calls -> CallStates] /\ CallsAgree'
  BY RememberAgrees, IdleTyped DEF Return

\* Steps that leave the deliveries alone keep what is said about them.
LEMMA RowsUntouched ==
    ASSUME RowsAgree, UNCHANGED delivery
    PROVE  RowsAgree'
  BY DEF RowsAgree, RowAgrees, Created

LEMMA InitDesk ==
    ASSUME DeskAssumption, Init
    PROVE  DeskInv
  <1>1. request \in Requests /\ allocation \in Allocations
    <2>1. 0 \in 0..Demand
      BY DEF DeskAssumption
    <2>2. allocation \in Allocations
      BY <2>1 DEF Init, Allocations
    <2>3. CASE Legacy
      BY <2>1, <2>2, <2>3 DEF Init, Requests, RequestStatuses, Reviews
    <2>4. CASE ~Legacy
      BY <2>1, <2>2, <2>4 DEF Init, Requests, RequestStatuses, Reviews
    <2> QED
      BY <2>3, <2>4
  <1>2. delivery \in [Deliveries -> {NoDelivery} \cup DeliveryRows] /\ Created = {}
    BY DEF Init, Created
  <1>3. call \in [Calls -> CallStates] /\ CallsAgree
    BY IdleTyped DEF Init, CallsAgree
  <1>4. event \in Events /\ inbox \in Inboxes /\ active \in BOOLEAN
    <2>1. event \in Events /\ inbox \in Inboxes
      BY DEF Init, NoticesInit, Events, Inboxes
    <2>2. active \in BOOLEAN
      BY ZenonT(30) DEF Init, NoticesInit
    <2> QED
      BY <2>1, <2>2
  <1> QED
    BY <1>1, <1>2, <1>3, <1>4 DEF DeskInv, TypeOK, RowsAgree

LEMMA RequestCallsKeep ==
    ASSUME DeskAssumption, DeskInv, RequestCalls
    PROVE  DeskInv'
  <1> USE DEF DeskInv, TypeOK
  <1>1. UNCHANGED <<delivery, call, active, event, inbox>>
    BY DEF RequestCalls, CreateRequest, cancel_request, review_request, Release, notices
  <1>2. RowsAgree'
    BY <1>1, RowsUntouched
  <1>3. CallsAgree'
    BY <1>1 DEF CallsAgree
  <1>4. request' \in Requests
    BY DEF RequestCalls, CreateRequest, cancel_request, review_request, Release, Approve, Reject,
           Requests, RequestStatuses, Reviews
  <1>5. allocation' \in Allocations
    BY DEF RequestCalls, CreateRequest, cancel_request, review_request, Release, Allocations
  <1> QED
    BY <1>1, <1>2, <1>3, <1>4, <1>5

LEMMA DeliveryCallsKeep ==
    ASSUME DeskAssumption, DeskInv, NEW d \in Deliveries, DeliveryCalls(d)
    PROVE  DeskInv'
  <1> USE DEF DeskInv
  <1>1. d \in Created /\ \E row \in DeliveryRows : RowStep(d, row)
    BY DeliveryStep
  <1>2. PICK row \in DeliveryRows : RowStep(d, row)
    BY <1>1
  <1>3. /\ delivery' \in [Deliveries -> {NoDelivery} \cup DeliveryRows]
        /\ RowsAgree'
    BY <1>1, <1>2, PutKept DEF RowStep
  <1>4. UNCHANGED <<request, allocation, call, active, event, inbox>>
    BY <1>2 DEF RowStep, notices
  <1>5. CallsAgree'
    BY <1>4 DEF CallsAgree
  <1> QED
    BY <1>3, <1>4, <1>5 DEF TypeOK

LEMMA CompletionKeeps ==
    ASSUME DeskAssumption, DeskInv, NEW c \in Calls, ReadForCompletion(c) \/ complete_request(c)
    PROVE  DeskInv'
  <1> USE DEF DeskInv
  <1>1. UNCHANGED <<allocation, delivery, active, event, inbox>>
    BY DEF ReadForCompletion, complete_request, desk, notices
  <1>2. request' \in Requests
    BY DEF ReadForCompletion, complete_request, desk, TypeOK, Requests, RequestStatuses
  <1>3. [op |-> "complete_request"] \in CallStates
    BY DEF CallStates
  <1>4. call' \in [Calls -> CallStates] /\ CallsAgree'
    BY <1>1, <1>3, RememberAgrees, ReturnAgrees DEF ReadForCompletion, complete_request, TypeOK
  <1> QED
    BY <1>1, <1>2, <1>4, RowsUntouched DEF TypeOK

LEMMA ReadToAllocateKeeps ==
    ASSUME DeskAssumption, DeskInv, NEW c \in Calls, NEW quantity \in 1..Demand,
           ReadToAllocate(c, quantity)
    PROVE  DeskInv'
  <1> USE DEF DeskInv
  <1> DEFINE m == [op |-> "allocate", quantity |-> quantity, fulfilled |-> request.fulfilled]
  <1>1. UNCHANGED <<request, allocation, delivery, active, event, inbox>> /\ Remember(c, m)
    BY DEF ReadToAllocate, desk, notices
  <1>2. request.fulfilled \in 0..Demand
    BY DEF TypeOK, Requests
  <1>3. m \in CallStates /\ m.op = "allocate" /\ m.quantity = quantity /\ m.fulfilled = request.fulfilled
    BY <1>2 DEF CallStates
  <1>4. quantity + request.fulfilled <= Demand
    BY <1>2 DEF ReadToAllocate, Remaining, DeskAssumption
  <1> HIDE DEF m
  <1>5. call' \in [Calls -> CallStates] /\ CallsAgree'
    BY <1>1, <1>3, <1>4, RememberAgrees DEF TypeOK
  <1> QED
    BY <1>1, <1>5, RowsUntouched DEF TypeOK

LEMMA AllocateKeeps ==
    ASSUME DeskAssumption, DeskInv, NEW c \in Calls, allocate(c)
    PROVE  DeskInv'
  <1> USE DEF DeskInv
  <1> DEFINE next == call[c].fulfilled + call[c].quantity
  <1>1. UNCHANGED <<delivery, active, event, inbox>>
    BY DEF allocate, notices
  <1>2. next \in 0..Demand
    <2>1. call[c] \in CallStates /\ call[c].op = "allocate"
      BY DEF allocate, TypeOK
    <2>2. call[c].quantity \in 1..Demand /\ call[c].fulfilled \in 0..Demand
      BY <2>1, AllocateShape
    <2>3. call[c].quantity + call[c].fulfilled <= Demand
      BY <2>1 DEF CallsAgree
    <2> QED
      BY <2>2, <2>3 DEF DeskAssumption
  <1> HIDE DEF next
  <1>3. Claim(next) \/ UNCHANGED <<request, allocation>>
    BY DEF allocate, next
  <1>4. request' \in Requests /\ allocation' \in Allocations
    <2>1. CASE Claim(next)
      <3> DEFINE status == IF next >= Demand THEN "ALLOCATED" ELSE "PARTIALLY_ALLOCATED"
      <3>1. status \in RequestStatuses
        BY DEF RequestStatuses
      <3>2. request' = [request EXCEPT !.fulfilled = next, !.status = status]
        BY <2>1 DEF Claim
      <3> HIDE DEF status
      <3>3. request' \in Requests
        BY <1>2, <3>1, <3>2 DEF TypeOK, Requests
      <3>4. allocation' \in Allocations
        BY <1>2, <2>1 DEF Claim, Allocations
      <3> QED
        BY <3>3, <3>4
    <2>2. CASE UNCHANGED <<request, allocation>>
      BY <2>2 DEF TypeOK
    <2> QED
      BY <1>3, <2>1, <2>2
  <1>5. call' \in [Calls -> CallStates] /\ CallsAgree'
    BY <1>1, ReturnAgrees DEF allocate, TypeOK
  <1> QED
    BY <1>1, <1>4, <1>5, RowsUntouched DEF TypeOK

LEMMA ReadToDeliverKeeps ==
    ASSUME DeskAssumption, DeskInv, NEW c \in Calls, ReadToDeliver(c)
    PROVE  DeskInv'
  <1> USE DEF DeskInv
  <1> DEFINE m == [op |-> "create_delivery", quantity |-> allocation.quantity]
  <1>1. UNCHANGED <<request, allocation, delivery, active, event, inbox>> /\ Remember(c, m)
    BY DEF ReadToDeliver, desk, notices
  <1>2. m \in CallStates /\ m.op = "create_delivery"
    BY DEF CallStates, TypeOK, Allocations
  <1> HIDE DEF m
  <1>3. call' \in [Calls -> CallStates] /\ CallsAgree'
    BY <1>1, <1>2, RememberAgrees DEF TypeOK
  <1> QED
    BY <1>1, <1>3, RowsUntouched DEF TypeOK

\* The row that create_delivery puts.
NewRow(quantity) ==
    [status |-> "ALLOCATED", allocated |-> quantity, dispatched |-> 0,
     received |-> 0, handed |-> 0,
     receipt |-> FALSE, recorded |-> FALSE, verified |-> FALSE]

LEMMA NewRowAgrees ==
    ASSUME DeskAssumption, NEW quantity \in 0..Demand
    PROVE  NewRow(quantity) \in DeliveryRows /\ RowAgrees(NewRow(quantity)) /\ ~NewRow(quantity).receipt
  BY DEF NewRow, DeliveryRows, DELIVERY_STATUSES, RowAgrees, HANDOVER_FROM, DeskAssumption

LEMMA CreateStep ==
    ASSUME DeskAssumption, DeskInv, NEW c \in Calls, NEW d \in Deliveries, create_delivery(c, d)
    PROVE  /\ delivery' \in [Deliveries -> {NoDelivery} \cup DeliveryRows]
           /\ RowsAgree'
           /\ Created' = Created \cup {d} /\ d \notin Created
           /\ delivery'[d].receipt = FALSE
           /\ \A e \in Created : delivery'[e] = delivery[e]
  <1> USE DEF DeskInv
  <1>1. call[c].quantity \in 0..Demand
    BY CreateShape DEF create_delivery, TypeOK
  <1> DEFINE row == NewRow(call[c].quantity)
  <1>2. row \in DeliveryRows /\ RowAgrees(row) /\ ~row.receipt /\ row.receipt \in BOOLEAN
    BY <1>1, NewRowAgrees DEF DeliveryRows
  <1>3. delivery' = [delivery EXCEPT ![d] = row] /\ d \notin Created
    BY DEF create_delivery, NewRow
  <1>4. delivery \in [Deliveries -> {NoDelivery} \cup DeliveryRows]
    BY DEF TypeOK
  <1> HIDE DEF row
  <1>5. row # NoDelivery
    BY <1>2, RowIsCreated
  <1>6. /\ delivery' \in [Deliveries -> {NoDelivery} \cup DeliveryRows]
        /\ delivery'[d] = row
        /\ \A e \in Deliveries \ {d} : delivery'[e] = delivery[e]
    BY <1>2, <1>3, <1>4
  <1>7. Created' = Created \cup {d}
    BY <1>5, <1>6 DEF Created
  <1>8. ASSUME NEW e \in Created' PROVE RowAgrees(delivery[e])'
    <2>1. CASE e = d
      BY <2>1, <1>2, <1>6 DEF RowAgrees
    <2>2. CASE e # d
      <3>1. e \in Created /\ delivery'[e] = delivery[e] /\ RowAgrees(delivery[e])
        BY <2>2, <1>6, <1>7 DEF RowsAgree, Created
      <3> QED
        BY <3>1 DEF RowAgrees
    <2> QED
      BY <2>1, <2>2
  <1> QED
    BY <1>2, <1>3, <1>6, <1>7, <1>8 DEF RowsAgree, Created

LEMMA CreateKeeps ==
    ASSUME DeskAssumption, DeskInv, NEW c \in Calls, NEW d \in Deliveries, create_delivery(c, d)
    PROVE  DeskInv'
  <1>1. delivery' \in [Deliveries -> {NoDelivery} \cup DeliveryRows] /\ RowsAgree'
    BY CreateStep
  <1>2. UNCHANGED <<request, allocation, active, event, inbox>>
    BY DEF create_delivery, notices
  <1>3. call' \in [Calls -> CallStates] /\ CallsAgree'
    BY <1>2, ReturnAgrees DEF create_delivery, DeskInv, TypeOK
  <1> QED
    BY <1>1, <1>2, <1>3 DEF DeskInv, TypeOK

LEMMA ReceiptKeeps ==
    ASSUME DeskAssumption, DeskInv, NEW c \in Calls, NEW d \in Deliveries,
           confirm_receipt(c, d)
    PROVE  DeskInv'
  <1> USE DEF DeskInv
  <1>0. d \in Created
    BY DEF confirm_receipt
  <1>1. PICK row \in DeliveryRows :
            RowAgrees(row) /\ PutVersioned(d, row) /\ UNCHANGED <<request, allocation>>
    BY <1>0, ReceiptStep
  <1>2. delivery' \in [Deliveries -> {NoDelivery} \cup DeliveryRows] /\ RowsAgree'
    BY <1>0, <1>1, PutKept
  <1>3. UNCHANGED <<request, allocation, active, event, inbox>>
    BY <1>1 DEF confirm_receipt, notices
  <1> DEFINE m == [op |-> "notify", at |-> d]
  <1>4. m \in CallStates /\ m.op = "notify" /\ Remember(c, m)
    BY DEF CallStates, confirm_receipt, notify_delivery_received, Created, Deliveries, DeskAssumption
  <1> HIDE DEF m
  <1>5. call' \in [Calls -> CallStates] /\ CallsAgree'
    BY <1>3, <1>4, RememberAgrees DEF TypeOK
  <1> QED
    BY <1>2, <1>3, <1>5 DEF TypeOK

LEMMA EmitKeeps ==
    ASSUME DeskAssumption, DeskInv, NEW c \in Calls, NEW actor \in Users,
           EmitEvent(c, actor)
    PROVE  DeskInv'
  <1> USE DEF DeskInv
  <1>1. call[c].at \in Stamps
    BY NotifyShape DEF EmitEvent, TypeOK
  <1>2. event \in Events
    BY DEF TypeOK
  <1>3. event' \in Events /\ event' # NoEvent
    BY <1>1, <1>2 DEF EmitEvent, PutEvent, NewEvent, Events, NoEvent
  <1>4. CreatedAt(call[c].at) \in Stamps
    BY <1>1, <1>2 DEF CreatedAt, Events
  <1> DEFINE m == [op |-> "fanout", at |-> CreatedAt(call[c].at),
                   left |-> resolve_recipients(actor)]
  <1>5. m \in CallStates /\ m.op = "fanout"
    BY <1>1, <1>4 DEF CallStates, resolve_recipients
  <1>6. Remember(c, m) \/ Remember(c, Idle)
    BY DEF EmitEvent
  <1> HIDE DEF m
  <1>7. call' \in [Calls -> CallStates] /\ CallsAgree'
    BY <1>3, <1>5, <1>6, RememberAgrees, IdleTyped DEF TypeOK
  <1> QED
    BY <1>3, <1>7, RowsUntouched DEF EmitEvent, desk, TypeOK

LEMMA FanOutKeeps ==
    ASSUME DeskAssumption, DeskInv, NEW c \in Calls, NEW u \in Users, FanOut(c, u)
    PROVE  DeskInv'
  <1> USE DEF DeskInv
  <1>1. call[c] \in CallStates /\ call[c].op = "fanout" /\ call[c].at \in Stamps
    BY FanoutShape DEF FanOut, TypeOK
  <1>2. inbox' \in Inboxes
    BY <1>1 DEF FanOut, PutInbox, TypeOK, Inboxes
  <1> DEFINE m == [call[c] EXCEPT !.left = @ \ {u}]
  <1>3. m \in CallStates /\ m.op = "fanout"
    BY <1>1 DEF CallStates, Idle
  <1>4. Remember(c, m)
    BY DEF FanOut
  <1> HIDE DEF m
  <1>5. event # NoEvent /\ UNCHANGED event
    BY <1>1 DEF FanOut, CallsAgree
  <1>6. call' \in [Calls -> CallStates] /\ CallsAgree'
    BY <1>3, <1>4, <1>5, RememberAgrees DEF TypeOK
  <1> QED
    BY <1>2, <1>6, RowsUntouched DEF FanOut, desk, TypeOK

LEMMA FinishKeeps ==
    ASSUME DeskAssumption, DeskInv, NEW c \in Calls, FinishFanOut(c) \/ Crash(c)
    PROVE  DeskInv'
  <1> USE DEF DeskInv
  <1>1. UNCHANGED <<request, allocation, delivery, active, inbox>>
    BY DEF FinishFanOut, Crash, desk, notices
  <1>2. event' \in Events /\ (event # NoEvent => event' # NoEvent)
    <2>1. CASE FinishFanOut(c)
      <3>1. event # NoEvent
        BY <2>1 DEF FinishFanOut, CallsAgree
      <3>2. event \in [fanout: {"PENDING", "COMPLETE"}, created_at: Stamps]
        BY <3>1 DEF TypeOK, Events
      <3>3. event' = [event EXCEPT !.fanout = "COMPLETE"]
        BY <2>1 DEF FinishFanOut, CompleteFanout
      <3>4. /\ event' \in [fanout: {"PENDING", "COMPLETE"}, created_at: Stamps]
            /\ event'.fanout = "COMPLETE"
        BY <3>2, <3>3
      <3> QED
        BY <3>4 DEF Events, NoEvent
    <2>2. CASE Crash(c)
      BY <2>2 DEF Crash, notices, TypeOK
    <2> QED
      BY <2>1, <2>2
  <1>3. call' \in [Calls -> CallStates] /\ CallsAgree'
    BY <1>2, ReturnAgrees DEF FinishFanOut, Crash, TypeOK
  <1> QED
    BY <1>1, <1>2, <1>3, RowsUntouched DEF TypeOK

LEMMA ReadKeeps ==
    ASSUME DeskAssumption, DeskInv, NEW u \in Users, NEW at \in Stamps, Read(u, at)
    PROVE  DeskInv'
  <1> USE DEF DeskInv
  <1>1. UNCHANGED <<request, allocation, delivery, call, active, event>>
    BY DEF Read, MarkRead, MarkAllRead, SetRead, desk
  <1>2. inbox \in Inboxes /\ inbox' = [inbox EXCEPT ![u][at] = "read"]
    BY DEF Read, MarkRead, MarkAllRead, SetRead, TypeOK
  <1>4. inbox' \in Inboxes
    BY <1>2 DEF Inboxes
  <1>3. CallsAgree'
    BY <1>1 DEF CallsAgree
  <1> QED
    BY <1>1, <1>3, <1>4, RowsUntouched DEF TypeOK

LEMMA SuspendKeeps ==
    ASSUME DeskInv, SuspendOrganization
    PROVE  DeskInv'
  <1>1. UNCHANGED <<request, allocation, delivery, call, event, inbox>>
    BY DEF SuspendOrganization, Suspend, desk
  <1>2. active' \in BOOLEAN
    BY ZenonT(30) DEF SuspendOrganization, Suspend
  <1>3. CallsAgree'
    BY <1>1 DEF DeskInv, CallsAgree
  <1> QED
    BY <1>1, <1>2, <1>3, RowsUntouched DEF DeskInv, TypeOK

LEMMA InvocationKeeps ==
    ASSUME DeskAssumption, DeskInv, NEW c \in Calls, Invocation(c)
    PROVE  DeskInv'
  BY CompletionKeeps, ReadToAllocateKeeps, AllocateKeeps, ReadToDeliverKeeps, CreateKeeps,
     ReceiptKeeps, EmitKeeps, FanOutKeeps, FinishKeeps DEF Invocation

LEMMA DeskStep ==
    ASSUME DeskAssumption, DeskInv, [Next]_vars
    PROVE  DeskInv'
  <1>1. CASE RequestCalls
    BY <1>1, RequestCallsKeep
  <1>2. CASE \E d \in Deliveries : DeliveryCalls(d)
    BY <1>2, DeliveryCallsKeep
  <1>3. CASE \E c \in Calls : Invocation(c)
    BY <1>3, InvocationKeeps
  <1>4. CASE \E u \in Users, at \in Stamps : Read(u, at)
    BY <1>4, ReadKeeps
  <1>5. CASE UNCHANGED vars
    <2>1. UNCHANGED <<request, allocation, delivery, call, active, event, inbox>>
      BY <1>5 DEF vars
    <2>2. RowsAgree' /\ CallsAgree'
      BY <2>1, RowsUntouched DEF DeskInv, CallsAgree
    <2> QED
      BY <2>1, <2>2 DEF DeskInv, TypeOK
  <1>6. CASE SuspendOrganization
    BY <1>6, SuspendKeeps
  <1> QED
    BY <1>1, <1>2, <1>3, <1>4, <1>5, <1>6 DEF Next

LEMMA DeskCorrect == Spec => []DeskInv
  <1>1. Init => DeskInv
    BY InitDesk, DeskAssumption
  <1>2. DeskInv /\ [Next]_vars => DeskInv'
    BY DeskStep, DeskAssumption
  <1> QED
    BY <1>1, <1>2, PTL DEF Spec

\* Every row and every memory stays of its type (all handlers of the desk).
THEOREM TypeCorrect == Spec => []TypeOK
  <1>1. DeskInv => TypeOK
    BY DEF DeskInv
  <1> QED
    BY <1>1, DeskCorrect, PTL

\* The quantities of a delivery only shrink on the way and its flags agree with
\* its status, in whatever order its operations are called
\* (delivery_service.py).
THEOREM QuantitiesCorrect == Spec => []QuantitiesAgree
  <1>1. DeskInv => QuantitiesAgree
    BY DEF DeskInv, RowsAgree, RowAgrees, QuantitiesAgree
  <1> QED
    BY <1>1, DeskCorrect, PTL

-----------------------------------------------------------------------------
(* The request against ReliefCase                                          *)

Served == request.status \notin {"NONE", "PENDING", "CANCELLED", "REJECTED"}
Claimable == {"PENDING", "PARTIALLY_ALLOCATED"}
Cleared == request.status # "NONE" /\ AllocationReviewAllowed
Held == IF allocation.status = "ALLOCATED" THEN allocation.quantity ELSE 0
Arrived == \E d \in Created : delivery[d].receipt

\* What the request's row says about the other rows and about calls in flight.
CaseInv ==
    /\ request.status = "NONE" => request.review = "PENDING_REVIEW"
    /\ request.status \in Claimable \cup {"NONE"} => request.fulfilled = Held
    /\ allocation.status # "NONE" => Served
    /\ Created # {} => Served
    /\ \A c \in Calls :
        /\ call[c].op = "allocate" /\ request.status \in Claimable => AllocationReviewAllowed
        /\ call[c].op = "allocate" => request.status # "NONE"
        /\ call[c].op = "create_delivery" => Served
        /\ call[c].op = "complete_request" => Arrived

CaseStep == CaseInv' /\ (Case!Next \/ UNCHANGED Case!vars)

\* Steps that touch neither request nor allocation keep the receipts, and begin
\* only calls that the rows allow.
LEMMA CaseUntouched ==
    ASSUME CaseInv, UNCHANGED <<request, allocation>>,
           Created' # {} => Served,
           Arrived => Arrived', Arrived' => Served,
           NEW c \in Calls, \A x \in Calls \ {c} : call'[x] = call[x],
           \/ call'[c].op \notin {"allocate", "create_delivery", "complete_request"}
           \/ call'[c] = call[c]
           \/ call'[c].op = "allocate" /\ AllocationReviewAllowed /\ request.status # "NONE"
           \/ call'[c].op = "create_delivery" /\ Served
           \/ call'[c].op = "complete_request" /\ Arrived
    PROVE  CaseStep
  <1>1. UNCHANGED <<request.status, Cleared, Held, AllocationReviewAllowed, Served>>
    BY DEF Cleared, Held, AllocationReviewAllowed, Served
  <1>2. CaseInv'
    BY <1>1 DEF CaseInv
  <1>3. Arrived \in BOOLEAN /\ Arrived' \in BOOLEAN
    BY DEF Arrived
  <1>4. Arrived' = Arrived \/ Arrived' = TRUE
    BY <1>3
  <1>5. Case!Next \/ UNCHANGED Case!vars
    <2>1. CASE Arrived' = Arrived
      BY <1>1, <2>1 DEF Case!vars, Cleared, Held, Arrived
    <2>2. CASE Arrived' = TRUE
      <3>1. Served
        BY <2>2
      <3>2. Case!Arrive
        BY <1>1, <2>2, <3>1 DEF Case!Arrive, Served, Cleared, Held, Arrived
      <3> QED
        BY <3>2 DEF Case!Next
    <2> QED
      BY <1>4, <2>1, <2>2
  <1> QED
    BY <1>2, <1>5 DEF CaseStep

LEMMA InitCase ==
    ASSUME DeskAssumption, Init
    PROVE  CaseInv /\ Case!Init
  <1>1. Created = {} /\ \A c \in Calls : call[c].op = "none"
    BY IdleTyped DEF Init, Created
  <1>2. allocation.status = "NONE" /\ Held = 0 /\ ~Arrived
    BY <1>1 DEF Init, Held, Arrived
  <1>3. request.fulfilled = 0
    BY DEF Init
  <1>4. \/ request.status = "NONE" /\ request.review = "PENDING_REVIEW"
        \/ request.status = "PENDING" /\ request.review = ""
    BY DEF Init
  <1>5. CaseInv
    BY <1>1, <1>2, <1>3, <1>4 DEF CaseInv
  <1>6. Case!Init
    BY <1>2, <1>4 DEF Case!Init, Held, Arrived, AllocationReviewAllowed
  <1> QED
    BY <1>5, <1>6

\* Submission, cancellation, review and release.
LEMMA RequestCallsCase ==
    ASSUME DeskAssumption, DeskInv, CaseInv, RequestCalls
    PROVE  CaseStep
  <1>1. UNCHANGED <<delivery, call>> /\ UNCHANGED <<Created, Arrived>>
    BY DEF RequestCalls, CreateRequest, cancel_request, review_request, Release, Created, Arrived
  <1>2. request \in Requests /\ allocation \in Allocations
    BY DEF DeskInv, TypeOK
  <1>3. CASE CreateRequest
    <2>1. /\ request.status = "NONE" /\ request'.status = "PENDING" /\ UNCHANGED allocation
          /\ request'.review = "PENDING_REVIEW" /\ request.review = "PENDING_REVIEW"
          /\ request'.fulfilled = request.fulfilled
      BY <1>2, <1>3 DEF CreateRequest, Requests, CaseInv
    <2>2. UNCHANGED <<Cleared, Held>>
      BY <2>1 DEF Cleared, Held, AllocationReviewAllowed
    <2>3. CaseInv'
      BY <1>1, <2>1, <2>2 DEF CaseInv, Served, Claimable
    <2>4. Case!Submit
      BY <1>1, <2>1, <2>2 DEF Case!Submit, Cleared, Held, Arrived
    <2> QED
      BY <2>3, <2>4 DEF CaseStep, Case!Next
  <1>4. CASE cancel_request
    <2>1. /\ request.status = "PENDING" /\ request'.status = "CANCELLED" /\ UNCHANGED allocation
          /\ request'.review = request.review
      BY <1>2, <1>4 DEF cancel_request, Requests
    <2>2. UNCHANGED <<Cleared, Held>>
      BY <2>1 DEF Cleared, Held, AllocationReviewAllowed
    <2>3. CaseInv'
      BY <1>1, <2>1, <2>2 DEF CaseInv, Served, Claimable
    <2>4. Case!TurnAway
      BY <1>1, <2>1, <2>2 DEF Case!TurnAway, Cleared, Held, Arrived
    <2> QED
      BY <2>3, <2>4 DEF CaseStep, Case!Next
  <1>5. CASE review_request /\ Approve
    <2>1. /\ request.status = "PENDING" /\ request'.status = "PENDING" /\ UNCHANGED allocation
          /\ request'.review = "APPROVED" /\ request'.fulfilled = request.fulfilled
      BY <1>2, <1>5 DEF review_request, Approve, Requests
    <2>2. UNCHANGED Held /\ Cleared' = TRUE /\ AllocationReviewAllowed'
      BY <2>1 DEF Cleared, Held, AllocationReviewAllowed
    <2>3. CaseInv'
      BY <1>1, <2>1, <2>2 DEF CaseInv, Served, Claimable
    <2>4. Case!Clear
      BY <1>1, <2>1, <2>2 DEF Case!Clear, Cleared, Held, Arrived
    <2> QED
      BY <2>3, <2>4 DEF CaseStep, Case!Next
  <1>6. CASE review_request /\ Reject
    <2>1. /\ request.status = "PENDING" /\ request'.status = "REJECTED" /\ UNCHANGED allocation
          /\ request'.review = "REJECTED"
      BY <1>2, <1>6 DEF review_request, Reject, Requests
    <2>2. UNCHANGED Held /\ Cleared' = FALSE
      BY <2>1 DEF Cleared, Held, AllocationReviewAllowed
    <2>3. CaseInv'
      BY <1>1, <2>1, <2>2 DEF CaseInv, Served, Claimable
    <2>4. Case!TurnAway
      BY <1>1, <2>1, <2>2 DEF Case!TurnAway, Cleared, Held, Arrived
    <2> QED
      BY <2>3, <2>4 DEF CaseStep, Case!Next
  <1>7. CASE Release
    <2>1. /\ request.status = "ALLOCATED" /\ request'.status = "RELEASED"
          /\ allocation'.status = "RELEASED" /\ request'.review = request.review
      BY <1>2, <1>7 DEF Release, ReleaseCondition, Requests, Allocations
    <2>2. UNCHANGED Cleared /\ Held' = 0
      BY <2>1 DEF Cleared, Held, AllocationReviewAllowed
    <2>3. CaseInv'
      BY <1>1, <2>1, <2>2 DEF CaseInv, Served, Claimable
    <2>4. Case!GiveBack
      BY <1>1, <2>1, <2>2 DEF Case!GiveBack, Cleared, Held, Arrived
    <2> QED
      BY <2>3, <2>4 DEF CaseStep, Case!Next
  <1> QED
    BY <1>3, <1>4, <1>5, <1>6, <1>7 DEF RequestCalls, review_request

\* A claim: the request still lacks what the call saw, so that the allocation
\* grows by what was claimed.
LEMMA AllocateCase ==
    ASSUME DeskAssumption, DeskInv, CaseInv, NEW c \in Calls, allocate(c)
    PROVE  CaseStep
  <1> DEFINE next == call[c].fulfilled + call[c].quantity
  <1>1. /\ call' \in [Calls -> CallStates] /\ call'[c] = Idle
        /\ \A x \in Calls \ {c} : call'[x] = call[x]
    BY RememberTyped, IdleTyped DEF allocate, Return, DeskInv, TypeOK
  <1>2. UNCHANGED delivery /\ UNCHANGED <<Created, Arrived>>
    BY DEF allocate, Created, Arrived
  <1>3. CASE ClaimCondition(call[c]) /\ Claim(next)
    <2>1. request \in Requests
      BY DEF DeskInv, TypeOK
    <2>2. /\ call[c].quantity \in 1..Demand /\ call[c].fulfilled \in 0..Demand
          /\ call[c].quantity + call[c].fulfilled <= Demand
      BY AllocateShape DEF allocate, DeskInv, TypeOK, CallsAgree
    <2>3. request.status \in Claimable /\ request.fulfilled = call[c].fulfilled
      BY <1>3 DEF ClaimCondition, Claimable
    <2>4. AllocationReviewAllowed /\ Held = call[c].fulfilled
      BY <2>3 DEF CaseInv, allocate
    <2>5. next \in (Held + 1)..Demand /\ Demand \in Nat
      BY <2>2, <2>4 DEF DeskAssumption
    <2> HIDE DEF next
    <2>6. /\ request'.status = IF next = Demand THEN "ALLOCATED" ELSE "PARTIALLY_ALLOCATED"
          /\ request'.fulfilled = next /\ request'.review = request.review
      <3> DEFINE status == IF next >= Demand THEN "ALLOCATED" ELSE "PARTIALLY_ALLOCATED"
      <3>1. request' = [request EXCEPT !.fulfilled = next, !.status = status]
        BY <1>3 DEF Claim
      <3>2. status = IF next = Demand THEN "ALLOCATED" ELSE "PARTIALLY_ALLOCATED"
        BY <2>5, <2>2, <2>4
      <3> HIDE DEF status
      <3>3. request'.status = status /\ request'.fulfilled = next /\ request'.review = request.review
        BY <2>1, <3>1 DEF Requests
      <3> QED
        BY <3>2, <3>3
    <2>7. allocation'.status = "ALLOCATED" /\ Held' = next
      BY <1>3 DEF Claim, Held
    <2>8. AllocationReviewAllowed' /\ Cleared /\ Cleared'
      BY <2>3, <2>4, <2>6 DEF Cleared, AllocationReviewAllowed, Claimable
    <2>9. Served'
      BY <2>6 DEF Served
    <2>10. CaseInv'
      BY <1>1, <1>2, <2>6, <2>7, <2>8, <2>9, IdleTyped DEF CaseInv, Claimable
    <2>11. Case!Hold
      BY <1>2, <2>3, <2>5, <2>6, <2>7, <2>8 DEF Case!Hold, Cleared, Held, Arrived, Claimable
    <2> QED
      BY <2>10, <2>11 DEF CaseStep, Case!Next
  <1>4. CASE UNCHANGED <<request, allocation>>
    <2>1. (Arrived' => Served) /\ (Created' # {} => Served)
      BY <1>2 DEF Arrived, CaseInv
    <2> QED
      BY <1>1, <1>2, <1>4, <2>1, CaseUntouched, IdleTyped
  <1> QED
    BY <1>3, <1>4 DEF allocate

\* The completion: what it saw received stays received.
LEMMA CompleteCase ==
    ASSUME DeskAssumption, DeskInv, CaseInv, NEW c \in Calls, complete_request(c)
    PROVE  CaseStep
  <1>1. /\ call'[c] = Idle
        /\ \A x \in Calls \ {c} : call'[x] = call[x]
    BY RememberTyped, IdleTyped DEF complete_request, Return, DeskInv, TypeOK
  <1>2. UNCHANGED <<delivery, allocation>> /\ UNCHANGED <<Created, Arrived, Held>>
    BY DEF complete_request, Created, Arrived, Held
  <1>3. CASE request.status = "ALLOCATED"
    <2>1. request'.status = "COMPLETED" /\ request'.review = request.review
      BY <1>3 DEF complete_request, DeskInv, TypeOK, Requests
    <2>2. UNCHANGED Cleared /\ Served' /\ Arrived
      BY <1>3, <2>1 DEF Cleared, AllocationReviewAllowed, Served, CaseInv, complete_request
    <2>3. CaseInv'
      BY <1>1, <1>2, <2>1, <2>2, IdleTyped DEF CaseInv, Claimable
    <2>4. Case!Complete
      BY <1>2, <1>3, <2>1, <2>2 DEF Case!Complete, Cleared, Held, Arrived
    <2> QED
      BY <2>3, <2>4 DEF CaseStep, Case!Next
  <1>4. CASE request.status # "ALLOCATED"
    <2>1. UNCHANGED <<request, allocation>>
      BY <1>2, <1>4 DEF complete_request
    <2>2. (Arrived' => Served) /\ (Created' # {} => Served)
      BY <1>2 DEF Arrived, CaseInv
    <2> QED
      BY <1>1, <1>2, <2>1, <2>2, CaseUntouched, IdleTyped
  <1> QED
    BY <1>3, <1>4

\* A write of a delivery that was received keeps the receipt.
LEMMA DeliveryCallsCase ==
    ASSUME DeskAssumption, DeskInv, CaseInv, NEW d \in Deliveries, DeliveryCalls(d)
    PROVE  CaseStep
  <1>1. d \in Created /\ \E row \in DeliveryRows : RowStep(d, row)
    BY DeliveryStep DEF DeskInv
  <1>2. PICK row \in DeliveryRows : RowStep(d, row)
    BY <1>1
  <1>3. /\ Created' = Created /\ delivery'[d] = row
        /\ \A e \in Created \ {d} : delivery'[e] = delivery[e]
    BY <1>1, <1>2, PutKept DEF RowStep, DeskInv
  <1>4. \A e \in Created : delivery'[e].receipt = delivery[e].receipt
    BY <1>2, <1>3 DEF RowStep
  <1>5. UNCHANGED <<request, allocation, call>>
    BY <1>2 DEF RowStep
  <1>6. Arrived' = Arrived
    BY <1>3, <1>4 DEF Arrived
  <1>7. UNCHANGED <<Served, Cleared, Held, AllocationReviewAllowed>>
    BY <1>5 DEF Served, Cleared, Held, AllocationReviewAllowed
  <1>8. CaseInv'
    BY <1>3, <1>5, <1>6, <1>7 DEF CaseInv
  <1>9. UNCHANGED Case!vars
    BY <1>5, <1>6, <1>7 DEF Case!vars, Cleared, Held, Arrived
  <1> QED
    BY <1>8, <1>9 DEF CaseStep

LEMMA ReceiptCase ==
    ASSUME DeskAssumption, DeskInv, CaseInv, NEW c \in Calls, NEW d \in Deliveries,
           confirm_receipt(c, d)
    PROVE  CaseStep
  <1>0. d \in Created
    BY DEF confirm_receipt
  <1>1. PICK row \in DeliveryRows :
            RowAgrees(row) /\ row.receipt /\ PutVersioned(d, row)
            /\ UNCHANGED <<request, allocation>>
    BY <1>0, ReceiptStep DEF DeskInv
  <1>2. Created' = Created /\ delivery'[d] = row
    BY <1>0, <1>1, PutKept DEF DeskInv
  <1>3. Arrived' /\ Served
    BY <1>0, <1>1, <1>2 DEF Arrived, CaseInv
  <1> DEFINE m == [op |-> "notify", at |-> d]
  <1>4. m \in CallStates /\ m.op = "notify" /\ Remember(c, m)
    BY DEF CallStates, confirm_receipt, notify_delivery_received, Created, Deliveries, DeskAssumption
  <1> HIDE DEF m
  <1>5. call'[c] = m /\ \A x \in Calls \ {c} : call'[x] = call[x]
    BY <1>4, RememberTyped DEF DeskInv, TypeOK
  <1> QED
    BY <1>1, <1>3, <1>4, <1>5, CaseUntouched

LEMMA CreateCase ==
    ASSUME DeskAssumption, DeskInv, CaseInv, NEW c \in Calls, NEW d \in Deliveries,
           create_delivery(c, d)
    PROVE  CaseStep
  <1>1. /\ Created' = Created \cup {d} /\ delivery'[d].receipt = FALSE
        /\ \A e \in Created : delivery'[e] = delivery[e]
    BY CreateStep
  <1>2. Arrived' = Arrived
    BY <1>1 DEF Arrived
  <1>3. Served
    BY DEF create_delivery, CaseInv
  <1>4. call'[c] = Idle /\ \A x \in Calls \ {c} : call'[x] = call[x]
    BY RememberTyped, IdleTyped DEF create_delivery, Return, DeskInv, TypeOK
  <1>5. UNCHANGED <<request, allocation>>
    BY DEF create_delivery
  <1> QED
    BY <1>2, <1>3, <1>4, <1>5, CaseUntouched, IdleTyped

\* The reads of the calls, and the steps of a notice.
LEMMA RememberCase ==
    ASSUME DeskAssumption, DeskInv, CaseInv, NEW c \in Calls, NEW m \in CallStates,
           Remember(c, m), UNCHANGED <<request, allocation, delivery>>,
           \/ m.op \notin {"allocate", "create_delivery", "complete_request"}
           \/ m.op = "allocate" /\ AllocationReviewAllowed /\ request.status # "NONE"
           \/ m.op = "create_delivery" /\ Served
           \/ m.op = "complete_request" /\ Arrived
    PROVE  CaseStep
  <1>1. call'[c] = m /\ \A x \in Calls \ {c} : call'[x] = call[x]
    BY RememberTyped DEF DeskInv, TypeOK
  <1>2. UNCHANGED <<Created, Arrived>>
    BY DEF Created, Arrived
  <1>3. (Arrived' => Served) /\ (Created' # {} => Served)
    BY <1>2 DEF Arrived, CaseInv
  <1> QED
    BY <1>1, <1>2, <1>3, CaseUntouched

LEMMA ReadsCase ==
    ASSUME DeskAssumption, DeskInv, CaseInv, NEW c \in Calls,
           \/ ReadForCompletion(c) \/ ReadToDeliver(c)
           \/ \E quantity \in 1..Demand : ReadToAllocate(c, quantity)
    PROVE  CaseStep
  <1>1. CASE ReadForCompletion(c)
    <2> DEFINE m == [op |-> "complete_request"]
    <2>1. m \in CallStates /\ m.op = "complete_request"
      BY DEF CallStates
    <2>2. Remember(c, m) /\ UNCHANGED <<request, allocation, delivery>>
      BY <1>1 DEF ReadForCompletion, desk
    <2>3. Arrived
      <3>1. PICK d \in Created : delivery[d].status \in RECEIPT_COMPLETE
        BY <1>1 DEF ReadForCompletion, receipt_allows_completion
      <3>2. RowAgrees(delivery[d])
        BY DEF DeskInv, RowsAgree
      <3>3. delivery[d].receipt
        BY <3>1, <3>2 DEF RowAgrees, RECEIPT_COMPLETE, HANDOVER_FROM
      <3> QED
        BY <3>3 DEF Arrived
    <2> HIDE DEF m
    <2> QED
      BY <2>1, <2>2, <2>3, RememberCase
  <1>2. CASE ReadToDeliver(c)
    <2> DEFINE m == [op |-> "create_delivery", quantity |-> allocation.quantity]
    <2>1. m \in CallStates /\ m.op = "create_delivery"
      BY DEF CallStates, DeskInv, TypeOK, Allocations
    <2>2. Remember(c, m) /\ UNCHANGED <<request, allocation, delivery>>
      BY <1>2 DEF ReadToDeliver, desk
    <2>3. Served
      BY <1>2 DEF ReadToDeliver, CaseInv
    <2> HIDE DEF m
    <2> QED
      BY <2>1, <2>2, <2>3, RememberCase
  <1>3. ASSUME NEW quantity \in 1..Demand, ReadToAllocate(c, quantity) PROVE CaseStep
    <2> DEFINE m == [op |-> "allocate", quantity |-> quantity, fulfilled |-> request.fulfilled]
    <2>1. m \in CallStates /\ m.op = "allocate"
      BY DEF CallStates, DeskInv, TypeOK, Requests
    <2>2. Remember(c, m) /\ UNCHANGED <<request, allocation, delivery>>
      BY <1>3 DEF ReadToAllocate, desk
    <2>3. AllocationReviewAllowed /\ request.status # "NONE"
      BY <1>3 DEF ReadToAllocate
    <2> HIDE DEF m
    <2> QED
      BY <2>1, <2>2, <2>3, RememberCase
  <1> QED
    BY <1>1, <1>2, <1>3

LEMMA NoticeCase ==
    ASSUME DeskAssumption, DeskInv, CaseInv, NEW c \in Calls,
           \/ FinishFanOut(c) \/ Crash(c)
           \/ \E actor \in Users : EmitEvent(c, actor)
           \/ \E u \in Users : FanOut(c, u)
    PROVE  CaseStep
  <1>1. UNCHANGED <<request, allocation, delivery>>
    BY DEF EmitEvent, FinishFanOut, Crash, FanOut, desk
  <1>2. \E m \in CallStates : m.op \in {"none", "fanout"} /\ Remember(c, m)
    <2>1. CASE FinishFanOut(c) \/ Crash(c)
      BY <2>1, IdleTyped DEF FinishFanOut, Crash, Return
    <2>2. ASSUME NEW actor \in Users, EmitEvent(c, actor)
          PROVE  \E m \in CallStates : m.op \in {"none", "fanout"} /\ Remember(c, m)
      <3>1. call[c].at \in Stamps /\ event \in Events
        BY <2>2, NotifyShape DEF EmitEvent, DeskInv, TypeOK
      <3>2. CreatedAt(call[c].at) \in Stamps
        BY <3>1 DEF CreatedAt, Events
      <3> DEFINE m == [op |-> "fanout", at |-> CreatedAt(call[c].at),
                       left |-> resolve_recipients(actor)]
      <3>3. m \in CallStates /\ m.op = "fanout"
        BY <3>1, <3>2 DEF CallStates, resolve_recipients
      <3>4. Remember(c, m) \/ Remember(c, Idle)
        BY <2>2 DEF EmitEvent
      <3> HIDE DEF m
      <3> QED
        BY <3>3, <3>4, IdleTyped
    <2>3. ASSUME NEW u \in Users, FanOut(c, u)
          PROVE  \E m \in CallStates : m.op \in {"none", "fanout"} /\ Remember(c, m)
      <3> DEFINE m == [call[c] EXCEPT !.left = @ \ {u}]
      <3>1. call[c] \in CallStates /\ call[c].op = "fanout"
        BY <2>3 DEF FanOut, DeskInv, TypeOK
      <3>2. m \in CallStates /\ m.op = "fanout"
        BY <3>1 DEF CallStates, Idle
      <3>3. Remember(c, m)
        BY <2>3 DEF FanOut
      <3> HIDE DEF m
      <3> QED
        BY <3>2, <3>3
    <2> QED
      BY <2>1, <2>2, <2>3
  <1>3. PICK m \in CallStates : m.op \in {"none", "fanout"} /\ Remember(c, m)
    BY <1>2
  <1> QED
    BY <1>1, <1>3, RememberCase

LEMMA SameRowsCase ==
    ASSUME CaseInv, UNCHANGED <<request, allocation, delivery, call>>
    PROVE  CaseStep
  BY DEF CaseStep, CaseInv, Case!vars, Created, Arrived, Held, Served, AllocationReviewAllowed

LEMMA CaseNext ==
    ASSUME DeskAssumption, DeskInv, CaseInv, [Next]_vars
    PROVE  CaseStep
  <1>1. CASE RequestCalls
    BY <1>1, RequestCallsCase
  <1>2. CASE \E d \in Deliveries : DeliveryCalls(d)
    BY <1>2, DeliveryCallsCase
  <1>3. CASE \E c \in Calls : Invocation(c)
    BY <1>3, CompleteCase, AllocateCase, ReceiptCase, CreateCase, ReadsCase, NoticeCase DEF Invocation
  <1>4. CASE \E u \in Users, at \in Stamps : Read(u, at)
    BY <1>4, SameRowsCase DEF Read, desk
  <1>5. CASE UNCHANGED vars
    BY <1>5, SameRowsCase DEF vars
  <1>6. CASE SuspendOrganization
    BY <1>6, SameRowsCase DEF SuspendOrganization, desk
  <1> QED
    BY <1>1, <1>2, <1>3, <1>4, <1>5, <1>6 DEF Next

\* Reviews, cancellations, overlapping claims, releases, deliveries and the
\* completion implement ReliefCase: nothing is held for a request that was not
\* cleared, claims never exceed the demand, and a completed request has a
\* confirmed receipt (request/handler.py, allocation/service.py,
\* delivery_service.py).
THEOREM CaseCorrect == Spec => ImplementsCase
  <1>1. Init => CaseInv /\ Case!Init
    BY InitCase, DeskAssumption
  <1>2. DeskInv /\ CaseInv /\ [Next]_vars => CaseInv' /\ [Case!Next]_(Case!vars)
    BY CaseNext, DeskAssumption DEF CaseStep
  <1>3. Spec => []DeskInv
    BY DeskCorrect
  <1> QED
    BY <1>1, <1>2, <1>3, PTL DEF Spec, ImplementsCase, Case!Spec

-----------------------------------------------------------------------------
(* Notices                                                                 *)

Has(u, at) == inbox[u][at] # "none"

\* The members that a fan-out notifies in an ACTIVE organization.
First(actor) == {u \in Users \ {actor} : Ahead(actor, u) < FanoutCap}

\* Everyone that an emission of some actor notifies has the notice, but those
\* that are left; HaveNext says the same of the next state.
HaveAllBut(left, at) == \E actor \in Users : \A u \in First(actor) \ left : Has(u, at)
HaveNext(left, at) ==
    \E actor \in Users : \A u \in First(actor) \ left : inbox'[u][at] # "none"

\* Every notice in an inbox has the time of the event; a fan-out in flight has
\* put that of each member it is done with.
NoticesInv ==
    /\ \A u \in Users, t \in Stamps : Has(u, t) => event # NoEvent /\ t = event.created_at
    /\ \A c \in Calls : call[c].op = "fanout" =>
           /\ call[c].at = event.created_at
           /\ active => HaveAllBut(call[c].left, event.created_at)
    /\ active /\ event.fanout = "COMPLETE" => HaveAllBut({}, event.created_at)

\* What no step does: change the time of the event, take a notice away, make it
\* unread again, or lift a suspension.
NoticesGrow ==
    /\ event # NoEvent => event' # NoEvent /\ event'.created_at = event.created_at
    /\ \A u \in Users, t \in Stamps :
           /\ Has(u, t) => inbox'[u][t] # "none"
           /\ inbox[u][t] = "read" => inbox'[u][t] = "read"
    /\ active' => active

NoticesStep == NoticesInv' /\ NoticesGrow

LEMMA RecipientsFacts ==
    ASSUME NEW actor \in Users
    PROVE  /\ resolve_recipients(actor) \subseteq Users
           /\ active => resolve_recipients(actor) = First(actor)
           /\ First(actor) \subseteq Users
  BY DEF resolve_recipients, First

\* The invariant in the next state, part by part.
LEMMA InvNext ==
    ASSUME \A u \in Users, t \in Stamps :
               inbox'[u][t] # "none" => event' # NoEvent /\ t = event'.created_at,
           \A c \in Calls : call'[c].op = "fanout" =>
               /\ call'[c].at = event'.created_at
               /\ active' => HaveNext(call'[c].left, event'.created_at),
           active' /\ event'.fanout = "COMPLETE" => HaveNext({}, event'.created_at)
    PROVE  NoticesInv'
  BY DEF NoticesInv, HaveAllBut, HaveNext, Has

LEMMA HaveGrows ==
    ASSUME NoticesGrow, NEW left, NEW at \in Stamps, HaveAllBut(left, at)
    PROVE  HaveNext(left, at)
  BY DEF HaveAllBut, HaveNext, NoticesGrow, First

\* An event that was put has a time.
LEMMA EventShape ==
    ASSUME event \in Events, event # NoEvent
    PROVE  event \in [fanout: {"PENDING", "COMPLETE"}, created_at: Stamps]
  BY DEF Events

LEMMA InitNotices ==
    ASSUME Init
    PROVE  NoticesInv
  BY IdleTyped DEF Init, NoticesInit, NoticesInv, Has, NoEvent

\* The time of an event is that of every fan-out in flight.
LEMMA FanOutTime ==
    ASSUME DeskInv, NoticesInv
    PROVE  /\ event # NoEvent => event.created_at \in Stamps
           /\ \A c \in Calls : call[c].op = "fanout" =>
                  event # NoEvent /\ event.created_at = call[c].at /\ call[c].at \in Stamps
           /\ event.fanout = "COMPLETE" => event # NoEvent
  <1>1. event # NoEvent => event.created_at \in Stamps
    BY EventShape DEF DeskInv, TypeOK
  <1>2. event.fanout = "COMPLETE" => event # NoEvent
    BY DEF NoEvent
  <1> QED
    BY <1>1, <1>2 DEF DeskInv, CallsAgree, NoticesInv

\* Steps that change only memories and perhaps the organization's status, and
\* begin no fan-out.
LEMMA NoticesUntouched ==
    ASSUME DeskInv, NoticesInv, UNCHANGED <<event, inbox>>, active' => active,
           \A x \in Calls : call'[x].op = "fanout" => call'[x] = call[x]
    PROVE  NoticesStep
  <1>1. NoticesGrow
    BY DEF NoticesGrow, Has
  <1>2. ASSUME NEW c \in Calls, call'[c].op = "fanout"
        PROVE  /\ call'[c].at = event'.created_at
               /\ active' => HaveNext(call'[c].left, event'.created_at)
    <2>1. call'[c] = call[c] /\ call[c].at = event.created_at /\ event.created_at \in Stamps
          /\ (active => HaveAllBut(call[c].left, event.created_at))
      BY <1>2, FanOutTime DEF NoticesInv
    <2> QED
      BY <1>1, <2>1, HaveGrows
  <1>3. active' /\ event'.fanout = "COMPLETE" => HaveNext({}, event'.created_at)
    BY <1>1, HaveGrows, FanOutTime DEF NoticesInv
  <1>4. \A u \in Users, t \in Stamps :
            inbox'[u][t] # "none" => event' # NoEvent /\ t = event'.created_at
    BY DEF NoticesInv, Has
  <1>5. NoticesInv'
    BY <1>2, <1>3, <1>4, InvNext
  <1> QED
    BY <1>1, <1>5 DEF NoticesStep

LEMMA SuspendNotices ==
    ASSUME DeskInv, NoticesInv, SuspendOrganization
    PROVE  NoticesStep
  <1>1. UNCHANGED <<event, inbox, call>> /\ active
    BY DEF SuspendOrganization, Suspend
  <1> QED
    BY <1>1, NoticesUntouched

\* A call that remembers something else than a fan-out.
LEMMA NoFanOut ==
    ASSUME DeskInv, NoticesInv, UNCHANGED <<active, event, inbox>>,
           NEW c \in Calls, NEW m \in CallStates, m.op # "fanout", Remember(c, m)
    PROVE  NoticesStep
  <1>1. call'[c] = m /\ \A x \in Calls \ {c} : call'[x] = call[x]
    BY RememberTyped DEF DeskInv, TypeOK
  <1> QED
    BY <1>1, NoticesUntouched

LEMMA ReadsNotices ==
    ASSUME DeskAssumption, DeskInv, NoticesInv, NEW c \in Calls,
           \/ ReadForCompletion(c) \/ complete_request(c) \/ allocate(c) \/ ReadToDeliver(c)
           \/ Crash(c)
           \/ \E quantity \in 1..Demand : ReadToAllocate(c, quantity)
           \/ \E d \in Deliveries : create_delivery(c, d)
           \/ \E d \in Deliveries : confirm_receipt(c, d)
    PROVE  NoticesStep
  <1>1. UNCHANGED <<active, event, inbox>>
    BY DEF ReadForCompletion, complete_request, allocate, ReadToDeliver, Crash, ReadToAllocate,
           create_delivery, confirm_receipt, notices
  <1>2. CASE complete_request(c) \/ allocate(c) \/ Crash(c) \/ \E d \in Deliveries : create_delivery(c, d)
    BY <1>1, <1>2, NoFanOut, IdleTyped DEF complete_request, allocate, Crash, create_delivery, Return
  <1>3. CASE ReadForCompletion(c)
    <2> DEFINE m == [op |-> "complete_request"]
    <2>1. m \in CallStates /\ m.op # "fanout" /\ Remember(c, m)
      BY <1>3 DEF CallStates, ReadForCompletion
    <2> HIDE DEF m
    <2> QED
      BY <1>1, <2>1, NoFanOut
  <1>4. CASE ReadToDeliver(c)
    <2> DEFINE m == [op |-> "create_delivery", quantity |-> allocation.quantity]
    <2>1. m \in CallStates /\ m.op # "fanout" /\ Remember(c, m)
      BY <1>4 DEF CallStates, ReadToDeliver, DeskInv, TypeOK, Allocations
    <2> HIDE DEF m
    <2> QED
      BY <1>1, <2>1, NoFanOut
  <1>5. ASSUME NEW quantity \in 1..Demand, ReadToAllocate(c, quantity) PROVE NoticesStep
    <2> DEFINE m == [op |-> "allocate", quantity |-> quantity, fulfilled |-> request.fulfilled]
    <2>1. m \in CallStates /\ m.op # "fanout" /\ Remember(c, m)
      BY <1>5 DEF CallStates, ReadToAllocate, DeskInv, TypeOK, Requests
    <2> HIDE DEF m
    <2> QED
      BY <1>1, <2>1, NoFanOut
  <1>6. ASSUME NEW d \in Deliveries, confirm_receipt(c, d) PROVE NoticesStep
    <2> DEFINE m == [op |-> "notify", at |-> d]
    <2>1. m \in CallStates /\ m.op # "fanout" /\ Remember(c, m)
      BY <1>6 DEF CallStates, confirm_receipt, notify_delivery_received, Created, Deliveries,
                  DeskAssumption
    <2> HIDE DEF m
    <2> QED
      BY <1>1, <2>1, NoFanOut
  <1> QED
    BY <1>2, <1>3, <1>4, <1>5, <1>6

LEMMA EmitNotices ==
    ASSUME DeskAssumption, DeskInv, NoticesInv, NEW c \in Calls, NEW actor \in Users,
           EmitEvent(c, actor)
    PROVE  NoticesStep
  <1>1. call[c].at \in Stamps /\ event \in Events
    BY NotifyShape DEF EmitEvent, DeskInv, TypeOK
  <1>2. UNCHANGED <<active, inbox>>
    BY DEF EmitEvent
  <1> DEFINE at == CreatedAt(call[c].at)
             left == resolve_recipients(actor)
             m == [op |-> "fanout", at |-> at, left |-> left]
  <1>3. at \in Stamps /\ event' # NoEvent /\ event'.created_at = at
    <2>1. CASE event = NoEvent
      BY <1>1, <2>1 DEF EmitEvent, PutEvent, NewEvent, CreatedAt, NoEvent
    <2>2. CASE event # NoEvent
      BY <1>1, <2>2, EventShape DEF EmitEvent, PutEvent, CreatedAt
    <2> QED
      BY <2>1, <2>2
  <1>4. event # NoEvent => event' = event
    BY DEF EmitEvent, PutEvent
  <1>5. left \subseteq Users /\ (active => left = First(actor))
    BY <1>1, RecipientsFacts
  <1>6. Remember(c, m) \/ Remember(c, Idle)
    BY DEF EmitEvent
  <1> HIDE DEF at, left
  <1>7. m \in CallStates /\ m.op = "fanout" /\ m.at = at /\ m.left = left
    BY <1>3, <1>5 DEF CallStates
  <1> HIDE DEF m
  <1>8. /\ call'[c] \in {m, Idle}
        /\ \A x \in Calls \ {c} : call'[x] = call[x]
    BY <1>6, <1>7, IdleTyped, RememberTyped DEF DeskInv, TypeOK
  <1>9. NoticesGrow
    BY <1>2, <1>3, <1>4 DEF NoticesGrow, Has
  <1>10. \A u \in Users, t \in Stamps :
             inbox'[u][t] # "none" => event' # NoEvent /\ t = event'.created_at
    BY <1>2, <1>3, <1>4 DEF NoticesInv, Has
  <1>11. active => HaveNext(left, at)
    BY <1>1, <1>5 DEF HaveNext
  <1>12. ASSUME NEW x \in Calls, call'[x].op = "fanout"
         PROVE  /\ call'[x].at = event'.created_at
                /\ active' => HaveNext(call'[x].left, event'.created_at)
    <2>1. CASE x = c
      BY <2>1, <1>2, <1>3, <1>7, <1>8, <1>11, <1>12, IdleTyped
    <2>2. CASE x # c
      <3>1. call'[x] = call[x] /\ call[x].op = "fanout"
        BY <2>2, <1>8, <1>12
      <3>2. event' = event /\ event.created_at = call[x].at /\ call[x].at \in Stamps
            /\ (active => HaveAllBut(call[x].left, call[x].at))
        BY <3>1, <1>4, FanOutTime DEF NoticesInv
      <3> QED
        BY <3>1, <3>2, <1>2, <1>9, HaveGrows
    <2> QED
      BY <2>1, <2>2
  <1>13. active' /\ event'.fanout = "COMPLETE" => HaveNext({}, event'.created_at)
    <2>1. event'.fanout = "COMPLETE" => event' = event
      BY DEF EmitEvent, PutEvent, NewEvent
    <2> QED
      BY <2>1, <1>2, <1>9, HaveGrows, FanOutTime DEF NoticesInv
  <1>14. NoticesInv'
    BY <1>10, <1>12, <1>13, InvNext
  <1> QED
    BY <1>9, <1>14 DEF NoticesStep

LEMMA FanOutNotices ==
    ASSUME DeskAssumption, DeskInv, NoticesInv, NEW c \in Calls, NEW u \in Users, FanOut(c, u)
    PROVE  NoticesStep
  <1>1. call[c] \in CallStates /\ call[c].op = "fanout" /\ event # NoEvent
        /\ call[c].at \in Stamps /\ event.created_at = call[c].at
    BY FanOutTime DEF FanOut, DeskInv, TypeOK
  <1>2. UNCHANGED <<active, event>> /\ inbox \in Inboxes
    BY DEF FanOut, DeskInv, TypeOK
  <1> DEFINE left == call[c].left
             at == call[c].at
             m == [call[c] EXCEPT !.left = @ \ {u}]
  <1>3. m \in CallStates /\ m.op = "fanout" /\ m.at = at /\ m.left = left \ {u}
    BY <1>1 DEF CallStates, Idle
  <1>4. Remember(c, m)
    BY DEF FanOut
  <1> HIDE DEF m
  <1>5. call'[c] = m /\ \A x \in Calls \ {c} : call'[x] = call[x]
    BY <1>3, <1>4, RememberTyped DEF DeskInv, TypeOK
  <1>6. /\ inbox'[u][at] = IF inbox[u][at] = "none" THEN "unread" ELSE inbox[u][at]
        /\ \A v \in Users, t \in Stamps : v # u \/ t # at => inbox'[v][t] = inbox[v][t]
    BY <1>1, <1>2 DEF FanOut, PutInbox, Inboxes
  <1>7. active => HaveAllBut(left, at)
    BY <1>1 DEF NoticesInv
  <1> HIDE DEF left, at
  <1>8. NoticesGrow
    BY <1>2, <1>6 DEF NoticesGrow, Has
  <1>9. \A v \in Users, t \in Stamps :
            inbox'[v][t] # "none" => event' # NoEvent /\ t = event'.created_at
    BY <1>1, <1>2, <1>6 DEF NoticesInv, Has, at
  <1>10. active => HaveNext(left \ {u}, at)
    <2> SUFFICES ASSUME active PROVE HaveNext(left \ {u}, at)
      OBVIOUS
    <2>1. PICK actor \in Users : \A v \in First(actor) \ left : inbox'[v][at] # "none"
      BY <1>1, <1>7, <1>8, HaveGrows DEF HaveNext, at
    <2>2. inbox'[u][at] # "none"
      BY <1>6
    <2> QED
      BY <2>1, <2>2 DEF HaveNext
  <1>11. ASSUME NEW x \in Calls, call'[x].op = "fanout"
         PROVE  /\ call'[x].at = event'.created_at
                /\ active' => HaveNext(call'[x].left, event'.created_at)
    <2>1. CASE x = c
      BY <2>1, <1>1, <1>2, <1>3, <1>5, <1>10 DEF at
    <2>2. CASE x # c
      <3>1. call'[x] = call[x] /\ call[x].op = "fanout"
        BY <2>2, <1>5, <1>11
      <3>2. event.created_at = call[x].at /\ call[x].at \in Stamps
            /\ (active => HaveAllBut(call[x].left, call[x].at))
        BY <3>1, FanOutTime DEF NoticesInv
      <3> QED
        BY <3>1, <3>2, <1>2, <1>8, HaveGrows
    <2> QED
      BY <2>1, <2>2
  <1>12. active' /\ event'.fanout = "COMPLETE" => HaveNext({}, event'.created_at)
    BY <1>2, <1>8, HaveGrows, FanOutTime DEF NoticesInv
  <1>13. NoticesInv'
    BY <1>9, <1>11, <1>12, InvNext
  <1> QED
    BY <1>8, <1>13 DEF NoticesStep

\* A fan-out that finishes has put a row for every recipient of its emission.
LEMMA FinishNotices ==
    ASSUME DeskAssumption, DeskInv, NoticesInv, NEW c \in Calls, FinishFanOut(c)
    PROVE  NoticesStep
  <1>1. /\ call[c].op = "fanout" /\ call[c].left = {}
        /\ event # NoEvent /\ event \in Events /\ event.created_at \in Stamps
    BY FanOutTime DEF FinishFanOut, DeskInv, TypeOK
  <1>2. UNCHANGED <<active, inbox>> /\ event' = [event EXCEPT !.fanout = "COMPLETE"]
    BY DEF FinishFanOut, CompleteFanout
  <1>3. event' # NoEvent /\ event'.created_at = event.created_at
    <2>1. event \in [fanout: {"PENDING", "COMPLETE"}, created_at: Stamps]
      BY <1>1, EventShape
    <2>2. event'.fanout = "COMPLETE" /\ event'.created_at = event.created_at
      BY <2>1, <1>2
    <2> QED
      BY <2>2 DEF NoEvent
  <1>4. call'[c] = Idle /\ \A x \in Calls \ {c} : call'[x] = call[x]
    BY RememberTyped, IdleTyped DEF FinishFanOut, Return, DeskInv, TypeOK
  <1>5. NoticesGrow
    BY <1>2, <1>3 DEF NoticesGrow, Has
  <1>6. active' => HaveNext({}, event'.created_at)
    BY <1>1, <1>2, <1>3, <1>5, HaveGrows DEF NoticesInv
  <1>7. ASSUME NEW x \in Calls, call'[x].op = "fanout"
        PROVE  /\ call'[x].at = event'.created_at
               /\ active' => HaveNext(call'[x].left, event'.created_at)
    <2>1. call'[x] = call[x] /\ call[x].op = "fanout"
      BY <1>4, <1>7, IdleTyped
    <2> QED
      BY <2>1, <1>1, <1>2, <1>3, <1>5, HaveGrows DEF NoticesInv
  <1>8. \A u \in Users, t \in Stamps :
            inbox'[u][t] # "none" => event' # NoEvent /\ t = event'.created_at
    BY <1>2, <1>3 DEF NoticesInv, Has
  <1>9. NoticesInv'
    BY <1>6, <1>7, <1>8, InvNext
  <1> QED
    BY <1>5, <1>9 DEF NoticesStep

LEMMA ReadNotices ==
    ASSUME DeskInv, NoticesInv, NEW u \in Users, NEW at \in Stamps, Read(u, at)
    PROVE  NoticesStep
  <1>1. UNCHANGED <<active, event, call>> /\ inbox \in Inboxes
    BY DEF Read, MarkRead, MarkAllRead, SetRead, desk, DeskInv, TypeOK
  <1>2. inbox[u][at] = "unread" /\ inbox' = [inbox EXCEPT ![u][at] = "read"]
    BY DEF Read, MarkRead, MarkAllRead, SetRead
  <1>3. /\ inbox'[u][at] = "read"
        /\ \A v \in Users, t \in Stamps : v # u \/ t # at => inbox'[v][t] = inbox[v][t]
    BY <1>1, <1>2 DEF Inboxes
  <1>4. NoticesGrow
    BY <1>1, <1>3 DEF NoticesGrow, Has
  <1>5. \A v \in Users, t \in Stamps :
            inbox'[v][t] # "none" => event' # NoEvent /\ t = event'.created_at
    BY <1>1, <1>2, <1>3 DEF NoticesInv, Has
  <1>6. ASSUME NEW c \in Calls, call'[c].op = "fanout"
        PROVE  /\ call'[c].at = event'.created_at
               /\ active' => HaveNext(call'[c].left, event'.created_at)
    <2>1. call'[c] = call[c] /\ call[c].op = "fanout"
      BY <1>1, <1>6
    <2> QED
      BY <2>1, <1>1, <1>4, HaveGrows, FanOutTime DEF NoticesInv
  <1>7. active' /\ event'.fanout = "COMPLETE" => HaveNext({}, event'.created_at)
    BY <1>1, <1>4, HaveGrows, FanOutTime DEF NoticesInv
  <1>8. NoticesInv'
    BY <1>5, <1>6, <1>7, InvNext
  <1> QED
    BY <1>4, <1>8 DEF NoticesStep

LEMMA NoticesNext ==
    ASSUME DeskAssumption, DeskInv, NoticesInv, [Next]_vars
    PROVE  NoticesStep
  <1>1. CASE RequestCalls
    <2>1. UNCHANGED <<call, active, event, inbox>>
      BY <1>1 DEF RequestCalls, CreateRequest, cancel_request, review_request, Release, notices
    <2> QED
      BY <2>1, NoticesUntouched
  <1>2. CASE \E d \in Deliveries : DeliveryCalls(d)
    <2>1. \E d \in Created, row \in DeliveryRows : RowStep(d, row)
      BY <1>2, DeliveryStep DEF DeskInv
    <2>2. UNCHANGED <<call, active, event, inbox>>
      BY <2>1 DEF RowStep, notices
    <2> QED
      BY <2>2, NoticesUntouched
  <1>3. CASE \E c \in Calls : Invocation(c)
    BY <1>3, ReadsNotices, EmitNotices, FanOutNotices, FinishNotices DEF Invocation
  <1>4. CASE \E u \in Users, at \in Stamps : Read(u, at)
    BY <1>4, ReadNotices
  <1>5. CASE UNCHANGED vars
    BY <1>5, NoticesUntouched DEF vars
  <1>6. CASE SuspendOrganization
    BY <1>6, SuspendNotices
  <1> QED
    BY <1>1, <1>2, <1>3, <1>4, <1>5, <1>6 DEF Next

\* Whoever is not among the first of a fan-out has FanoutCap others before him.
LEMMA NotFirst ==
    ASSUME NEW actor \in Users, NEW u \in Users \ {actor}, u \notin First(actor)
    PROVE  Ahead(actor, u) >= FanoutCap
  <1> DEFINE before == {v \in Users \ {actor} : v < u}
  <1>1. IsFiniteSet(before)
    BY NoticesAssumption, FS_Subset
  <1>2. Cardinality(before) \in Nat
    BY <1>1, FS_CardinalityType
  <1>3. Ahead(actor, u) = Cardinality(before)
    BY DEF Ahead
  <1>4. ~(Ahead(actor, u) < FanoutCap)
    BY ZenonT(30) DEF First
  <1> HIDE DEF before
  <1> QED
    BY <1>2, <1>3, <1>4, NoticesAssumption

LEMMA NoticesSafe ==
    ASSUME DeskInv, NoticesInv
    PROVE  NoticesReachAll
  <1>1. ASSUME active, event.fanout = "COMPLETE"
        PROVE  \E actor \in Users : \A u \in Users \ {actor} :
                   Noticed(u) # {} \/ Ahead(actor, u) >= FanoutCap
    <2>1. event.created_at \in Stamps /\ HaveAllBut({}, event.created_at)
      BY <1>1, FanOutTime DEF NoticesInv
    <2>2. PICK actor \in Users : \A u \in First(actor) : Has(u, event.created_at)
      BY <2>1 DEF HaveAllBut
    <2>3. ASSUME NEW u \in Users \ {actor}
          PROVE  Noticed(u) # {} \/ Ahead(actor, u) >= FanoutCap
      <3>1. CASE u \in First(actor)
        BY <3>1, <2>1, <2>2 DEF Noticed, Has
      <3>2. CASE u \notin First(actor)
        BY <3>2, NotFirst
      <3> QED
        BY <3>1, <3>2
    <2> QED
      BY <2>3
  <1>2. \A u \in Users : \A s, t \in Noticed(u) : s = t
    BY DEF NoticesInv, Noticed, Has
  <1> QED
    BY <1>1, <1>2 DEF NoticesReachAll

\* While the organization is ACTIVE, a fan-out marked COMPLETE reached the first
\* FanoutCap members of one emission, the others of which have that many before
\* them; and no member has the notice twice, however emissions overlap or die
\* (_emit_notification_event, resolve_recipients).
THEOREM NoticesCorrect == Spec => []NoticesReachAll
  <1>1. Init => NoticesInv
    BY InitNotices
  <1>2. DeskInv /\ NoticesInv /\ [Next]_vars => NoticesInv'
    BY NoticesNext, DeskAssumption DEF NoticesStep
  <1>3. DeskInv /\ NoticesInv => NoticesReachAll
    BY NoticesSafe
  <1>4. Spec => []DeskInv
    BY DeskCorrect
  <1> QED
    BY <1>1, <1>2, <1>3, <1>4, PTL DEF Spec

\* A notice that was read is never unread again (the conditional put of the
\* fan-out, mark_read).
THEOREM ReadCorrect == Spec => ReadStaysRead
  <1> DEFINE Stays == \A u \in Users, t \in Stamps : inbox[u][t] = "read" => inbox'[u][t] = "read"
  <1>1. Init => NoticesInv
    BY InitNotices
  <1>2. DeskInv /\ NoticesInv /\ [Next]_vars => NoticesInv' /\ Stays
    BY NoticesNext, DeskAssumption DEF NoticesStep, NoticesGrow
  <1>3. Spec => []DeskInv
    BY DeskCorrect
  <1> HIDE DEF Stays
  <1>4. Spec => [][Stays]_notices
    BY <1>1, <1>2, <1>3, PTL DEF Spec
  <1> QED
    BY <1>4 DEF ReadStaysRead, Stays

=============================================================================
