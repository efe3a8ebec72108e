----------------------------- MODULE HoldLedger -----------------------------
(***************************************************************************)
(* One individual resource is taken by three independent workflows: an     *)
(* emergency claim, an everyday allocation and an exchange hold.  Each     *)
(* leaves a row in the Allocations table and flips operational_status and  *)
(* Available on the resource row; nothing else keeps them apart.  This     *)
(* module models every handler that writes those two tables for a resource *)
(* with tracking_mode INDIVIDUAL, the request and exchange META rows that  *)
(* commit in the same transactions, and the three scheduled workers.       *)
(*                                                                         *)
(* A handler whose write rechecks all it read is one action.  A handler    *)
(* that acts on an earlier read is split at that read; its memory is then  *)
(* in call (lifecycle endpoints), starting (start_transfer), decision      *)
(* (auto release) or dueItem (reservation expiry), and Crash loses it.     *)
(*                                                                         *)
(* An operator marked [mutant] is a plausible mistake in the definition    *)
(* after it; no specification uses it.  It shows that a property can fail. *)
(***************************************************************************)
EXTENDS Naturals, FiniteSets

CONSTANTS
    Resources,        \* resource_id of individual resources
    Orgs,             \* organization_id
    Users,            \* actor_sub of the members who reserve
    Nobody,           \* reserved_by is absent
    Requests,         \* emergency requests; q also names its allocation ALLOC-q
    Tickets,          \* ids of everyday allocations
    Exchanges,        \* exchange requests; x also names its EXCHANGE allocation
    OrgOf,            \* the organization of a request, the requester of an exchange
    Calls,            \* lifecycle calls that may be in flight at once
    MaxReservations,  \* bound: reservations made of one resource
    LookupRows,       \* allocations of an organization at which a holder lookup stops
    HeldItemEndpoints \* lifecycle endpoints operators call on an ALLOCATED item

Holds == Requests \cup Tickets \cup Exchanges

ASSUME HoldsDisjoint ==
    /\ Requests \cap Tickets = {}
    /\ Requests \cap Exchanges = {}
    /\ Tickets \cap Exchanges = {}

ASSUME OrgOfType == Orgs # {} /\ OrgOf \in [Requests \cup Exchanges -> Orgs]

ASSUME BoundsType == MaxReservations \in Nat /\ LookupRows \in Nat /\ Nobody \notin Users

Status == {"AVAILABLE", "RESERVED", "ALLOCATED", "IN_USE",
           "MAINTENANCE", "DAMAGED", "RETIRED"}

AllowedTransitions ==
    [AVAILABLE   |-> {"RESERVED", "ALLOCATED", "MAINTENANCE", "DAMAGED", "RETIRED"},
     RESERVED    |-> {"AVAILABLE", "ALLOCATED", "MAINTENANCE", "DAMAGED"},
     ALLOCATED   |-> {"IN_USE", "AVAILABLE"},
     IN_USE      |-> {"AVAILABLE", "MAINTENANCE", "DAMAGED"},
     MAINTENANCE |-> {"AVAILABLE", "RETIRED"},
     DAMAGED     |-> {"AVAILABLE", "MAINTENANCE", "RETIRED"},
     RETIRED     |-> {}]

\* The target statuses each lifecycle endpoint may ask for.
Targets ==
    [start_maintenance    |-> {"MAINTENANCE"},
     complete_maintenance |-> {"AVAILABLE"},
     mark_damaged         |-> {"DAMAGED"},
     recover_damage       |-> {"AVAILABLE", "MAINTENANCE"},
     retire_resource      |-> {"RETIRED"},
     mark_in_use          |-> {"IN_USE"},
     return_to_available  |-> {"AVAILABLE"}]

Endpoints == {"start_maintenance", "complete_maintenance", "mark_damaged",
              "recover_damage", "retire_resource", "mark_in_use",
              "return_to_available"}

\* The endpoints that query the Allocations table before they write.
HoldChecked == {"start_maintenance", "mark_damaged", "retire_resource",
                "return_to_available"}

ASSUME EndpointsType == HeldItemEndpoints \subseteq Endpoints

VARIABLES
    resource,  \* the Resources table
    alloc,     \* the Allocations table
    request,   \* Status of each emergency request
    meta,      \* status of each exchange's META row
    overdue,   \* the auto-release cutoff or the exchange deadline has passed
    call,      \* lifecycle calls in flight
    starting,  \* exchanges whose start_transfer has read but not yet written
    decision,  \* free_resource as auto release decided it, before its write
    dueItem,   \* the row as reservation expiry's query returned it
    malformed  \* the exchange sweep meets a row whose expires_at does not parse

vars == <<resource, alloc, request, meta, overdue, call, starting, decision, dueItem,
          malformed>>

-----------------------------------------------------------------------------

\* stamp stands for reserved_at: it counts the reservations of the row.  due
\* stands for reservation_expires_at, by where the clock is against it.
Row == [status: Status \cup {"ABSENT"}, available: BOOLEAN, org: Orgs,
        by: Users \cup {Nobody}, stamp: 0..MaxReservations,
        due: {"none", "running", "lapsed"}]

NoRow == [status |-> "ABSENT", available |-> FALSE, org |-> CHOOSE o \in Orgs : TRUE,
          by |-> Nobody, stamp |-> 0, due |-> "none"]

NoAllocation == [status |-> "NONE"]

Allocation == [status: {"ALLOCATED", "OPEN", "RELEASED", "RETURNED"},
               resource: Resources, org: Orgs]

Idle == [step |-> "idle"]

LifecycleCall == [step: {"row", "checked", "closing"}, op: Endpoints,
                  target: Status, resource: Resources, org: Orgs,
                  seen: Status, open: SUBSET Holds]

Held(x) == meta[x] \in {"ACCEPTED", "TRANSFER_PENDING"}

Live(h) == alloc[h].status \in {"ALLOCATED", "OPEN"}

HoldsOn(r) == {h \in Holds : Live(h) /\ alloc[h].resource = r}

\* [mutant] operational_status is written without Available.
SetStatusAlone(row, s) == [row EXCEPT !.status = s]

SetStatus(row, s) == [row EXCEPT !.status = s, !.available = (s = "AVAILABLE")]

\* A new reservation: its actor, its time, and a due time two hours away.
Reserved(row, u) ==
    [status |-> "RESERVED", available |-> FALSE, org |-> row.org,
     by |-> u, stamp |-> row.stamp + 1, due |-> "running"]

\* [mutant] The handover removes the old owner and writes no new one.
ClearedOwner(row, o) == [row EXCEPT !.org = Nobody]

\* The new owner after a handover.
HandedTo(row, o) == [row EXCEPT !.org = o]

\* REMOVE of RESERVATION_HELD_ATTRIBUTES.
Unreserved(row) == [row EXCEPT !.by = Nobody, !.due = "none"]

\* [mutant] The candidate's status is trusted as listed, not rechecked.
ClaimableUnchecked(row, o) == row.org = o /\ row.status # "ABSENT"

\* [mutant] The owner is not rechecked.
ClaimableByAnyone(row, o) == row.available /\ row.status = "AVAILABLE"

\* EMERGENCY_CLAIM_CONDITION, the condition of an emergency claim and of accept.
Claimable(row, o) == row.available /\ row.org = o /\ row.status = "AVAILABLE"

\* [mutant] Available is tested the wrong way round.
StillHeldInverted(row, o) == row.available /\ row.org = o /\ row.status = "ALLOCATED"

\* The condition under which a transaction may give a held item back.
StillHeld(row, o) == ~row.available /\ row.org = o /\ row.status = "ALLOCATED"

-----------------------------------------------------------------------------

Init ==
    /\ resource = [r \in Resources |-> NoRow]
    /\ alloc = [h \in Holds |-> NoAllocation]
    /\ request = [q \in Requests |-> "PENDING"]
    /\ meta = [x \in Exchanges |-> "OPEN"]
    /\ overdue = [h \in Requests \cup Exchanges |-> FALSE]
    /\ call = [c \in Calls |-> Idle]
    /\ starting = {}
    /\ decision = [q \in Requests |-> "none"]
    /\ dueItem = [r \in Resources |-> NoRow]
    /\ malformed = FALSE

Register(r, o) ==
    /\ resource[r].status = "ABSENT"
    /\ resource' = [resource EXCEPT ![r] =
                       [status |-> "AVAILABLE", available |-> TRUE, org |-> o,
                        by |-> Nobody, stamp |-> 0, due |-> "none"]]
    /\ UNCHANGED <<alloc, request, meta, overdue, call, starting, decision, dueItem, malformed>>

-----------------------------------------------------------------------------
(* Everyday operations.                                                    *)

Reserve(r, u) ==
    /\ Claimable(resource[r], resource[r].org)
    /\ resource[r].stamp < MaxReservations
    /\ resource' = [resource EXCEPT ![r] = Reserved(@, u)]
    /\ UNCHANGED <<alloc, request, meta, overdue, call, starting, decision, dueItem, malformed>>

ReleaseReservation(r, u) ==
    /\ resource[r].status = "RESERVED"
    /\ resource[r].by = u
    /\ resource' = [resource EXCEPT ![r] = Unreserved(SetStatus(@, "AVAILABLE"))]
    /\ UNCHANGED <<alloc, request, meta, overdue, call, starting, decision, dueItem, malformed>>

AllocationItems(r, t) ==
    /\ resource' = [resource EXCEPT ![r] = Unreserved(SetStatus(@, "ALLOCATED"))]
    /\ alloc' = [alloc EXCEPT ![t] =
                    [status |-> "OPEN", resource |-> r, org |-> resource[r].org]]

\* From RESERVED the condition does not name the member who reserved.
EverydayAllocate(r, t) ==
    /\ alloc[t] = NoAllocation
    /\ \/ resource[r].status = "RESERVED"
       \/ Claimable(resource[r], resource[r].org)
    /\ AllocationItems(r, t)
    /\ UNCHANGED <<request, meta, overdue, call, starting, decision, dueItem, malformed>>

ReturnItems(r, t) ==
    /\ resource' = [resource EXCEPT ![r] = SetStatus(@, "AVAILABLE")]
    /\ alloc' = [alloc EXCEPT ![t].status = "RETURNED"]

EverydayReturn(r, t) ==
    /\ alloc[t].status = "OPEN"
    /\ alloc[t].resource = r
    /\ resource[r].org = alloc[t].org
    /\ resource[r].status \in {"ALLOCATED", "IN_USE"}
    /\ ReturnItems(r, t)
    /\ UNCHANGED <<request, meta, overdue, call, starting, decision, dueItem, malformed>>

-----------------------------------------------------------------------------
(* Emergency requests, their claim and its release.                        *)

\* cancel_request, or a reviewer's rejection.
CloseUnallocated(q) ==
    /\ request[q] = "PENDING"
    /\ \E s \in {"CANCELLED", "REJECTED"} : request' = [request EXCEPT ![q] = s]
    /\ UNCHANGED <<resource, alloc, meta, overdue, call, starting, decision, dueItem, malformed>>

EmergencyClaim(q, r) ==
    /\ request[q] = "PENDING"
    /\ alloc[q] = NoAllocation
    /\ Claimable(resource[r], OrgOf[q])
    /\ resource' = [resource EXCEPT ![r] = SetStatus(@, "ALLOCATED")]
    /\ alloc' = [alloc EXCEPT ![q] =
                    [status |-> "ALLOCATED", resource |-> r, org |-> OrgOf[q]]]
    /\ request' = [request EXCEPT ![q] = "ALLOCATED"]
    /\ UNCHANGED <<meta, overdue, call, starting, decision, dueItem, malformed>>

\* The three conditions of the release transaction, and its three writes.
CanRelease(q, r, free) ==
    /\ alloc[q].status = "ALLOCATED"
    /\ alloc[q].resource = r
    /\ request[q] = "ALLOCATED"
    /\ free => StillHeld(resource[r], alloc[q].org)

\* [mutant] The request is left out of the release transaction.
CommitItemsOnly(q, r, free) ==
    /\ resource' = IF free
                   THEN [resource EXCEPT ![r] = SetStatus(@, "AVAILABLE")]
                   ELSE resource
    /\ alloc' = [alloc EXCEPT ![q].status = "RELEASED"]
    /\ UNCHANGED request

CommitRelease(q, r, free) ==
    /\ resource' = IF free
                   THEN [resource EXCEPT ![r] = SetStatus(@, "AVAILABLE")]
                   ELSE resource
    /\ alloc' = [alloc EXCEPT ![q].status = "RELEASED"]
    /\ request' = [request EXCEPT ![q] = "RELEASED"]

\* POST /allocate/resources/release.
ReleaseResource(q, r) ==
    /\ CanRelease(q, r, TRUE)
    /\ CommitRelease(q, r, TRUE)
    /\ UNCHANGED <<meta, overdue, call, starting, decision, dueItem, malformed>>

OtherHolder(q) == \E p \in Requests \ {q} :
    /\ alloc[p].status = "ALLOCATED"
    /\ alloc[p].resource = alloc[q].resource
    /\ alloc[p].org = alloc[q].org

\* The lookup pages through all allocations of the organization, ended ones too,
\* and no row is ever deleted.  A lookup that stops at its last page is incomplete.
LookupComplete(o) ==
    Cardinality({h \in Holds : alloc[h] # NoAllocation /\ alloc[h].org = o}) < LookupRows

\* Auto release reads the expired allocation, its resource and the other
\* holders, and decides whether its transaction will free the resource.  It
\* skips the release when the lookup is incomplete and has met no other holder.
LookupHolders(q) ==
    /\ decision[q] = "none"
    /\ alloc[q].status = "ALLOCATED"
    /\ overdue[q]
    /\ resource[alloc[q].resource].org = alloc[q].org
    /\ OtherHolder(q) \/ LookupComplete(alloc[q].org)
    /\ decision' = [decision EXCEPT ![q] = IF OtherHolder(q) THEN "keep" ELSE "free"]
    /\ UNCHANGED <<resource, alloc, request, meta, overdue, call, starting, dueItem, malformed>>

AutoRelease(q, r) ==
    /\ decision[q] # "none"
    /\ alloc[q].resource = r
    /\ IF CanRelease(q, r, decision[q] = "free")
       THEN CommitRelease(q, r, decision[q] = "free")
       ELSE UNCHANGED <<resource, alloc, request>>
    /\ decision' = [decision EXCEPT ![q] = "none"]
    /\ UNCHANGED <<meta, overdue, call, starting, dueItem, malformed>>

\* complete_request writes the request only: the allocation stays ALLOCATED.
CompleteRequest(q) ==
    /\ request[q] = "ALLOCATED"
    /\ alloc[q].status = "ALLOCATED"
    /\ request' = [request EXCEPT ![q] = "COMPLETED"]
    /\ UNCHANGED <<resource, alloc, meta, overdue, call, starting, decision, dueItem, malformed>>

-----------------------------------------------------------------------------
(* Exchange requests.  Offers are abstracted to the resource the accepted  *)
(* one names; every handler first expires a META row that is overdue.      *)

AcceptOffer(x, r) ==
    /\ meta[x] = "OPEN"
    /\ ~overdue[x]
    /\ alloc[x] = NoAllocation
    /\ resource[r].org # OrgOf[x]
    /\ Claimable(resource[r], resource[r].org)
    /\ meta' = [meta EXCEPT ![x] = "ACCEPTED"]
    /\ resource' = [resource EXCEPT ![r] = SetStatus(@, "ALLOCATED")]
    /\ alloc' = [alloc EXCEPT ![x] =
                    [status |-> "OPEN", resource |-> r, org |-> resource[r].org]]
    /\ UNCHANGED <<request, overdue, call, starting, decision, dueItem, malformed>>

StartTransferRead(x, r) ==
    /\ x \notin starting
    /\ meta[x] = "ACCEPTED"
    /\ ~overdue[x]
    /\ alloc[x].status = "OPEN"
    /\ alloc[x].resource = r
    /\ resource[r].org = alloc[x].org
    /\ resource[r].status = "ALLOCATED"
    /\ starting' = starting \cup {x}
    /\ UNCHANGED <<resource, alloc, request, meta, overdue, call, decision, dueItem, malformed>>

\* The write is conditional on the META row alone.
StartTransferCommit(x) ==
    /\ x \in starting
    /\ starting' = starting \ {x}
    /\ meta' = IF meta[x] = "ACCEPTED"
               THEN [meta EXCEPT ![x] = "TRANSFER_PENDING"] ELSE meta
    /\ UNCHANGED <<resource, alloc, request, overdue, call, decision, dueItem, malformed>>

\* The one step that changes a resource's owner.
ConfirmHandover(x, r) ==
    /\ meta[x] = "TRANSFER_PENDING"
    /\ ~overdue[x]
    /\ alloc[x].status = "OPEN"
    /\ alloc[x].resource = r
    /\ StillHeld(resource[r], alloc[x].org)
    /\ meta' = [meta EXCEPT ![x] = "COMPLETED"]
    /\ resource' = [resource EXCEPT ![r] =
                       HandedTo(SetStatus(@, "AVAILABLE"), OrgOf[x])]
    /\ alloc' = [alloc EXCEPT ![x].status = "RELEASED"]
    /\ UNCHANGED <<request, overdue, call, starting, decision, dueItem, malformed>>

\* [mutant] Ending a held exchange leaves its hold in place.
EndMetaOnly(x, terminal) ==
    /\ meta[x] = "OPEN" \/ Held(x)
    /\ meta' = [meta EXCEPT ![x] = terminal]
    /\ UNCHANGED <<resource, alloc>>

\* [mutant] A hold that cannot be given back does not stop the exchange ending.
EndIgnoringConflict(x, terminal) ==
    /\ meta[x] = "OPEN" \/ Held(x)
    /\ meta' = [meta EXCEPT ![x] = terminal]
    /\ IF Held(x) /\ StillHeld(resource[alloc[x].resource], alloc[x].org)
       THEN /\ resource' = [resource EXCEPT ![alloc[x].resource] = SetStatus(@, "AVAILABLE")]
            /\ alloc' = [alloc EXCEPT ![x].status = "RELEASED"]
       ELSE UNCHANGED <<resource, alloc>>

\* [mutant] An exchange whose transfer has started cannot end early.
EndBeforeTransfer(x, terminal) ==
    /\ meta[x] = "ACCEPTED"
    /\ alloc[x].status = "OPEN"
    /\ StillHeld(resource[alloc[x].resource], alloc[x].org)
    /\ meta' = [meta EXCEPT ![x] = terminal]
    /\ resource' = [resource EXCEPT ![alloc[x].resource] = SetStatus(@, "AVAILABLE")]
    /\ alloc' = [alloc EXCEPT ![x].status = "RELEASED"]

\* An OPEN request holds nothing; a held one gives its resource back in the
\* transaction that ends it.  A hold that was RETURNED under it is a conflict.
EndExchange(x, terminal) ==
    \/ /\ meta[x] = "OPEN"
       /\ meta' = [meta EXCEPT ![x] = terminal]
       /\ UNCHANGED <<resource, alloc>>
    \/ /\ Held(x)
       /\ alloc[x].status = "OPEN"
       /\ StillHeld(resource[alloc[x].resource], alloc[x].org)
       /\ meta' = [meta EXCEPT ![x] = terminal]
       /\ resource' = [resource EXCEPT ![alloc[x].resource] = SetStatus(@, "AVAILABLE")]
       /\ alloc' = [alloc EXCEPT ![x].status = "RELEASED"]

CancelExchange(x) ==
    /\ ~overdue[x]
    /\ EndExchange(x, "CANCELLED")
    /\ UNCHANGED <<request, overdue, call, starting, decision, dueItem, malformed>>

ExpireExchange(x) ==
    /\ overdue[x]
    /\ EndExchange(x, "EXPIRED")
    /\ UNCHANGED <<request, overdue, call, starting, decision, dueItem, malformed>>

\* A client's expires_at is stored as it is sent.  One that does not parse is
\* due at once if its text sorts before the time, and ends every hourly sweep
\* that meets it with an error, until its row leaves the index: an offer when
\* it is closed, a request never, for no handler can read it.
StoreOrCloseMalformed ==
    /\ malformed' = ~malformed
    /\ UNCHANGED <<resource, alloc, request, meta, overdue, call, starting, decision, dueItem>>

-----------------------------------------------------------------------------
(* Lifecycle endpoints: the row is read, then the holds, then the row is   *)
(* written on condition that its status is still the one read.             *)

ReadRow(c, r, op, target) ==
    /\ call[c] = Idle
    /\ resource[r].status # "ABSENT"
    /\ target \in Targets[op]
    /\ target \in AllowedTransitions[resource[r].status]
    /\ op = "return_to_available" => resource[r].status = "IN_USE"
    /\ resource[r].status = "ALLOCATED" => op \in HeldItemEndpoints
    /\ call' = [call EXCEPT ![c] =
                   [step |-> IF op \in HoldChecked THEN "row" ELSE "checked",
                    op |-> op, target |-> target, resource |-> r,
                    org |-> resource[r].org, seen |-> resource[r].status,
                    open |-> {}]]
    /\ UNCHANGED <<resource, alloc, request, meta, overdue, starting, decision, dueItem, malformed>>

\* The holds the caller's own organization has on the resource.
SeenHolds(c) == {h \in HoldsOn(call[c].resource) : alloc[h].org = call[c].org}

\* Any hold refuses the call; for return_to_available only an emergency one does.
Refused(c) ==
    IF call[c].op = "return_to_available"
    THEN \E h \in SeenHolds(c) : alloc[h].status = "ALLOCATED"
    ELSE SeenHolds(c) # {}

CheckHolds(c) ==
    /\ call[c].step = "row"
    /\ call' = [call EXCEPT ![c] =
                   IF Refused(c) THEN Idle
                   ELSE [@ EXCEPT !.step = "checked", !.open = SeenHolds(c)]]
    /\ UNCHANGED <<resource, alloc, request, meta, overdue, starting, decision, dueItem, malformed>>

StatusCondition(row, o, seen) ==
    /\ row.org = o
    /\ row.status = seen
    /\ seen = "AVAILABLE" => row.available

TransitionResource(c, r) ==
    /\ call[c].step = "checked"
    /\ call[c].resource = r
    /\ IF StatusCondition(resource[r], call[c].org, call[c].seen)
       THEN /\ resource' = [resource EXCEPT ![r] =
                               Unreserved(SetStatus(@, call[c].target))]
            /\ call' = [call EXCEPT ![c] = IF call[c].open = {} THEN Idle
                                           ELSE [@ EXCEPT !.step = "closing"]]
       ELSE /\ call' = [call EXCEPT ![c] = Idle]
            /\ UNCHANGED resource
    /\ UNCHANGED <<alloc, request, meta, overdue, starting, decision, dueItem, malformed>>

\* return_to_available closes the holds it saw one by one, ignoring conflicts.
CloseHold(c, h) ==
    /\ call[c].step = "closing"
    /\ h \in call[c].open
    /\ alloc' = IF alloc[h].status = "OPEN" /\ alloc[h].org = call[c].org
                THEN [alloc EXCEPT ![h].status = "RETURNED"] ELSE alloc
    /\ call' = [call EXCEPT ![c] = IF call[c].open = {h} THEN Idle
                                   ELSE [@ EXCEPT !.open = call[c].open \ {h}]]
    /\ UNCHANGED <<resource, request, meta, overdue, starting, decision, dueItem, malformed>>

\* The Lambda ends between two of its steps.
Crash(c) ==
    /\ call[c] # Idle
    /\ call' = [call EXCEPT ![c] = Idle]
    /\ UNCHANGED <<resource, alloc, request, meta, overdue, starting, decision, dueItem, malformed>>

-----------------------------------------------------------------------------
(* The reservation expiry worker.                                          *)

QueryDueReservation(r) ==
    /\ dueItem[r] = NoRow
    /\ resource[r].due = "lapsed"
    /\ dueItem' = [dueItem EXCEPT ![r] = resource[r]]
    /\ UNCHANGED <<resource, alloc, request, meta, overdue, call, starting, decision, malformed>>

\* [mutant] Any reservation of the same member is taken for the lapsed one.
SameHolder(row, item) ==
    row.org = item.org /\ row.status = "RESERVED" /\ row.by = item.by

\* [mutant] A row that was not reserved again is taken for still reserved.
SameStamp(row, item) == row.stamp = item.stamp

\* [mutant] The due time is compared with the clock the wrong way round.
NotYetDue(row, item) ==
    /\ row.org = item.org
    /\ row.status = "RESERVED"
    /\ row.by = item.by
    /\ row.stamp = item.stamp
    /\ row.due = "running"

\* The row still carries the reservation the query returned.
SameReservation(row, item) ==
    /\ row.org = item.org
    /\ row.status = "RESERVED"
    /\ row.by = item.by
    /\ row.stamp = item.stamp
    /\ row.due = "lapsed"

\* When it does not, _clear_replaced_due_key removes due attributes that every
\* writer leaving RESERVED has removed already: nothing changes.
ExpireReservation(r) ==
    /\ dueItem[r] # NoRow
    /\ resource' = IF SameReservation(resource[r], dueItem[r])
                   THEN [resource EXCEPT ![r] = Unreserved(SetStatus(@, "AVAILABLE"))]
                   ELSE resource
    /\ dueItem' = [dueItem EXCEPT ![r] = NoRow]
    /\ UNCHANGED <<alloc, request, meta, overdue, call, starting, decision, malformed>>

-----------------------------------------------------------------------------
(* The clock.                                                              *)

LapseReservation(r) ==
    /\ resource[r].due = "running"
    /\ resource' = [resource EXCEPT ![r].due = "lapsed"]
    /\ UNCHANGED <<alloc, request, meta, overdue, call, starting, decision, dueItem, malformed>>

PassDeadline(h) ==
    /\ ~overdue[h]
    /\ \/ h \in Requests /\ alloc[h].status = "ALLOCATED"
       \/ h \in Exchanges /\ (meta[h] = "OPEN" \/ Held(h))
    /\ overdue' = [overdue EXCEPT ![h] = TRUE]
    /\ UNCHANGED <<resource, alloc, request, meta, call, starting, decision, dueItem, malformed>>

-----------------------------------------------------------------------------

Everyday == \E r \in Resources :
    \/ \E o \in Orgs : Register(r, o)
    \/ \E u \in Users : Reserve(r, u) \/ ReleaseReservation(r, u)
    \/ \E t \in Tickets : EverydayAllocate(r, t) \/ EverydayReturn(r, t)

Emergency == \E q \in Requests :
    \/ CloseUnallocated(q)
    \/ CompleteRequest(q)
    \/ LookupHolders(q)
    \/ \E r \in Resources :
          EmergencyClaim(q, r) \/ ReleaseResource(q, r) \/ AutoRelease(q, r)

Exchange == \E x \in Exchanges :
    \/ StartTransferCommit(x)
    \/ CancelExchange(x)
    \/ ExpireExchange(x)
    \/ \E r \in Resources :
          AcceptOffer(x, r) \/ StartTransferRead(x, r) \/ ConfirmHandover(x, r)

Lifecycle == \E c \in Calls :
    \/ CheckHolds(c)
    \/ Crash(c)
    \/ \E h \in Holds : CloseHold(c, h)
    \/ \E r \in Resources :
          \/ TransitionResource(c, r)
          \/ \E op \in Endpoints, target \in Status : ReadRow(c, r, op, target)

Expiry == \E r \in Resources :
    QueryDueReservation(r) \/ ExpireReservation(r) \/ LapseReservation(r)

Next == \/ Everyday \/ Emergency \/ Exchange \/ Lifecycle \/ Expiry
        \/ \E h \in Requests \cup Exchanges : PassDeadline(h)
        \/ StoreOrCloseMalformed

Spec == Init /\ [][Next]_vars

\* EventBridge keeps invoking the three workers; nothing else must happen.  Auto
\* release skips an allocation whose lookup is incomplete, and the sweep over the
\* exchanges need not reach any row while it meets one that does not parse.
Fairness ==
    /\ \A r \in Resources : WF_vars(QueryDueReservation(r)) /\ WF_vars(ExpireReservation(r))
    /\ \A q \in Requests :
          /\ WF_vars(LookupComplete(OrgOf[q]) /\ LookupHolders(q))
          /\ WF_vars(\E r \in Resources : AutoRelease(q, r))
    /\ \A x \in Exchanges : WF_vars(~malformed /\ ExpireExchange(x))

FairSpec == Spec /\ Fairness

-----------------------------------------------------------------------------
(* Properties.                                                             *)

\* Every table row and every call in flight has the fields its handler wrote.
TypeOK ==
    /\ resource \in [Resources -> Row]
    /\ alloc \in [Holds -> {NoAllocation} \cup Allocation]
    /\ request \in [Requests -> {"PENDING", "ALLOCATED", "RELEASED", "COMPLETED",
                                 "CANCELLED", "REJECTED"}]
    /\ meta \in [Exchanges -> {"OPEN", "ACCEPTED", "TRANSFER_PENDING", "COMPLETED",
                               "CANCELLED", "EXPIRED"}]
    /\ overdue \in [Requests \cup Exchanges -> BOOLEAN]
    /\ call \in [Calls -> {Idle} \cup LifecycleCall]
    /\ starting \subseteq Exchanges
    /\ decision \in [Requests -> {"none", "free", "keep"}]
    /\ dueItem \in [Resources -> Row]
    /\ malformed \in BOOLEAN

\* No two workflows hold one resource, an allocated or used resource has a
\* hold, and a resource anybody may take has none.
HoldExclusive == \A r \in Resources :
    IF resource[r].status \in {"ALLOCATED", "IN_USE"}
    THEN \E h \in Holds : HoldsOn(r) = {h}
    ELSE HoldsOn(r) = {}

\* A live hold belongs to the organization that owns the resource, also after
\* exchanges have moved resources between organizations.
HoldOwner == \A h \in Holds : Live(h) => alloc[h].org = resource[alloc[h].resource].org

\* The allocation row of an emergency request tells the same story as the
\* request row, although only the transactions write both.
RequestAgrees == \A q \in Requests :
    CASE request[q] \in {"ALLOCATED", "COMPLETED"} -> alloc[q].status = "ALLOCATED"
      [] request[q] = "RELEASED"                   -> alloc[q].status = "RELEASED"
      [] OTHER                                     -> alloc[q] = NoAllocation

\* An exchange that awaits its handover has its hold, and only such a one.
ExchangeAgrees == \A x \in Exchanges : Held(x) <=> alloc[x].status = "OPEN"

\* What remains of ExchangeAgrees whatever operators do to held items: a hold
\* never outlives its exchange, and an ended exchange never lost its hold.
ExchangeHoldEnds == \A x \in Exchanges :
    /\ alloc[x].status = "OPEN" => Held(x)
    /\ meta[x] = "COMPLETED" => alloc[x].status = "RELEASED"
    /\ meta[x] \in {"CANCELLED", "EXPIRED"} => alloc[x].status \in {"NONE", "RELEASED"}

\* The matcher reads Available, everyday operations read operational_status:
\* the two agree, and only a reserved row carries reservation attributes.
FlagsAgree == \A r \in Resources :
    /\ resource[r].available <=> resource[r].status = "AVAILABLE"
    /\ resource[r].status = "RESERVED" <=> resource[r].by # Nobody
    /\ resource[r].status = "RESERVED" <=> resource[r].due # "none"

\* Until its two hours are over a reservation ends only by its holder's own
\* release or by an operator's everyday allocation or lifecycle call: no claim,
\* exchange, return or worker, acting on what it read earlier, takes it away.
RunningReservationKept ==
    [][\A r \in Resources :
          resource[r].due = "running" /\ resource'[r] # resource[r] =>
             \/ LapseReservation(r)
             \/ \E u \in Users : ReleaseReservation(r, u)
             \/ \E t \in Tickets : EverydayAllocate(r, t)
             \/ \E c \in Calls : TransitionResource(c, r)]_vars

\* The ledger is a lock on every resource: claims, allocations and accepted
\* exchanges take it only when it is free, and only their own end gives it back.
Lock == INSTANCE ResourceLock
            WITH Holders <- Holds,
                 holds <- [r \in Resources |-> HoldsOn(r)],
                 used <- {h \in Holds : alloc[h] # NoAllocation}

ImplementsLock == Lock!Spec

\* A lapsed reservation does not block its resource for ever.
LapsedReservationEnds ==
    \A r \in Resources : resource[r].due = "lapsed" ~> resource[r].due # "lapsed"

\* An emergency allocation past the cutoff is given back, unless it completes,
\* as long as its organization has fewer allocation rows than a holder lookup
\* reads; beyond that the worker skips it on every run.
OverdueAllocationEnds ==
    \A q \in Requests :
        overdue[q] /\ request[q] = "ALLOCATED" ~>
            request[q] # "ALLOCATED" \/ ~LookupComplete(OrgOf[q])

\* An exchange past its deadline ends, or the sweep meets a row that does not
\* parse: nothing else keeps it from giving every hold back.
OverdueExchangeEnds ==
    \A x \in Exchanges : overdue[x] /\ Held(x) ~> ~Held(x) \/ malformed

\* Said of the code by its design, and false once operators call the lifecycle
\* endpoints on held items: after accept, nothing overrides the exchange hold.
ExchangeHoldKept == \A x \in Exchanges : Held(x) => alloc[x].status = "OPEN"

\* An individual resource has at most one active everyday allocation.
OneEverydayAllocation == \A s, t \in Tickets :
    /\ alloc[s].status = "OPEN"
    /\ alloc[t].status = "OPEN"
    /\ alloc[s].resource = alloc[t].resource
    => s = t
=============================================================================
