---------------------------- MODULE QuantityPool ----------------------------
(***************************************************************************)
(* A resource with tracking_mode QUANTITY is a pool of units: four         *)
(* counters on the Resources row.  Everyday operations, emergency claims   *)
(* and exchanges move units between the counters, and each takes its own   *)
(* record of what it holds in the Allocations table.  This module models   *)
(* every handler that writes a counter, and the request and exchange rows  *)
(* that commit in the same transactions.                                   *)
(*                                                                         *)
(* A pool row keeps Available = false and operational_status = AVAILABLE:  *)
(* every lifecycle endpoint, and a release that frees the resource, needs  *)
(* Available = true or another status, so none of them ever commits and    *)
(* none of them is here.                                                   *)
(*                                                                         *)
(* Emergency claims and exchange endings act on what they read earlier:    *)
(* their memory is in call.  Auto release keeps its decision in decision.  *)
(*                                                                         *)
(* An operator marked [mutant] is a plausible mistake in the definition    *)
(* after it; no specification uses it.  It shows that a property can fail. *)
(***************************************************************************)
EXTENDS Integers, FiniteSets

CONSTANTS
    Pools,       \* resource_id of quantity pools
    Orgs,        \* organization_id
    NoOrg,       \* the organization_id of a row that does not exist
    Requests,    \* emergency requests; q also names its allocation ALLOC-q
    Tickets,     \* ids of everyday allocations
    Exchanges,   \* exchange requests; x also names its EXCHANGE allocation
    OrgOf,       \* the organization of a request, the requester of an exchange
    Calls,       \* claims and exchange endings that may be in flight at once
    LookupRows,  \* allocations of an organization at which a holder lookup stops
    Quantities,  \* bound: the quantities that callers ask for
    MaxUnits     \* bound: the units with which one pool is registered

Holds == Requests \cup Tickets \cup Exchanges

ASSUME HoldsDisjoint ==
    /\ Requests \cap Tickets = {}
    /\ Requests \cap Exchanges = {}
    /\ Tickets \cap Exchanges = {}

ASSUME OrgOfType == OrgOf \in [Requests \cup Exchanges -> Orgs] /\ NoOrg \notin Orgs

ASSUME BoundsType ==
    Quantities \subseteq Nat \ {0} /\ MaxUnits \in Nat /\ LookupRows \in Nat

VARIABLES
    pool,      \* the Resources table
    alloc,     \* the Allocations table
    request,   \* the EmergencyRequests table
    meta,      \* status of each exchange's META row
    overdue,   \* the exchange's deadline has passed
    call,      \* what each call in flight has read
    decision   \* free_resource as auto release decided it, before its write

vars == <<pool, alloc, request, meta, overdue, call, decision>>

-----------------------------------------------------------------------------

Pool == [org: Orgs \cup {NoOrg},
         total: Nat, available: Nat, reserved: Nat, allocated: Nat]

NoPool == [org |-> NoOrg, total |-> 0, available |-> 0, reserved |-> 0, allocated |-> 0]

\* A new pool: every unit is available.
NewPool(o, n) ==
    [org |-> o, total |-> n, available |-> n, reserved |-> 0, allocated |-> 0]

NoAllocation == [status |-> "NONE"]

Allocation == [status: {"ALLOCATED", "OPEN", "RELEASED", "RETURNED"},
               resource: Pools, org: Orgs, quantity: Nat]

NoRequest == [status |-> "ABSENT"]

Request == [status: {"PENDING", "PARTIALLY_ALLOCATED", "ALLOCATED", "COMPLETED",
                     "RELEASED", "CANCELLED", "REJECTED"},
            resource: Pools, requested: Nat, fulfilled: Nat]

Idle == [step |-> "idle"]

\* What allocate read: quantity_fulfilled, the quantity of ALLOC-q (0 if there
\* is none) and the units it will claim.
ClaimCall == [step: {"claiming"}, request: Requests, fulfilled: Nat, previous: Nat,
              claim: Nat, existing: BOOLEAN, status: {"ALLOCATED", "PARTIALLY_ALLOCATED"}]

\* What _cancel_with_hold_release read: the status it expects to end, and
\* quantity_allocated.
EndCall == [step: {"ending"}, exchange: Exchanges,
            expected: {"ACCEPTED", "TRANSFER_PENDING"},
            terminal: {"CANCELLED", "EXPIRED"}, allocated: Nat]

Held(x) == meta[x] \in {"ACCEPTED", "TRANSFER_PENDING"}

Balanced(p) == p.available + p.reserved + p.allocated = p.total

\* Units of p go from one counter to another.
ToReserved(p, n) == [p EXCEPT !.available = @ - n, !.reserved = @ + n]

Unreserve(p, n) == [p EXCEPT !.reserved = @ - n, !.available = @ + n]

ToAllocated(p, n) == [p EXCEPT !.available = @ - n, !.allocated = @ + n]

ReservedToAllocated(p, n) == [p EXCEPT !.reserved = @ - n, !.allocated = @ + n]

\* [mutant] The units come back to available but are not taken off allocated.
GiveBackOnly(p, n) == [p EXCEPT !.available = @ + n]

GiveBack(p, n) == [p EXCEPT !.available = @ + n, !.allocated = @ - n]

\* [mutant] The units leave the pool's total and stay allocated.
HandOverTotal(p, n) == [p EXCEPT !.total = @ - n]

\* The units leave the pool with the hold that had them.
HandOver(p, n) == [p EXCEPT !.allocated = @ - n, !.total = @ - n]

\* [mutant] The requester's new units arrive reserved.
ReceiveReserved(p, n) == [p EXCEPT !.total = @ + n, !.reserved = @ + n]

Receive(p, n) == [p EXCEPT !.total = @ + n, !.available = @ + n]

-----------------------------------------------------------------------------

Init ==
    /\ pool = [r \in Pools |-> NoPool]
    /\ alloc = [h \in Holds |-> NoAllocation]
    /\ request = [q \in Requests |-> NoRequest]
    /\ meta = [x \in Exchanges |-> "OPEN"]
    /\ overdue = [x \in Exchanges |-> FALSE]
    /\ call = [c \in Calls |-> Idle]
    /\ decision = [q \in Requests |-> "none"]

Register(r, o, n) ==
    /\ pool[r] = NoPool
    /\ pool' = [pool EXCEPT ![r] = NewPool(o, n)]
    /\ UNCHANGED <<alloc, request, meta, overdue, call, decision>>

-----------------------------------------------------------------------------
(* Everyday operations: one conditional write, or one transaction, each.   *)

ReserveQuantity(r, n) ==
    /\ pool[r].org # NoOrg
    /\ pool[r].available >= n
    /\ pool' = [pool EXCEPT ![r] = ToReserved(@, n)]
    /\ UNCHANGED <<alloc, request, meta, overdue, call, decision>>

\* The row keeps no record of who reserved: any member may release.
ReleaseQuantityReservation(r, n) ==
    /\ pool[r].org # NoOrg
    /\ pool[r].reserved >= n
    /\ pool[r].available + n <= pool[r].total
    /\ Balanced(pool[r])
    /\ pool' = [pool EXCEPT ![r] = Unreserve(@, n)]
    /\ UNCHANGED <<alloc, request, meta, overdue, call, decision>>

EverydayAllocateQuantity(r, t, n) ==
    /\ pool[r].org # NoOrg
    /\ alloc[t] = NoAllocation
    /\ pool[r].allocated + n <= pool[r].total
    /\ Balanced(pool[r])
    /\ \/ /\ pool[r].reserved >= n                          \* from_reserved
          /\ pool' = [pool EXCEPT ![r] = ReservedToAllocated(@, n)]
       \/ /\ pool[r].available >= n
          /\ pool' = [pool EXCEPT ![r] = ToAllocated(@, n)]
    /\ alloc' = [alloc EXCEPT ![t] = [status |-> "OPEN", resource |-> r,
                                      org |-> pool[r].org, quantity |-> n]]
    /\ UNCHANGED <<request, meta, overdue, call, decision>>

EverydayReturn(t) ==
    /\ alloc[t].status = "OPEN"
    /\ LET r == alloc[t].resource
           n == alloc[t].quantity
       IN  /\ pool[r].org = alloc[t].org
           /\ pool[r].allocated >= n
           /\ Balanced(pool[r])
           /\ pool' = [pool EXCEPT ![r] = GiveBack(@, n)]
    /\ alloc' = [alloc EXCEPT ![t].status = "RETURNED"]
    /\ UNCHANGED <<request, meta, overdue, call, decision>>

-----------------------------------------------------------------------------
(* Emergency requests.  A request names one pool and asks for no more than *)
(* the pool has available at that moment; later it may get it in parts.    *)

CreateRequest(q, r, n) ==
    /\ request[q] = NoRequest
    /\ pool[r].org = OrgOf[q]
    /\ Balanced(pool[r])
    /\ n <= pool[r].available
    /\ request' = [request EXCEPT ![q] = [status |-> "PENDING", resource |-> r,
                                          requested |-> n, fulfilled |-> 0]]
    /\ UNCHANGED <<pool, alloc, meta, overdue, call, decision>>

\* cancel_request, or a reviewer's rejection: not once any unit is allocated.
CloseUnallocated(q) ==
    /\ request[q].status = "PENDING"
    /\ \E s \in {"CANCELLED", "REJECTED"} :
           request' = [request EXCEPT ![q].status = s]
    /\ UNCHANGED <<pool, alloc, meta, overdue, call, decision>>

Remaining(q) == request[q].requested - request[q].fulfilled

Allocatable(q) == request[q].status \in {"PENDING", "PARTIALLY_ALLOCATED"}

\* allocate reads the request, its pool and its allocation, and claims what
\* remains of the request or as much of it as the pool has.
ReadForClaim(c, q) ==
    /\ call[c] = Idle
    /\ Allocatable(q)
    /\ pool[request[q].resource].org = OrgOf[q]
    /\ Balanced(pool[request[q].resource])
    /\ Remaining(q) >= 1
    /\ LET available == pool[request[q].resource].available
           claim     == IF Remaining(q) <= available THEN Remaining(q) ELSE available
           existing  == alloc[q] # NoAllocation
       IN  /\ claim >= 1
           /\ call' = [call EXCEPT ![c] =
                  [step |-> "claiming", request |-> q,
                   fulfilled |-> request[q].fulfilled,
                   previous |-> IF existing THEN alloc[q].quantity ELSE 0,
                   claim |-> claim, existing |-> existing,
                   status |-> IF claim = Remaining(q) THEN "ALLOCATED"
                                                      ELSE "PARTIALLY_ALLOCATED"]]
    /\ UNCHANGED <<pool, alloc, request, meta, overdue, decision>>

RequestCondition(m) ==
    /\ Allocatable(m.request)
    /\ request[m.request].fulfilled = m.fulfilled
    /\ request[m.request].requested >= m.fulfilled + m.claim

AllocationCondition(m) ==
    IF m.existing
    THEN alloc[m.request] # NoAllocation /\ alloc[m.request].quantity = m.previous
    ELSE alloc[m.request] = NoAllocation

\* [mutant] The units are those of the preview: what is available now is not rechecked.
PoolConditionPreview(r, m) ==
    /\ pool[r].org = OrgOf[m.request]
    /\ Balanced(pool[r])

PoolCondition(r, m) ==
    /\ pool[r].org = OrgOf[m.request]
    /\ pool[r].available >= m.claim
    /\ pool[r].allocated + m.claim <= pool[r].total
    /\ Balanced(pool[r])

\* One transaction, or a conflict that writes nothing.
CommitClaim(c, q) ==
    /\ call[c].step = "claiming"
    /\ call[c].request = q
    /\ LET m == call[c]
           r == request[q].resource
           n == m.fulfilled + m.claim
       IN  IF PoolCondition(r, m) /\ AllocationCondition(m) /\ RequestCondition(m)
           THEN /\ pool' = [pool EXCEPT ![r] = ToAllocated(@, m.claim)]
                /\ alloc' = [alloc EXCEPT ![q] =
                       [status |-> "ALLOCATED", resource |-> r,
                        org |-> OrgOf[q], quantity |-> n]]
                /\ request' = [request EXCEPT ![q] =
                       [@ EXCEPT !.status = m.status, !.fulfilled = n]]
           ELSE UNCHANGED <<pool, alloc, request>>
    /\ call' = [call EXCEPT ![c] = Idle]
    /\ UNCHANGED <<meta, overdue, decision>>

\* complete_request writes the request only: the allocation stays ALLOCATED.
CompleteRequest(q) ==
    /\ request[q].status = "ALLOCATED"
    /\ alloc[q].status = "ALLOCATED"
    /\ Remaining(q) = 0
    /\ request' = [request EXCEPT ![q].status = "COMPLETED"]
    /\ UNCHANGED <<pool, alloc, meta, overdue, call, decision>>

OtherHolder(q) ==
    \E p \in Requests \ {q} :
        /\ alloc[p].status = "ALLOCATED"
        /\ alloc[p].resource = alloc[q].resource
        /\ alloc[p].org = alloc[q].org

\* The lookup pages through all allocations of the organization, ended ones too,
\* and no row is ever deleted.  A lookup that stops at its last page is incomplete.
LookupComplete(o) ==
    Cardinality({h \in Holds : alloc[h] # NoAllocation /\ alloc[h].org = o}) < LookupRows

\* The cutoff of 30 minutes may have passed at any time.  The worker skips the
\* release when the lookup is incomplete and has met no other holder.
LookupHolders(q) ==
    /\ decision[q] = "none"
    /\ alloc[q].status = "ALLOCATED"
    /\ OtherHolder(q) \/ LookupComplete(alloc[q].org)
    /\ decision' = [decision EXCEPT ![q] = IF OtherHolder(q) THEN "keep" ELSE "free"]
    /\ UNCHANGED <<pool, alloc, request, meta, overdue, call>>

\* [mutant] The request need not be ALLOCATED for its allocation to close.
ReleasableAlways(q) == alloc[q].status = "ALLOCATED"

Releasable(q) == alloc[q].status = "ALLOCATED" /\ request[q].status = "ALLOCATED"

\* Freeing the resource needs operational_status ALLOCATED, which no pool has:
\* that transaction is always cancelled.  The other writes no counter.
AutoRelease(q) ==
    /\ decision[q] # "none"
    /\ IF decision[q] = "keep" /\ Releasable(q)
       THEN /\ alloc' = [alloc EXCEPT ![q].status = "RELEASED"]
            /\ request' = [request EXCEPT ![q].status = "RELEASED"]
       ELSE UNCHANGED <<alloc, request>>
    /\ decision' = [decision EXCEPT ![q] = "none"]
    /\ UNCHANGED <<pool, meta, overdue, call>>

-----------------------------------------------------------------------------
(* Exchange requests.  Offers are abstracted to the pool and the quantity  *)
(* that the accepted one names.  Accept, start and confirm read the        *)
(* deadline and then write: a deadline that passes in between commutes     *)
(* with the write, so that one step is enough.                             *)

EligibleToOffer(p, n) == Balanced(p) /\ p.available >= n

AcceptOffer(x, r, n) ==
    /\ meta[x] = "OPEN"
    /\ ~overdue[x]
    /\ pool[r].org \notin {NoOrg, OrgOf[x]}
    /\ alloc[x] = NoAllocation
    /\ EligibleToOffer(pool[r], n)
    /\ meta' = [meta EXCEPT ![x] = "ACCEPTED"]
    /\ pool' = [pool EXCEPT ![r] = ToAllocated(@, n)]
    /\ alloc' = [alloc EXCEPT ![x] = [status |-> "OPEN", resource |-> r,
                                      org |-> pool[r].org, quantity |-> n]]
    /\ UNCHANGED <<request, overdue, call, decision>>

\* Only the META row is in the write's condition.  While it is ACCEPTED the
\* provider's pool keeps the held units, so the earlier reads still hold.
StartTransfer(x) ==
    /\ meta[x] = "ACCEPTED"
    /\ ~overdue[x]
    /\ alloc[x].status = "OPEN"
    /\ Balanced(pool[alloc[x].resource])
    /\ pool[alloc[x].resource].allocated >= alloc[x].quantity
    /\ meta' = [meta EXCEPT ![x] = "TRANSFER_PENDING"]
    /\ UNCHANGED <<pool, alloc, request, overdue, call, decision>>

\* The quantity of the body has to be the held one.
HeldQuantity(x) == alloc[x].quantity

SourceEligible(x, r, n) ==
    /\ pool[r].org = alloc[x].org
    /\ Balanced(pool[r])
    /\ pool[r].allocated >= n
    /\ pool[r].total >= n

MergeEligible(x, d) == pool[d].org = OrgOf[x] /\ Balanced(pool[d])

DestinationPool(x, n) == NewPool(OrgOf[x], n)

\* d is a pool of the requester's, or the id of the one this creates.
TransferItems(x, r, d, n) ==
    \/ /\ pool[d] = NoPool
       /\ pool' = [pool EXCEPT ![r] = HandOver(@, n), ![d] = DestinationPool(x, n)]
    \/ /\ MergeEligible(x, d)
       /\ pool' = [pool EXCEPT ![r] = HandOver(@, n), ![d] = Receive(@, n)]

ConfirmQuantityHandover(x, d) ==
    /\ meta[x] = "TRANSFER_PENDING"
    /\ ~overdue[x]
    /\ alloc[x].status = "OPEN"
    /\ SourceEligible(x, alloc[x].resource, HeldQuantity(x))
    /\ TransferItems(x, alloc[x].resource, d, HeldQuantity(x))
    /\ alloc' = [alloc EXCEPT ![x].status = "RELEASED"]
    /\ meta' = [meta EXCEPT ![x] = "COMPLETED"]
    /\ UNCHANGED <<request, overdue, call, decision>>

\* cancel_exchange_request, or expiry once the deadline has passed.
MayEnd(x, terminal) == overdue[x] = (terminal = "EXPIRED")

EndOpen(x, terminal) ==
    /\ meta[x] = "OPEN"
    /\ MayEnd(x, terminal)
    /\ meta' = [meta EXCEPT ![x] = terminal]
    /\ UNCHANGED <<pool, alloc, request, overdue, call, decision>>

ReadForEnd(c, x, terminal) ==
    /\ call[c] = Idle
    /\ Held(x)
    /\ MayEnd(x, terminal)
    /\ alloc[x].status = "OPEN"
    /\ pool[alloc[x].resource].org = alloc[x].org
    /\ call' = [call EXCEPT ![c] =
           [step |-> "ending", exchange |-> x, expected |-> meta[x],
            terminal |-> terminal, allocated |-> pool[alloc[x].resource].allocated]]
    /\ UNCHANGED <<pool, alloc, request, meta, overdue, decision>>

\* [mutant] Off by one: a pool with no other hold is left alone too.
HoldReleaseOffByOne(x, allocatedSeen) ==
    LET r == alloc[x].resource
        n == alloc[x].quantity
    IN  IF allocatedSeen <= n
        THEN UNCHANGED pool
        ELSE /\ pool[r].org = alloc[x].org
             /\ pool[r].allocated >= n
             /\ pool' = [pool EXCEPT ![r] = GiveBack(@, n)]

\* The counters are left alone if fewer units were allocated than are held.
HoldReleaseItems(x, allocatedSeen) ==
    LET r == alloc[x].resource
        n == alloc[x].quantity
    IN  IF allocatedSeen < n
        THEN UNCHANGED pool
        ELSE /\ pool[r].org = alloc[x].org
             /\ pool[r].allocated >= n
             /\ pool' = [pool EXCEPT ![r] = GiveBack(@, n)]

ExpectedStatus(m) == meta[m.exchange] = m.expected

CommitEnd(c, x) ==
    /\ call[c].step = "ending"
    /\ call[c].exchange = x
    /\ \/ /\ ExpectedStatus(call[c])
          /\ alloc[x].status = "OPEN"
          /\ HoldReleaseItems(x, call[c].allocated)
          /\ alloc' = [alloc EXCEPT ![x].status = "RELEASED"]
          /\ meta' = [meta EXCEPT ![x] = call[c].terminal]
       \/ /\ ~(ExpectedStatus(call[c]) /\ alloc[x].status = "OPEN")
          /\ UNCHANGED <<pool, alloc, meta>>
    /\ call' = [call EXCEPT ![c] = Idle]
    /\ UNCHANGED <<request, overdue, decision>>

-----------------------------------------------------------------------------

\* The handler is cut off, or its caller never confirms: its memory is lost.
Crash(c) ==
    /\ call[c] # Idle
    /\ call' = [call EXCEPT ![c] = Idle]
    /\ UNCHANGED <<pool, alloc, request, meta, overdue, decision>>

Tick(x) ==
    /\ ~overdue[x]
    /\ overdue' = [overdue EXCEPT ![x] = TRUE]
    /\ UNCHANGED <<pool, alloc, request, meta, call, decision>>

Everyday(r) ==
    \/ \E o \in Orgs, n \in 1..MaxUnits : Register(r, o, n)
    \/ \E n \in Quantities : ReserveQuantity(r, n) \/ ReleaseQuantityReservation(r, n)
    \/ \E t \in Tickets, n \in Quantities : EverydayAllocateQuantity(r, t, n)

Emergency(q) ==
    \/ \E r \in Pools, n \in Quantities : CreateRequest(q, r, n)
    \/ CloseUnallocated(q)
    \/ \E c \in Calls : ReadForClaim(c, q) \/ CommitClaim(c, q)
    \/ CompleteRequest(q)
    \/ LookupHolders(q)
    \/ AutoRelease(q)

Exchange(x) ==
    \/ \E r \in Pools, n \in Quantities : AcceptOffer(x, r, n)
    \/ StartTransfer(x)
    \/ \E d \in Pools : ConfirmQuantityHandover(x, d)
    \/ \E t \in {"CANCELLED", "EXPIRED"} : EndOpen(x, t)
    \/ \E c \in Calls, t \in {"CANCELLED", "EXPIRED"} : ReadForEnd(c, x, t)
    \/ \E c \in Calls : CommitEnd(c, x)

Next ==
    \/ \E r \in Pools : Everyday(r)
    \/ \E t \in Tickets : EverydayReturn(t)
    \/ \E q \in Requests : Emergency(q)
    \/ \E x \in Exchanges : Exchange(x) \/ Tick(x)
    \/ \E c \in Calls : Crash(c)

Spec == Init /\ [][Next]_vars

-----------------------------------------------------------------------------

\* Every row has its shape.  In particular no counter goes below zero: the
\* conditions of the writes (quantity_available >= :qty and the like) hold
\* for whatever the other handlers have done since the row was read.
TypeOK ==
    /\ pool \in [Pools -> Pool]
    /\ alloc \in [Holds -> Allocation \cup {NoAllocation}]
    /\ request \in [Requests -> Request \cup {NoRequest}]
    /\ meta \in [Exchanges -> {"OPEN", "ACCEPTED", "TRANSFER_PENDING",
                               "COMPLETED", "CANCELLED", "EXPIRED"}]
    /\ overdue \in [Exchanges -> BOOLEAN]
    /\ call \in [Calls -> ClaimCall \cup EndCall \cup {Idle}]
    /\ decision \in [Requests -> {"none", "keep", "free"}]

\* The invariant the design documents state: the three counters of a pool add
\* up to its total, whatever mix of everyday operations, claims, exchange
\* holds, endings and handovers has run on it.
PoolBalanced == \A r \in Pools : Balanced(pool[r])

\* The units of pool r that hold h has out.  An emergency allocation that auto
\* release closed keeps its units: no write returned them to the pool.
UnitsOut(h, r) ==
    IF /\ alloc[h] # NoAllocation
       /\ alloc[h].resource = r
       /\ \/ alloc[h].status \in {"ALLOCATED", "OPEN"}
          \/ h \in Requests /\ alloc[h].status = "RELEASED"
    THEN alloc[h].quantity ELSE 0

\* Those units one by one, numbered within their hold.
UnitsOutOf(r) == UNION {{h} \X (1..UnitsOut(h, r)) : h \in Holds}

\* quantity_allocated of a pool is the sum of what its holds have out: no unit
\* is allocated twice, to two workflows or by a claim and its retry, and none
\* is allocated to nobody except by auto release.
AllocatedAccounted ==
    \A r \in Pools : pool[r].allocated = Cardinality(UnitsOutOf(r))

ClaimAgrees(q) ==
    LET s == request[q].status IN
    /\ s \in {"ABSENT", "PENDING", "CANCELLED", "REJECTED"} => alloc[q] = NoAllocation
    /\ s \in {"PENDING", "CANCELLED", "REJECTED"} => request[q].fulfilled = 0
    /\ s = "PARTIALLY_ALLOCATED" =>
           /\ 0 < request[q].fulfilled
           /\ request[q].fulfilled < request[q].requested
    /\ s \in {"ALLOCATED", "COMPLETED", "RELEASED"} =>
           request[q].fulfilled = request[q].requested
    /\ s \in {"PARTIALLY_ALLOCATED", "ALLOCATED", "COMPLETED", "RELEASED"} =>
           /\ alloc[q].status = (IF s = "RELEASED" THEN "RELEASED" ELSE "ALLOCATED")
           /\ alloc[q].quantity = request[q].fulfilled
           /\ alloc[q].resource = request[q].resource

\* The request and its one allocation agree after any race of claims: the
\* allocation has what was fulfilled, the status says whether that is
\* nothing, a part or all, and it is never more than was requested.
ClaimsAgree == \A q \in Requests : ClaimAgrees(q)

FreeUnits == [r \in Pools |-> pool[r].available]

ReservedUnits == [r \in Pools |-> pool[r].reserved]

HeldUnits == [h \in Holds |-> [r \in Pools |-> UnitsOut(h, r)]]

Stocks == 1..MaxUnits

Bank == INSTANCE UnitBank WITH
    Holders <- Holds, Quantities <- Stocks,
    free <- FreeUnits, reserved <- ReservedUnits, out <- HeldUnits

\* Every handler only moves units between free, reserved and one holder's, and
\* moves all of a holder's when the hold ends: none is lost or made.
ImplementsBank == Bank!Spec

\* The runbook's rule for a release, manual or scheduled: the allocation that
\* closes gives its units back.  Auto release breaks it: for a pool that
\* another emergency allocation also uses it closes the allocation and writes
\* no counter.
ReleaseReturnsUnits ==
    [][\A q \in Requests :
           (alloc[q].status = "ALLOCATED" /\ alloc'[q].status = "RELEASED") =>
               pool'[alloc[q].resource].available =
                   pool[alloc[q].resource].available + alloc[q].quantity]_vars
=============================================================================
