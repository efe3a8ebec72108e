# Emergency resource allocation: TLA+ models and proofs

The program is a set of AWS Lambda handlers (Python, under `src/src/`) over
DynamoDB tables. Each handler runs alone, holds nothing between two calls, and
meets the others only in the tables: a conditional write or a transaction either
lands on the rows it names or is refused. All correctness is therefore in three
things: what a handler reads before it writes, what its condition rechecks, and
what happens when it stops between two writes. That is what the models keep;
formats, messages and audit rows are left out.

## The system

| Part | State | Operations | Meets |
|---|---|---|---|
| Everyday operations (`shared/everyday_operations.py`, `resource/handler.py`) | `Resources`: `operational_status`, `Available`, `organization_id`, `reserved_*`; `Allocations` of type EVERYDAY | register, reserve, release_reservation, everyday_allocate, everyday_return | every other holder of a resource |
| Lifecycle endpoints (`shared/lifecycle_operations.py`) | `operational_status` | start/complete maintenance, mark damaged, recover, retire, mark in use, return to available, assign | everyday, emergency and exchange holds |
| Emergency allocation (`allocation/service.py`, `shared/emergency_release.py`) | `EmergencyRequests.status`, `Allocations` | claim, release | auto release, requests |
| Auto release (`auto_release/handler.py`) | none of its own | every 5 minutes: release what is past the cutoff | manual release, other holders |
| Reservation expiry (`shared/reservation_expiry.py`) | none of its own | free what is past `reservation_expires_at` | reserve, release, allocate |
| Exchange (`exchange/service.py`, `exchange/lifecycle.py`) | META, OFFER and idempotency rows, `Allocations` of type EXCHANGE | create request/offer, accept, reject, withdraw, start transfer, confirm handover, cancel, expire (hourly) | everyday and emergency holds; changes the owner of a resource |
| Handover codes (`shared/handover_qr.py`) | QR sessions | issue, preview, confirm, revoke | exchange, delivery |
| Quantity pools (`everyday_operations.py`, `allocation/service.py`, `exchange/quantity_handover.py`) | `quantity_total/available/reserved/allocated` | reserve, allocate, return, claim part, hand over units | all of the above |
| Emergency requests (`request/handler.py`) | request row: status, review, quantities | create, update, review, cancel, complete | allocation, delivery |
| Delivery (`shared/delivery_service.py`) | delivery rows with a version | create, update, dispatch, receive, verify handover | request completion |
| Membership (`organization/member_admin.py`) | member rows, `membership_epoch` | invite, change role, deactivate, reactivate, accept | authorization of every call |
| Billing (`billing/`) | subscription and event rows | checkout, cancel, webhook, daily expiry | authorization of every write |
| Notifications (`shared/notifications.py`, `notification_api/`) | EVENT and INBOX rows | emit after a commit, mark read | nothing that feeds back |
| Views, catalog, locations, public status, observability, migration, frontend, scripts | single rows or none | | nothing that feeds back |

What is hard here, and therefore modelled first:

- three workflows (emergency, everyday, exchange) take the same item and share no
  lock but the condition of their writes;
- lifecycle endpoints and workers act on earlier reads;
- `return_to_available`, an invitation's acceptance and the sweep after an accept
  write several rows one after the other, and may crash between;
- time: reservations lapse, allocations pass a cutoff, exchanges a deadline, while
  the call that would have been in time is still running;
- a handover changes the organization that owns the resource, which every other
  condition names.

What makes a part correct: one holder per resource and its row says so; a hold
ends exactly when its request or exchange does; the rows that one transaction
writes never disagree; a stale decision changes nothing; what is past its time
ends; an exchange has one winner and one code in force; a delivery passes on no more
than arrived; an organization keeps an owner; pool counters add up and cover the live
holds; a provider event is filed as done only if it was applied.

## Modules

| Module | What it is |
|---|---|
| `ResourceLock` | abstract: a lock on every resource, whose ids are used once |
| `HoldLedger` | the `Resources` and `Allocations` tables for individual items, with the request and META rows of the same transactions, all handlers that write them, and the three workers |
| `MCHoldLedger` | values and symmetry for TLC |
| `HoldLedgerProofs` | theorems about `HoldLedger` |
| `Membership` | member and invitation rows, `membership_epoch`, the five member operations |
| `MCMembership`, `MembershipProofs` | the same for `Membership` |
| `UnitBank` | abstract: units of each pool are free, reserved or out with a holder, and only move between these |
| `QuantityPool` | the four counters of a pool under every handler that writes one, with the allocations, requests and exchange rows of the same transactions |
| `MCQuantityPool`, `QuantityPoolProofs` | the same for `QuantityPool` |
| `HandoverDeal` | abstract: one offer wins, once; what it offers passes once or the deal is off; a handover by code takes the one code in force |
| `HandoverCode` | the session rows and the pointer row of the handover codes of one exchange, and their conditional writes |
| `ExchangeOffers` | extends `HandoverCode`: META, the competing offers, the hold of the winner, every exchange handler and the hourly worker |
| `ExchangeOffersProofs` | theorems about `ExchangeOffers` and its codes |
| `ReliefCase` | abstract: nothing is held for a request that was not cleared, never more than it asks for, and it completes with all of it held and a receipt |
| `Notices` | the event row and the inbox rows of one notification |
| `EmergencyDesk` | extends `Notices`: one request with its review, allocation, deliveries, receipt notice and completion |
| `EmergencyDeskProofs` | theorems about `EmergencyDesk` and its notices |
| `SubscriptionStates` | abstract: the status moves along the table, becomes ACTIVE only for what was paid, and a paying organization keeps its subscription |
| `Billing` | the subscription row and the event rows under webhook, checkout, cancellation and the daily job, with the provider as environment |
| `BillingProofs` | theorems about `Billing` |
| `MCExchangeOffers`, `MCEmergencyDesk`, `MCBilling` | values and symmetry for TLC |

How they compose: a hold is one row that three modules look at from different
sides. `HoldLedger` has its item and who else wants it, `QuantityPool` the units
of a pool, `ExchangeOffers` and `EmergencyDesk` the exchange or the request it
belongs to. Each keeps the transaction whole: an action of one module has the
rows the others abstract as a status that changes in the same step.

An operator whose comment starts with `[mutant]` is a plausible mistake in the
definition after it (a dropped guard, a swapped order). No specification uses it;
it is there to show that a property can fail: put in place of the definition it
stands before, it makes TLC find a violation.

### HoldLedger

| Variable | In the code |
|---|---|
| `resource[r]` | a row of `Resources`: status, `Available`, owner, `reserved_by`, `stamp` for `reserved_at`, `due` for `reservation_expires_at` against the clock |
| `alloc[h]` | a row of `Allocations`; the id also says which workflow made it |
| `request[q]`, `meta[x]` | status of an emergency request, of an exchange |
| `overdue[h]` | the auto-release cutoff or the exchange deadline has passed |
| `malformed` | the hourly sweep over the exchanges meets a row whose `expires_at` does not parse |
| `call[c]` | what a lifecycle endpoint in flight has read: status, owner, holds |
| `starting`, `decision`, `dueItem` | what start_transfer, auto release and reservation expiry have read and not yet acted on |

A handler whose one write rechecks everything it read is one action
(`EmergencyClaim`, `AcceptOffer`, `EverydayAllocate`, `ConfirmHandover`,
`EndExchange`, ...): its earlier reads only choose an error message. The others
are split at their reads: `ReadRow`, `CheckHolds`, `TransitionResource`,
`CloseHold` for the lifecycle endpoints; `LookupHolders`, `AutoRelease`;
`StartTransferRead`, `StartTransferCommit`; `QueryDueReservation`,
`ExpireReservation`. `Crash` ends a lifecycle call anywhere. For the workers and
start_transfer a crash is the same as never taking the second step.

Two things keep the workers from what is due. The lookup of other holders pages
through all allocations of the organization, 25 pages of 100, and a lookup that ends
there is incomplete: the worker skips the release on every later run too, since no
row is deleted (`auto_release/handler.py:16-22`, `:216`). `LookupRows` is that cap in
rows, and `LookupComplete` counts. And `run_expiry` has no handler per row, while the
`expires_at` of a client is stored as sent (`exchange/service.py:374`, `:675`): one
that does not parse raises in `parse_utc` and ends every run when the sweep comes to
it. `StoreOrCloseMalformed` lets such a row of any exchange come and go.

Abstractions: offers are reduced to the resource the accepted one names; requests
are approved; `complete_request` leaves out that deliveries must be received (a
guard on rows this module does not have); rows written before
`operational_status` existed are not modelled; a query of a secondary index sees
the current rows.

`HeldItemEndpoints` are the lifecycle endpoints operators call on an item whose
status is ALLOCATED. The table of transitions allows `mark_in_use`,
`complete_maintenance`, `recover_damage` there and none of the three looks for
holds; so the strong properties are stated for `HeldItemEndpoints = {}`, and the
others for any use. The two runs that fail show why.

### Membership

`row` holds members and invitations, `epoch` the organization's
`membership_epoch`, `call` an operation between its steps: authorized, guarded
(rows queried and every guard passed), claiming (epoch read), claimed, admitted
(an acceptance that has put the member and not yet consumed the invitation).
`Owners` are the users that are OWNER from the start; the application makes one.

### QuantityPool

| Variable | In the code |
|---|---|
| `pool[r]` | a `Resources` row with tracking_mode QUANTITY: owner, `quantity_total`, `quantity_available`, `quantity_reserved`, `quantity_allocated` |
| `alloc[h]` | a row of `Allocations`: status, pool, owner, quantity |
| `request[q]` | an emergency request for a pool: status, `quantity_requested`, `quantity_fulfilled` |
| `meta[x]`, `overdue[x]` | as in `HoldLedger` |
| `call[c]` | what an emergency claim, or the ending of a held exchange, has read |
| `decision[q]` | what auto release decided about the pool |

A pool is another thing than an item: its row keeps `Available = false` and
`operational_status = AVAILABLE` whatever is allocated. From there the lifecycle
endpoints, and a release that frees the resource, have a write condition no pool
meets; they change nothing and the module has no action for them. Auto release is
there, since it commits when it decides *not* to free the resource.

Two handlers are split at their reads. A claim (`ReadForClaim`, `CommitClaim`)
fixes how many units it will take, and the ending of a held exchange
(`ReadForEnd`, `CommitEnd`) decides from the `quantity_allocated` it saw whether
it touches the counters at all. `allocate` reads request, pool and allocation one
after the other; one step stands for the three, because the write needs the
`quantity_fulfilled` it saw, which never goes back, and the allocation changes
only with it. The other handlers recheck in their write what they read, or read
only the deadline before it, which commutes. Offers are reduced to the pool and
the quantity of the accepted one, as in `HoldLedger`; review, locations and units
of measure are guards on data the module does not have.

Some write conditions in the code do arithmetic (`quantity_allocated + :qty <=
quantity_total`), which the condition grammar of DynamoDB does not know. They are
modelled by what they say, as the fakes in `tests/` evaluate them
(`tests/test_everyday_resource_hardening.py:188`,
`tests/test_rm03_quantity_release.py:33`); whether the service accepts them is
outside the model.

The mapping to `UnitBank` takes `free` and `reserved` from the counters but `out`
from the `Allocations` table, per holder: that `quantity_allocated` agrees with it
is `AllocatedAccounted`.

### ExchangeOffers and HandoverCode

| Variable | In the code |
|---|---|
| `meta` | the META row: status, `accepted_offer_id`, whether `expires_at` or `handover_expires_at` has passed |
| `offer[o]`, `hold[o]` | status of the OFFER rows, and of the EXCHANGE allocation an accept makes for one |
| `session[s]`, `pointer` | the QR session rows; the HANDOVER#QR row with the code it names and its version |
| `call[c]` | what an invocation has read and not yet acted on; the expiry worker is one of them |

`accept_offer`, `withdraw_offer`, `start_transfer`, `confirm_qr` recheck in their
transaction what they read and are one action. Apart are: `create_offer`, whose put
does not look at META again; `reject_offer` and the expiry of one offer, which look
at the offer only; the sweep after an accept and the clearing after a cancel or an
expiry, one offer at a time; the ending of a held exchange and the manual handover,
which put the code they read into their transaction; and `issue_qr`, which writes
the code rows only. `GiveUp` is a refused write, an error and a killed Lambda.
`Malformed` are the offers whose sender gives an `expires_at` that does not parse, and
`elsewhere` says that the worker meets such a row of another exchange; while one of
the two is there the sweep is `Jammed`: it may reach other due rows, which sort before
it, and need not.
An offer past its own deadline is expired by the worker only; a META that is due by
the worker and by any handler that reads it (`apply_lazy_expiry`).

A code is a model value: presenting it finds the session its hash names. Roles,
organizations and the eligibility of the resource are guards on data the module
does not have.

### EmergencyDesk, Notices

| Variable | In the code |
|---|---|
| `request` | the EmergencyRequests row: `Status`, `review_status`, `quantity_fulfilled` |
| `allocation` | the row ALLOC-<request_id>: status, quantity |
| `delivery[d]` | the Deliveries rows: status, the four quantities, whether receipt, handover and verification are in the row |
| `call[c]` | what `allocate`, `create_delivery`, `complete_request` have read, and how far an emission has come |
| `event`, `inbox[u]` | the EVENT row of the receipt notice, the INBOX rows of each member by `created_at` |
| `active` | whether the organization's status is ACTIVE |

Every delivery operation writes with the version it read, so it is one action.
`quantity_damaged` and `quantity_missing` only lower the received quantity.
`confirm_receipt` goes on to emit: `EmitEvent`, one `FanOut` per member,
`FinishFanOut`, and a crash anywhere. The event id names the allocation, so the
receipts of all its deliveries share it; their `created_at` differs, and it is part
of the inbox key. `Legacy` is a row from before reviews existed, whose empty
`review_status` counts as cleared.

Members are numbered in the order of a fan-out, owners and admins first;
`resolve_recipients` takes the first `FanoutCap` of them but the actor, and nobody
when the organization is not ACTIVE. The actor is chosen when the event is emitted: no
step before that depends on which member confirmed the receipt. Nothing in the
application changes that status: `SuspendOrganization` is what may be done from
outside. It is a step only while a receipt waits for its emission, which is where it
matters, and while no call of another kind is under way: the rest of such a call does
not look at the status and touches other rows than an emission, so the behaviors in
which the suspension comes first reach nothing else. From then on `authorize` refuses
every call; emissions in flight and the workers go on. It is not taken back in the model; if it were, an event that was
completed with nobody told would stand in an ACTIVE organization.

`update_request` is left out: the fields it writes are data here. Locations of
deliveries, routes, vehicles and drivers as well.

### Billing

| Variable | In the code |
|---|---|
| `row` | the OrganizationSubscriptions row: status, provider subscription, plan and `pending_plan_id`, `cancel_at_period_end`, trial and period end, the boundary an old activation is compared with, `lifecycle_due_at` |
| `record[e]` | `processing_status` of the BillingEvents row of each event |
| `call[c]` | what a webhook, a checkout or a cancellation has read |
| `remote`, `event` | the provider: its subscriptions, and the events it has sent |
| `shown` | history only: events whose target the row had while they were handled |

The webhook is five steps: put or resume the event (`BeginEvent`), read and decide
(`ReadToApply`), write on condition of status and subscription (`SaveTransition`),
finish the event (`FinishEvent`), with a crash between any two. Checkout and
cancellation talk to the provider between their read and their write. Every event
may arrive late, twice, at the same time as itself, or never. Any event may carry an
end of the period or not, and `cancel_at_cycle_end` as yes, as no or not at all
(`Payloads`); an activation without an end leaves an ACTIVE row with a blank
`current_period_end`. The webhook finds the row through an index that follows it
within moments (`webhook.py:258`). `ReadToApply` reads the row itself, at any time
before it decides: an older version that the index still has is what an earlier read
of the same delivery, or the same delivery begun earlier, would have met. This is an
assumption on the index: a lag so long that a payer pays for a checkout which the index
does not show yet is not in the model (that event is IGNORED). A variable for the lag
makes four times the states, more than TLC searches in the time of a run. The daily job rechecks
everything in its write and is one action. The clock stands while a call runs:
a tick is a day.

## Runs

| Run | Instance | Shows |
|---|---|---|
| `ledger` | 1 resource, 1 request, 1 ticket, 1 exchange, 2 organizations, 1 lifecycle call, 2 reservations, no lifecycle call on held items, `FairSpec`, no symmetry | `HoldExclusive`, `HoldOwner`, `ExchangeAgrees`, `RunningReservationKept`, that the ledger implements `ResourceLock`, and that lapsed reservations end, overdue allocations while the holder lookup completes, and overdue exchanges unless a malformed row stops the sweep (129,652 states) |
| `ledger_any_use` | every endpoint on every item, 2 requests (2.3 million states) | `RequestAgrees`, `ExchangeHoldEnds`, `FlagsAgree` |
| `ledger_in_use` | fails | mark_in_use and return_to_available close the hold of an accepted exchange (`ExchangeHoldKept`: the allocation row, not only the item) |
| `ledger_repair` | fails | complete_maintenance on an allocated item leads to two everyday allocations |
| `membership` | 1 owner, 2 others, 3 invitations, 2 calls, 5 claims, roles ADMIN and MEMBER (1.8 million states) | `LastOwnerKept`, `EpochsDistinct`, `NoLostUpdate` |
| `membership_owners` | 2 owners; fails | two owners deactivate each other |
| `quantity_emergency` | 1 pool of at most 3 units, 2 requests, 2 tickets, 2 calls, quantities 1 and 2 | counters at zero or above (`TypeOK`), `ClaimsAgree`, `AllocatedAccounted` |
| `quantity_exchange` | 2 pools of at most 2 units, 1 exchange, 1 request, 2 organizations, 2 calls | `PoolBalanced`, `AllocatedAccounted`, and that pools implement `UnitBank` |
| `quantity_release` | 1 pool, 2 requests; fails | auto release closes an allocation and keeps its units |
| `exchange_offers` | 2 offers, one of them malformed, 2 calls and the worker, 2 codes, `FairSpec` (437,518 states) | `HoldFollowsRequest`, `OfferFollowsRequest`, `OneCode`, that the exchange implements `HandoverDeal`, and `OverdueRequestEnds` unless a malformed row jams the sweep |
| `billing` | 2 calls, 2 provider subscriptions, 2 events of 4 kinds of payload, 3 ticks (2.5 million states) | `PlanAsBought`, `ProcessedWasApplied`, `CancellationAccepted`, `ExpiryUndoneByNewer`, `IndexLostOnlyToStaleRead`, and that the row implements `SubscriptionStates` |
| `emergency_desk` | a request for 2 units, 2 calls, 2 deliveries, 3 members, a fan-out of 1 (1.6 million states) | `QuantitiesAgree`, `NoticesReachAll`, `ReadStaysRead`, and that the desk implements `ReliefCase` |

Bounds. Every hold is on one resource and no handler of `HoldLedger` touches two,
so one resource has all the interleavings; two requests are needed for auto
release to see another emergency holder, which happens only when endpoints are used
on held items (`ledger_any_use`); `LookupRows = 3` is met once an organization has
three rows, so that in `ledger` both outcomes of a lookup occur (in `quantity_emergency`
too; 2 in the other two pool runs); a stale decision that meets the exchange or the
ticket is in `ledger` too; with a ticket and an exchange all three workflows compete. Two reservations are needed
for an expiry that returns to a row that was reserved again. Ids are used once, as
in the code, so that the state space is finite without further bounds. In
`Membership` two calls are what every race in the code needs; three users allow
an admin to be removed while acting on a third; five claims cover inviting and
accepting two members with one more change. OPERATOR differs from MEMBER
nowhere in that module. All are finite histories of small instances; the
theorems below carry every safety property of the passing runs to any size, some of
`HoldLedger`'s and `Membership`'s under a named assumption. What only TLC shows is the
liveness.

In `QuantityPool` three units and quantities 1 and 2 give a request that is met in
parts, a claim that finds less than it read, and two workflows that fit together
or do not; two calls race on one request, or a claim against an ending. Handover
needs two pools, to merge into one or to create it.

In `ExchangeOffers` two offers are a winner and a sibling that is late, open or
being closed; two codes are what rotation needs, and reach the cap; two calls and
the worker give every pair of stale reads. In `EmergencyDesk` a demand of two is met
at once or in two claims; two deliveries make the duplicate that `create_delivery`
does not exclude, and share one notice; three members and a fan-out of one are the one who confirmed,
one who is told and one who is cut, and who that is depends on the actor.
`Legacy = FALSE` there; a request with `Legacy = TRUE` may be served before, during and
after its review, and the theorems cover both. In `Billing` two provider
subscriptions are what a checkout can exchange, two events are one that overtakes
the other or the same delivered twice; a trial and a cycle last one tick of three,
so that each can end, be renewed and end again. `MCPayloads` has an activation with
both fields, one with neither, a failed payment that still says whether the
subscription is to end, and a cancellation with an end of the period. The second call is the race; a
third would add a second stale read of the same kind.

Deadlock is checked in the membership runs only: elsewhere ids, deliveries or
events are used up and the system may stop.

Fairness. `FairSpec` has weak fairness of the three workers only, which
EventBridge invokes on a schedule (5 minutes, hourly for exchanges). A step is one
successful attempt; nothing is assumed of users, operators or of calls in flight.
Two of the three do not look at every due row each time, and the fairness says so:
`LookupHolders` is fair only while the lookup completes, and `ExpireExchange` only
while the sweep meets no malformed row. The properties name the same exceptions
(`~LookupComplete`, `malformed`), and nothing else.

In `ExchangeOffers` the worker's step is not one attempt but a read and a write
that others can make fail for ever by issuing codes, so weak fairness of the write
would assume what has to be shown. `Fairness` is: if no malformed row jams the sweep
any more, the worker takes up a due row again
and again (strong, since the row is due only while no handler has it half ended),
finishes what it took up, and is not interrupted at every possible write. What ends
the race is in the code: `issue_qr` refuses once the deadline has passed, and only
calls in flight are left. That guard is what `OverdueRequestEnds` rests on.

## Proofs

For every value of the constants (TLAPS):

| Theorem | States |
|---|---|
| `HoldLedgerProofs!TypeCorrect` | `Spec => []TypeOK` |
| `HoldLedgerProofs!FlagsCorrect` | `Spec => []FlagsAgree`, any endpoint on any item |
| `HoldLedgerProofs!ExclusiveCorrect` | `Disciplined /\ Spec => []HoldExclusive` |
| `HoldLedgerProofs!OwnerCorrect` | `Disciplined /\ Spec => []HoldOwner` |
| `HoldLedgerProofs!LockCorrect` | `Disciplined /\ Spec => ImplementsLock` |
| `HoldLedgerProofs!RunningCorrect` | `Spec => RunningReservationKept`, any endpoint on any item |
| `HoldLedgerProofs!RequestsCorrect` | `Spec => []RequestAgrees`, any endpoint on any item |
| `HoldLedgerProofs!HoldEndsCorrect` | `Spec => []ExchangeHoldEnds`, any endpoint on any item |
| `HoldLedgerProofs!ExchangesCorrect` | `Disciplined /\ Spec => []ExchangeAgrees` |
| `MembershipProofs!TypeCorrect` | `Spec => []TypeOK` |
| `MembershipProofs!EpochsCorrect` | `Spec => []EpochsDistinct` |
| `MembershipProofs!NoLostUpdateCorrect` | `Spec => NoLostUpdate` |
| `MembershipProofs!LastOwnerCorrect` | `OneOwner /\ Spec => []LastOwnerKept` |
| `QuantityPoolProofs!TypeCorrect` | `Spec => []TypeOK` |
| `QuantityPoolProofs!BalancedCorrect` | `Spec => []PoolBalanced` |
| `QuantityPoolProofs!ClaimsCorrect` | `Spec => []ClaimsAgree` |
| `QuantityPoolProofs!AccountCorrect` | `Spec => []AllocatedAccounted` |
| `QuantityPoolProofs!BankCorrect` | `Spec => ImplementsBank` |
| `ExchangeOffersProofs!TypeCorrect` | `Spec => []TypeOK` |
| `ExchangeOffersProofs!HoldCorrect` | `Spec => []HoldFollowsRequest` |
| `ExchangeOffersProofs!OfferCorrect` | `Spec => []OfferFollowsRequest` |
| `ExchangeOffersProofs!CodeCorrect` | `Spec => []OneCode` |
| `ExchangeOffersProofs!DealCorrect` | `Spec => ImplementsDeal` |
| `EmergencyDeskProofs!TypeCorrect` | `Spec => []TypeOK` |
| `EmergencyDeskProofs!QuantitiesCorrect` | `Spec => []QuantitiesAgree` |
| `EmergencyDeskProofs!CaseCorrect` | `Spec => ImplementsCase` |
| `EmergencyDeskProofs!NoticesCorrect` | `Spec => []NoticesReachAll` |
| `EmergencyDeskProofs!ReadCorrect` | `Spec => ReadStaysRead` |
| `BillingProofs!TypeCorrect` | `Spec => []TypeOK` |
| `BillingProofs!PlanCorrect` | `Spec => []PlanAsBought` |
| `BillingProofs!ProcessedCorrect` | `Spec => []ProcessedWasApplied` |
| `BillingProofs!CancellationCorrect` | `Spec => []CancellationAccepted` |
| `BillingProofs!ExpiryCorrect` | `Spec => ExpiryUndoneByNewer` |
| `BillingProofs!IndexCorrect` | `Spec => IndexLostOnlyToStaleRead` |
| `BillingProofs!ContractCorrect` | `Spec => ImplementsContract` |

`Disciplined` is `HeldItemEndpoints = {}`; the rest of the assumptions are the
`ASSUME`s of the modules (ids of different kinds differ, bounds are naturals).

*The ledger.* `HoldExclusive` is not inductive: a lifecycle call whose condition
names the status it read could write over a hold, and auto release could have
decided to keep a resource. `IInv` adds `FlagsInv` (types, flags and that no call
aims at RESERVED), `Ledger` (at most one live hold per resource, on a row that is
ALLOCATED and of the hold's organization, and no allocated row without one),
`CalmCalls` (a call in flight has read neither ALLOCATED nor IN_USE and carries no
holds to close) and `SoleHolder` (auto release never decides to keep). Every
action is then shown to be one of four changes of the tables (`LedgerStep`:
nothing, a row that stays free, a take, a give-back), and `LedgerKept` shows once
that each of them keeps `Ledger`. `LockCorrect` reads the same four changes as
steps of `ResourceLock`.

*Requests and exchanges of the ledger.* What the rows of one hold tell together does
not depend on its item, so it holds whatever endpoints are used. `Tells` is
`RequestAgrees` and `ExchangeHoldEnds` with one fact more, that an OPEN exchange has no
allocation yet: without it an accept could meet a row that some earlier end left
behind. Every action is shown once to be a move of one hold (`HoldMoves`: a claim, a
release, a completion, an accept, an end, a return) or to leave allocations, requests
and META alone (`StoryStep`). That an accepted exchange keeps its hold (`ExchangeHoldKept`, the
other half of `ExchangeAgrees`) is false when `mark_in_use` and `return_to_available` are called on
its item (`ledger_in_use`), so it is proved under `Disciplined`: `IInv` says that a
lifecycle call in flight then has no hold to close. `RunningReservationKept` goes
through every writer of the row: those it does not name have a status in their
condition that is not RESERVED, or Available, or a due date that has passed, and
`FlagsInv` tells the three from a running reservation.

*Flags.* Every writer sets status and `Available` together and removes the
reservation attributes when it leaves RESERVED; the invariant also needs that a
lifecycle call in flight never has RESERVED for a target, since it would write the
status without the attributes.

*Membership.* `NoLostUpdate` rests on `CallInv`, which ties what a call will write
to what it read. `LastOwnerKept` rests on `OwnerInv`: whoever acts as an owner is
the one owner, so it cannot aim at itself, and whoever else acts was refused that
row by the guard, whatever has happened between guard and write. With two owners
the first half fails, and so does the property.

*Pools.* `TypeOK /\ PoolBalanced` is inductive: a move of units keeps a counter at
zero or above by the condition of its write, and keeps the balance because the
counters are numbers. Each of the seven moves of units is shown once to keep it for
a pool, and each action is then one move of one pool, a handover of two, or none.
`ClaimsAgree` needs in addition what a claim in flight knows (`CallAgrees`): the
request it read exists and keeps `quantity_requested`, and the status it will write
is ALLOCATED exactly when what it read plus what it takes is all of it. The rest is
in the write's condition.

`AllocatedAccounted` counts units instead of adding up quantities: `UnitsOutOf` has
each unit that is out as a pair of its hold and a number, and the counter is the
cardinality of that set. So nothing is shown by induction over the holds, and none need
be assumed finite in number: the set is empty at first, and `OneHoldCounts` says what
becomes of its cardinality when one hold's quantity changes. Every action is shown once
to be one of five moves (`UnitsMove`: none, a shift between available and reserved,
a new pool, units taken by a hold, a hold handed in); `MovesCounted` shows that each
keeps the account, `MovesBank` that each is a step of `UnitBank`. The invariant needs
two things that other handlers could break: the ending of an exchange has read a
counter that covers its hold (`EndKnows`), so that it never leaves the counters alone,
and an exchange is never of the requester's own pool (`Foreign`), so that a handover
has two pools. What a claim adds to a request's allocation is right because of
`ClaimsInv`; that a pool which is registered has nothing out, as `UnitBank` asks, is
the account again.

*The exchange.* `ExchangeInv` adds to the properties that a winner is known exactly
once the exchange is past OPEN (`WinnerKnown`), and what a call in flight knows:
one that will end the exchange knows which end it writes, and one that will issue a
code either has a version older than the pointer's, so that its transaction is
refused, or knows of every active code (`IssueKnows`). Each action is shown once to
be one of nine changes of the rows (`RowStep`) and to change at most one memory
(`CallStep`); everything else argues about those. An issue makes whatever other calls
have read too old, and every other change only ends codes, which is why `OneCode`
holds although `issue_qr` does not look at META. `DealCorrect` needs in addition that
no code exists before an offer has won (`CodesComeLate`), and that the mapping, told
from the holds, agrees with META (`Mapping`).

*The desk.* `QuantitiesAgree` is kept row by row: `RowAgrees` adds that a quantity
is 0 until the operation that sets it, so that `update_status`, which may go to any
status that the table allows, cannot make a row claim more than it has.
`ImplementsCase` needs what `allocate` and `complete_request` have read
(`CallsAgree`) and the request with its allocation (`CaseInv`): the write of a claim
holds only if nothing was fulfilled since, an allocation and a delivery exist only
for a request that is served, and as long as a claim in flight can still land, its
request is cleared. `NoticesInv` says that every notice carries the time of the one
event, and that of the first `FanoutCap` members for some actor each has the notice or
is still left to the emission that goes on (`HaveAllBut`). The actors of overlapping
emissions differ, and so do the members they reach; the fan-out that completes settles
for which actor it is true. An emission that found the organization suspended leaves
nobody, which is why this is claimed only while it is ACTIVE.

*Billing.* `BillingInv` adds what is known apart from the row: an event is about a
subscription that was paid, and tells of a cancellation only if the provider accepted
one (`EventsKnown`); the row names a subscription that a checkout answered with, and
has its plan unless a checkout is pending (`RowKnown`). `CallsKnown` is what each call
in flight still knows when it writes, and is most of the proof: a webhook that will
save has seen the event's own subscription in a status that the event may change;
if the row names that subscription still, a pending plan can only be the one it saw or
promoted since; and if it saw an expiry, the row did not expire again later than the
event (`SaveKnown`). Two checkouts never hold the same new subscription; a
cancellation is accepted before its mark. None of this is read again by the code, so each step of
every other call must keep it. `World` says what any step may do under a call that
does not take it (events and subscriptions are only added to, a row gets another
subscription only at a checkout, an expiry comes out of a trial),
and `KnowledgeStays` shows once that this keeps what a call knows. `RowWriters` lists the
writes of the row for the two action properties (`SaveLosesIndex`, `MarkLosesIndex`: which of them can leave
a scheduled row without its keys), and the refinement of
`SubscriptionStates` takes them one by one. Its `asked` is mapped to what the checkouts
in flight were told (`AskedAbout`): a reference that one replaces was unauthorized when
the provider answered it, and may not be any more.

Only model-checked: the four liveness properties (`LapsedReservationEnds`,
`OverdueAllocationEnds`, `OverdueExchangeEnds`, `OverdueRequestEnds`), since neither
fairness nor ENABLED is within this prover's reach; that symmetric instances stand for
all their permutations is TLC's.

## What the code does against its documents

- `mark_in_use` and `return_to_available` on an item that an accepted exchange
  holds (`lifecycle_operations.py:347`, `:361`): the row becomes AVAILABLE and the
  hold RETURNED while META stays ACCEPTED. The design says that no workflow may
  override the hold after accept.
- `complete_maintenance` and `recover_damage` (`:272`, `:305`) do not require
  MAINTENANCE or DAMAGED: on an ALLOCATED item they free it under its allocation.
- Two owners can deactivate each other (`member_admin.py:292`): the guard counts
  rows that were read before the epoch, and the claim does not cover them.
- A checkout can replace a subscription that has been paid. It asks the provider
  whether the stored one is still `created` (`checkout.py:139`), creates a new one and
  saves its reference on condition of status and old reference (`:149`). If the payer
  authorizes the old one in between, before its event reaches the row, the write goes
  through, and the activation then finds no row with that subscription and is filed
  IGNORED: paid, and never in force. docs/billing-architecture.md:138 says that "a stored
  provider subscription is replaced only when Razorpay still reports it as `created`",
  and the docstring at `checkout.py:128` that "only a subscription Razorpay still reports
  as created can be replaced". `SubscriptionStates` states what holds: the answer was
  given to this very checkout, and a row the activation has reached is safe. No run of
  its own shows the trace.
- One `expires_at` that does not parse ends the hourly sweep for every organization,
  each time it runs (`lifecycle.py:1005`): see `HoldLedger`.
- An organization with more than 2,500 allocation rows may have overdue allocations
  that are never released; the comment at `auto_release/handler.py:16` says that the
  worker skips them, the runbook that auto release works on a schedule.
- With more than 50 members to notify, the ones past the cap get nothing though the
  event is COMPLETE, and owners and admins among them if they alone are more than 50
  (`notifications.py:290`); docs/notification-architecture.md:160 says "if over cap, still
  notify all OWNER+ADMIN first, then OPERATORs up to cap". For an organization that is
  not ACTIVE the event row is put and completed with nobody told, where `:166` says "do
  not create new notifications"; a later emission of the same event finds it
  COMPLETE and tells nobody either (`EmitEvent`).
- Auto release of a quantity allocation while another emergency allocation has
  units of the pool (`emergency_release.py:45`) closes allocation and request and
  writes no counter: the units stay in `quantity_allocated` for good. With no other
  allocation its transaction wants operational_status ALLOCATED, never commits, and
  is tried again every five minutes. The runbook promises that the resource
  becomes available again.

Reached by the models, and stated by no run because no document says otherwise, or
because a run checks something stronger to depend on:

- Ledger: `mark_in_use` on an item with an emergency allocation makes every release
  of it fail, since release needs ALLOCATED and `return_to_available` refuses
  emergency holds.
- Membership: an invitation that is revoked while it is being accepted still admits.
- Requests: a completed request keeps its units ALLOCATED, and no release can end
  that. It may have received nothing: a receipt of 0 is PARTIALLY_RECEIVED, a
  handover of 0 out of 0 verifies, and HANDOVER_COMPLETED counts as received.
  `update_status` reaches DISPATCHED with nothing on board.
- Deliveries: two overlapping `create_delivery` make two active deliveries
  (`tests/test_delivery_tracking.py:163` has the sequential case); after a completed
  handover another delivery for the whole allocation may be made; a delivery keeps
  the quantity the allocation had when it was made, though later claims top it up; one FAILED or
  CANCELLED delivery keeps the request from ever completing; a handover recorded
  with less than was received stays HANDOVER_PENDING, since it can be neither
  verified nor replaced; auto release does not look at deliveries on the road.
- Notices: the receipts of all deliveries of an allocation are one event, so the
  second is announced to nobody; a fan-out that dies is resumed only if another
  delivery emits it again, since a repeated `confirm_receipt` is refused first.
- Exchange: ACTIVE codes and OPEN offers may be left on an exchange that has ended
  (`create_offer`, `issue_qr` and a sweep that dies). They can do nothing any more.
- Billing: a cancellation stored between a webhook's read and its write keeps its
  flag and loses its index entry, and the daily job never ends it. So does one whose
  own call read a blank period end (an activation without `current_end`) that a charge
  filled before the mark (`cancel.py:77-92`). `IndexLostOnlyToStaleRead` shows that
  nothing but these stale reads does that;
  docs/billing-architecture.md:248 says that such a row stores the keys. An event of a subscription
  that checkout replaced finds no row and is filed IGNORED; one that was read before
  the checkout and written after it is refused, and filed PROCESSED all the same if the row
  has its target by then. A PAST_DUE or CANCELLED event is applied however old.

## Plan

1. `HoldLedger`, `ResourceLock`, `Membership` with their proofs (done).
2. `QuantityPool`, `UnitBank` with their proofs (done).
3. `ExchangeOffers`, `HandoverCode`, `HandoverDeal` with their proofs (done).
4. `EmergencyDesk`, `Notices`, `ReliefCase` with their proofs (done).
5. `Billing`, `SubscriptionStates` with their proofs (done).
6. What the proofs still assume: `Disciplined` for the ledger's lock and `OneOwner`
   for the last owner. Both are false without (`ledger_in_use`, `ledger_repair`,
   `membership_owners`); weaker assumptions under which they hold could be stated.

## Not modelled

Candidate scoring and page tokens (pure functions of one call; the models take any
candidate), idempotency records of the exchange, `update_request`, entitlements and
the authorization of each call (only authorized calls are enabled), views, attribute
validation, audit and logging, catalog, locations and public status (one row, one
conditional write), migration scripts but for the billing backfill, the HTTP side of
the payment provider, the frontend, infrastructure and release scripts.
