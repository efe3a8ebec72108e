------------------------------ MODULE Billing -------------------------------
(* The subscription of one organization (src/src/billing): its row in       *)
(* OrganizationSubscriptions, the BillingEvents rows, and the calls that    *)
(* write them: the provider's webhook, checkout, cancellation and the daily *)
(* expiry job.  The provider (Razorpay) is the environment: it authorizes   *)
(* what was checked out and sends events, which arrive in any order, more   *)
(* than once, or never.  Events of other types are stored as IGNORED and    *)
(* change nothing; they are left out.                                       *)
(*                                                                          *)
(* A call that writes on what it read earlier is split at the read; between *)
(* the steps other calls run, and it may die (Crash) and what it had not    *)
(* written is never written.  The expiry job's write rechecks everything it *)
(* read, so it is one action.  Times are ticks of one clock, 0 is a blank   *)
(* timestamp; the provider stamps every event with its time.  A plan is the *)
(* provider subscription it was bought with, 0 is FREE_TRIAL or             *)
(* GRANDFATHERED.                                                           *)
EXTENDS Integers, Sequences

CONSTANTS
    Calls,          \* invocations of the billing functions that overlap
    Payloads,       \* which fields an event may come with, by its target
    TrialLength,    \* ticks from trial_start to trial_end
    CycleLength,    \* ticks from an activation to current_period_end
    MaxTime,        \* bound on the clock
    MaxSubs,        \* bound on the provider subscriptions created
    MaxEvents       \* bound on the events the provider sends

Targets == {"ACTIVE", "PAST_DUE", "CANCELLED"}

ASSUME BoundsAssumption ==
    TrialLength \in Nat \ {0} /\ CycleLength \in Nat \ {0}
    /\ MaxTime \in Nat \ {0} /\ MaxSubs \in Nat /\ MaxEvents \in Nat

ASSUME PayloadsAssumption ==
    Payloads \subseteq [target: Targets, current_end: BOOLEAN, cancel_at_cycle_end: BOOLEAN]

VARIABLES
    now,
    row,            \* the OrganizationSubscriptions row
    remote,         \* the provider's subscriptions, in the order of creation
    event,          \* the events the provider has sent
    record,         \* the processing_status of each event, "NONE" for no row
    call,           \* what each invocation remembers
    shown           \* history: events whose target the row had while handled

vars == <<now, row, remote, event, record, call, shown>>

Subs == 0..MaxSubs
Times == 0..(MaxTime + TrialLength + CycleLength)
Statuses == {"NONE", "TRIALING", "ACTIVE", "PAST_DUE", "CANCELLED", "EXPIRED",
             "GRANDFATHERED"}

Rows == [status: Statuses, sub: Subs, plan: Subs,
         pending: Subs,        \* pending_plan_id
         flag: BOOLEAN,        \* cancel_at_period_end
         trialEnd: Times, periodEnd: Times,
         boundary: Times,      \* cancelled_at if CANCELLED, updated_at if EXPIRED
         due: Times]           \* lifecycle_due_at

\* The attributes a handler takes from the row it read.
Seen == [status: Statuses, sub: Subs, pending: Subs, flag: BOOLEAN, periodEnd: Times]
Look(r) == [status |-> r.status, sub |-> r.sub, pending |-> r.pending,
            flag |-> r.flag, periodEnd |-> r.periodEnd]
Nothing == [status |-> "NONE", sub |-> 0, pending |-> 0, flag |-> FALSE, periodEnd |-> 0]

Memories == [op: {"idle", "received", "save", "processed", "ignored",
                  "reference", "mark"},
             event: 0..MaxEvents, resume: BOOLEAN,
             sub: Subs,                \* the subscription checkout created
             seen: Seen]
Idle == [op |-> "idle", event |-> 0, resume |-> FALSE, sub |-> 0, seen |-> Nothing]

RecordStatuses == {"NONE", "RECEIVED", "PROCESSED", "IGNORED"}

\* Nobody can authorize a created subscription before checkout has answered
\* with it (offered); the provider calls both created.
Remotes == [state: {"created", "offered", "live", "ended"}, cancelling: BOOLEAN]
Events == [sub: Subs, target: Targets, time: Times,
           periodEnd: Times,                      \* 0 if the payload has none
           cancels: {"absent", "no", "yes"}]      \* cancel_at_cycle_end

Init ==
    /\ now = 1
    /\ row = [status |-> "NONE", sub |-> 0, plan |-> 0, pending |-> 0, flag |-> FALSE,
              trialEnd |-> 0, periodEnd |-> 0, boundary |-> 0, due |-> 0]
    /\ remote = <<>> /\ event = <<>> /\ record = <<>>
    /\ call = [c \in Calls |-> Idle]
    /\ shown = {}

Begin(c, memory) == call[c].op = "idle" /\ call' = [call EXCEPT ![c] = memory]
End(c) == call' = [call EXCEPT ![c] = Idle]

\* change_subscription_status: the rows of the table that the webhook can ask for.
MayBecome(from, target) ==
    \/ target = "ACTIVE" /\ from \in {"TRIALING", "PAST_DUE", "CANCELLED", "EXPIRED", "GRANDFATHERED"}
    \/ target \in {"PAST_DUE", "CANCELLED"} /\ from = "ACTIVE"

\* When the expiry job must look at a row, 0 for never.
lifecycle_due(status, trialEnd, flag, periodEnd) ==
    IF status = "TRIALING" THEN trialEnd
    ELSE IF status = "ACTIVE" /\ flag THEN periodEnd ELSE 0

-----------------------------------------------------------------------------
(* The clock, the row's creation and the provider *)

\* The clock starts with the row: nothing before it depends on the time.  A
\* tick is a day and an invocation lasts seconds: the clock stands while one
\* runs, and the daily job may come at any point of the tick.
Tick ==
    /\ row.status # "NONE"
    /\ \A c \in Calls : call[c].op = "idle"
    /\ now < MaxTime
    /\ now' = now + 1
    /\ UNCHANGED <<row, remote, event, record, call, shown>>

\* The put asks that there is no row, so a retried creation changes nothing.
EnsureTrial ==
    /\ row.status = "NONE"
    /\ row' = [row EXCEPT !.status = "TRIALING", !.trialEnd = now + TrialLength,
                   !.due = lifecycle_due("TRIALING", now + TrialLength, FALSE, 0)]
    /\ UNCHANGED <<now, remote, event, record, call, shown>>

\* An organization older than billing gets a row without an end or a provider;
\* one that has a row keeps it.
prepare == row.status = "NONE"
stored_grandfathered_item == [row EXCEPT !.status = "GRANDFATHERED"]

BackfillGrandfathered ==
    /\ prepare
    /\ row' = stored_grandfathered_item
    /\ UNCHANGED <<now, remote, event, record, call, shown>>

\* The payer's money, and what becomes of a subscription, is the provider's.
\* It emits an event for every change and may emit one without a change.  The
\* end of the period and cancel_at_cycle_end may be in the payload or not.
Send(s, has) ==
    LET target == has.target IN
    /\ Len(event) < MaxEvents
    /\ CASE target = "ACTIVE" -> remote[s].state \in {"offered", "live"}
         [] target \in {"PAST_DUE", "CANCELLED"} -> remote[s].state = "live"
    /\ remote' = [remote EXCEPT ![s].state =
           IF target = "ACTIVE" THEN "live"
           ELSE IF target = "CANCELLED" THEN "ended" ELSE @]
    /\ event' = Append(event, [sub |-> s, target |-> target, time |-> now,
           periodEnd |-> IF has.current_end THEN now + CycleLength ELSE 0,
           cancels |-> IF ~has.cancel_at_cycle_end THEN "absent"
                       ELSE IF remote[s].cancelling THEN "yes" ELSE "no"])
    /\ record' = Append(record, "NONE")
    /\ UNCHANGED <<now, row, call, shown>>

-----------------------------------------------------------------------------
(* The webhook *)

\* A RECEIVED event resumes; a call whose put lost to another delivery of the
\* event goes on as if it had created the row.
BeginEvent(c, e) ==
    /\ call[c].op = "idle"
    /\ record[e] \in {"NONE", "RECEIVED"}
    /\ \E resume \in {FALSE, record[e] = "RECEIVED"} :
           Begin(c, [Idle EXCEPT !.op = "received", !.event = e, !.resume = resume])
    /\ record' = [record EXCEPT ![e] = "RECEIVED"]
    /\ UNCHANGED <<now, row, remote, event, shown>>

\* [mutant] an activation counts whenever it happened
NeverStale(r, e) == FALSE

\* An older activation must not undo a local cancellation or trial expiry.
Stale(r, e) ==
    /\ e.target = "ACTIVE"
    /\ r.status \in {"CANCELLED", "EXPIRED"}
    /\ e.time <= r.boundary
    /\ ~(r.status = "EXPIRED" /\ e.periodEnd > r.boundary)

Ignored(r, e) ==
    \/ r.sub # e.sub                      \* no row names the subscription
    \/ Stale(r, e)
    \/ r.status # e.target /\ ~MayBecome(r.status, e.target)

\* History: the row has the event's target as the event is decided or written.
Show(e) == shown' = IF row'.status = event[e].target THEN shown \cup {e} ELSE shown

\* The query by provider_subscription_id reads an index that follows the row
\* within moments, sooner than a person pays or cancels after a write.  What it
\* returns is the row at some time since the delivery began, or before that as
\* another order of the same steps would have it: the row the call reads here,
\* any time before it decides on it.
ReadToApply(c) ==
    LET e == event[call[c].event]
        unchanged == row.status = e.target /\ call[c].resume
    IN  /\ call[c].op = "received"
        /\ call' = [call EXCEPT ![c] = [@ EXCEPT !.resume = FALSE,
               !.op = IF Ignored(row, e) THEN "ignored"
                      ELSE IF unchanged THEN "processed" ELSE "save",
               !.seen = IF Ignored(row, e) \/ unchanged THEN Nothing ELSE Look(row)]]
        /\ UNCHANGED <<now, row, remote, event, record>>
        /\ Show(call[c].event)

\* [mutant] a change to ACTIVE leaves the flag as it was
FlagKept(seen, e) == e.cancels = "yes" \/ (e.cancels = "absent" /\ seen.flag)

Activates(seen, e) == e.target = "ACTIVE" /\ seen.status # "ACTIVE"

\* The flag after the write, from the payload and from the row as it was read.
FlagAfter(seen, e) ==
    \/ e.cancels = "yes"
    \/ e.cancels = "absent" /\ seen.flag /\ ~Activates(seen, e)

\* A change to ACTIVE makes the plan that was checked out the plan of the row.
Promotes(seen, e) == Activates(seen, e) /\ seen.pending # 0

\* The row's own flag is left alone where the payload has none, except that a
\* change to ACTIVE clears it.
Transition(r, seen, e) ==
    LET changing == seen.status # e.target
        end == IF e.periodEnd # 0 THEN e.periodEnd ELSE seen.periodEnd
    IN  [r EXCEPT
           !.status = e.target,
           !.periodEnd = IF e.periodEnd # 0 THEN e.periodEnd ELSE @,
           !.flag = IF e.cancels # "absent" \/ Activates(seen, e)
                    THEN FlagAfter(seen, e) ELSE @,
           !.plan = IF Promotes(seen, e) THEN seen.pending ELSE @,
           !.pending = IF Promotes(seen, e) THEN 0 ELSE @,
           !.boundary = IF e.target # "CANCELLED" THEN 0
                        ELSE IF changing THEN e.time ELSE @,
           !.due = lifecycle_due(e.target, 0, FlagAfter(seen, e), end)]

\* [mutant] the write asks for the status alone
SameStatus(seen) == row.status = seen.status

Expected(seen) == row.status = seen.status /\ row.sub = seen.sub

\* [mutant] a refused write is reported as done
SaveQuietly(c) ==
    LET e == event[call[c].event]
        seen == call[c].seen
    IN  /\ call[c].op = "save"
        /\ row' = IF Expected(seen) THEN Transition(row, seen, e) ELSE row
        /\ call' = [call EXCEPT ![c] = [@ EXCEPT !.op = "processed", !.seen = Nothing]]
        /\ Show(call[c].event)
        /\ UNCHANGED <<now, remote, event, record>>

\* A refused write is an error (500, the provider sends the event again),
\* unless the row has the target by now.
SaveTransition(c) ==
    LET e == event[call[c].event]
        seen == call[c].seen
    IN  /\ call[c].op = "save"
        /\ row' = IF Expected(seen) THEN Transition(row, seen, e) ELSE row
        /\ IF Expected(seen) \/ row.status = e.target
           THEN call' = [call EXCEPT ![c] = [@ EXCEPT !.op = "processed", !.seen = Nothing]]
           ELSE End(c)
        /\ Show(call[c].event)
        /\ UNCHANGED <<now, remote, event, record>>

\* Refused when another delivery of the event finished first.
FinishEvent(c) ==
    LET e == call[c].event
    IN  /\ call[c].op \in {"processed", "ignored"}
        /\ record' = IF record[e] # "RECEIVED" THEN record
                     ELSE [record EXCEPT ![e] = IF call[c].op = "processed"
                                                THEN "PROCESSED" ELSE "IGNORED"]
        /\ End(c)
        /\ UNCHANGED <<now, row, remote, event, shown>>

-----------------------------------------------------------------------------
(* Checkout and cancellation *)

CheckoutStatuses == {"TRIALING", "EXPIRED", "CANCELLED", "GRANDFATHERED"}

\* The provider's answers: a new subscription, and whether one is "created".
NewSubscription == [state |-> "created", cancelling |-> FALSE]
NotAuthorized(s) == remote[s].state \in {"created", "offered"}

\* What a checkout may replace: a subscription nobody authorized, or that of
\* a cancelled row.
Replaceable(r) ==
    r.sub # 0 /\ r.status # "CANCELLED" => NotAuthorized(r.sub)

\* The row is read, the provider asked, and the new subscription created.
ReadToCheckout(c) ==
    /\ row.status \in CheckoutStatuses
    /\ Replaceable(row)
    /\ Len(remote) < MaxSubs
    /\ remote' = Append(remote, NewSubscription)
    /\ Begin(c, [Idle EXCEPT !.op = "reference", !.sub = Len(remote) + 1,
                    !.seen = [Nothing EXCEPT !.status = row.status,
                              !.sub = IF row.status = "CANCELLED" THEN 0 ELSE row.sub]])
    /\ UNCHANGED <<now, row, event, record, shown>>

\* [mutant] the write asks for the previous reference alone
SamePrevious(seen) == row.sub \in {0, seen.sub}

ReferenceFree(seen) ==
    /\ row.status = seen.status
    /\ row.sub \in {0, seen.sub} \/ row.status = "CANCELLED"

SaveReference(c) ==
    /\ call[c].op = "reference"
    /\ IF ReferenceFree(call[c].seen)
       THEN /\ row' = [row EXCEPT !.sub = call[c].sub, !.pending = call[c].sub,
                          !.boundary = IF row.status = "EXPIRED" THEN now ELSE @]
            /\ remote' = [remote EXCEPT ![call[c].sub].state = "offered"]
       ELSE UNCHANGED <<row, remote>>
    /\ End(c)
    /\ UNCHANGED <<now, event, record, shown>>

\* cancel_at_cycle_end: the provider will cancel s when its cycle ends.
CancelAtCycleEnd(s) ==
    /\ remote[s].state = "live"
    /\ remote' = [remote EXCEPT ![s].cancelling = TRUE]

\* The row is read and the provider accepts the cancellation.
ReadToCancel(c) ==
    /\ row.status = "ACTIVE" /\ row.sub # 0 /\ ~row.flag
    /\ CancelAtCycleEnd(row.sub)
    /\ Begin(c, [Idle EXCEPT !.op = "mark", !.seen = Look(row)])
    /\ UNCHANGED <<now, row, event, record, shown>>

\* [mutant] the flag is set and the index keys are forgotten
MarkFlagOnly(c) ==
    /\ call[c].op = "mark"
    /\ row' = IF Expected(call[c].seen) /\ ~row.flag THEN [row EXCEPT !.flag = TRUE] ELSE row
    /\ End(c)
    /\ UNCHANGED <<now, remote, event, record, shown>>

MarkPeriodEnd(c) ==
    LET seen == call[c].seen
    IN  /\ call[c].op = "mark"
        /\ row' = IF Expected(seen) /\ ~row.flag
                  THEN [row EXCEPT !.flag = TRUE,
                            !.due = lifecycle_due("ACTIVE", 0, TRUE, seen.periodEnd)]
                  ELSE row
        /\ End(c)
        /\ UNCHANGED <<now, remote, event, record, shown>>

-----------------------------------------------------------------------------
(* The daily job *)

Due == row.due # 0 /\ row.due <= now

\* [mutant] the row keeps its index keys
ExpireTrialIndexed ==
    /\ Due
    /\ row.status = "TRIALING" /\ row.trialEnd <= now
    /\ row' = [row EXCEPT !.status = "EXPIRED", !.boundary = now]
    /\ UNCHANGED <<now, remote, event, record, call, shown>>

ExpireTrial ==
    /\ Due
    /\ row.status = "TRIALING" /\ row.trialEnd <= now
    /\ row' = [row EXCEPT !.status = "EXPIRED", !.boundary = now, !.due = 0]
    /\ UNCHANGED <<now, remote, event, record, call, shown>>

CompleteCancellation ==
    /\ Due
    /\ row.status = "ACTIVE" /\ row.flag
    /\ row.periodEnd # 0 /\ row.periodEnd <= now
    /\ row' = [row EXCEPT !.status = "CANCELLED", !.boundary = now, !.due = 0]
    /\ UNCHANGED <<now, remote, event, record, call, shown>>

run_expiry == ExpireTrial \/ CompleteCancellation

Crash(c) ==
    /\ call[c].op # "idle"
    /\ End(c)
    /\ UNCHANGED <<now, row, remote, event, record, shown>>

process_webhook(c) ==
    \/ \E e \in 1..Len(event) : BeginEvent(c, e)
    \/ ReadToApply(c)
    \/ SaveTransition(c)
    \/ FinishEvent(c)

Api(c) ==
    \/ ReadToCheckout(c)
    \/ SaveReference(c)
    \/ ReadToCancel(c)
    \/ MarkPeriodEnd(c)

Next ==
    \/ Tick
    \/ EnsureTrial
    \/ BackfillGrandfathered
    \/ Len(event) < MaxEvents /\ \E s \in 1..Len(remote), has \in Payloads : Send(s, has)
    \/ \E c \in Calls : process_webhook(c) \/ Api(c) \/ Crash(c)
    \/ run_expiry

Spec == Init /\ [][Next]_vars

-----------------------------------------------------------------------------
(* Properties *)

\* Types, and the index: only a trial or an ACTIVE row is ever on it.
TypeOK ==
    /\ row.due # 0 => row.status \in {"TRIALING", "ACTIVE"}
    /\ now \in 1..MaxTime
    /\ row \in Rows
    /\ Len(remote) <= MaxSubs /\ remote \in Seq(Remotes)
    /\ Len(event) <= MaxEvents /\ event \in Seq(Events)
    /\ Len(record) = Len(event)
    /\ record \in Seq(RecordStatuses)
    /\ call \in [Calls -> Memories]
    /\ shown \subseteq 1..Len(event)

\* A paying organization has the plan its provider subscription was bought
\* for, and no choice of another checkout: _apply_pending_plan promotes what
\* it read before the write, while checkouts replace the reference.
PlanAsBought ==
    /\ row.status \in {"ACTIVE", "PAST_DUE"} => row.plan = row.sub
    /\ row.pending \in {0, row.sub}

\* An event is marked PROCESSED only if the row had the status it asks for
\* while it was handled, whatever crashed, was refused or came twice.
ProcessedWasApplied ==
    \A e \in 1..Len(event) : record[e] = "PROCESSED" => e \in shown

\* An ACTIVE row ends with its period only if the provider accepted to cancel
\* the very subscription it names: the flag is written after the provider's
\* answer, and by webhooks from what they read.
CancellationAccepted ==
    row.status = "ACTIVE" /\ row.flag => remote[row.sub].cancelling

\* A trial or a subscription that expired is brought back only by an event
\* that is newer than the expiry or pays beyond it, when the event is written.
ExpiryUndoneByNewer ==
    [][row.status = "EXPIRED" /\ row'.status = "ACTIVE" =>
          \E c \in Calls :
              /\ call[c].op = "save" /\ call'[c].op = "processed"
              /\ \/ event[call[c].event].time > row.boundary
                 \/ event[call[c].event].periodEnd > row.boundary]_vars

EverPaid == {s \in 1..Len(remote) : remote[s].state \in {"live", "ended"}}

\* The subscriptions that a checkout in progress may replace: the provider has
\* answered it that nobody authorized them.
AskedAbout == {call[c].seen.sub : c \in {d \in Calls : call[d].op = "reference"}} \ {0}

Contract == INSTANCE SubscriptionStates WITH
    status <- row.status, sub <- row.sub, paid <- EverPaid, asked <- AskedAbout

\* The conditional writes keep to the table of transitions, activate only
\* what the provider was paid for, and exchange a subscription only when the
\* row is cancelled or the provider has answered this very checkout that it is
\* not paid for; never that of a paying organization.
ImplementsContract == Contract!Spec

\* A row whose subscription is to end with its period is on LifecycleDueIndex,
\* or the job never ends it.  A write takes it off only if its call has read
\* another flag or another period end than the row has by now: a webhook that
\* read before the cancellation was stored, or either of the two that read
\* before the period end was.
Scheduled == row.status = "ACTIVE" /\ row.flag /\ row.periodEnd # 0

Outdated(c) == call[c].seen.flag # row.flag \/ call[c].seen.periodEnd # row.periodEnd

IndexLostOnlyToStaleRead ==
    [][Scheduled' /\ row'.due = 0 /\ ~(Scheduled /\ row.due = 0) =>
          \E c \in Calls :
              /\ \/ call[c].op = "save" /\ call'[c].op = "processed"
                 \/ call[c].op = "mark" /\ call'[c].op = "idle"
              /\ Outdated(c)]_vars
=============================================================================
