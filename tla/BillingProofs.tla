---------------------------- MODULE BillingProofs ----------------------------
(* Theorems about Billing, for any number of overlapping calls, provider    *)
(* subscriptions and events.                                                *)
EXTENDS Billing, SequenceTheorems, TLAPS

-----------------------------------------------------------------------------
(* The parts of the inductive invariant                                    *)

Sold == 1..Len(remote)
Sent == 1..Len(event)
Created(s) == remote[s].state = "created"
Paid(s) == remote[s].state \in {"live", "ended"}

\* An event is about a subscription that was paid once, and tells of a
\* cancellation only if the provider has accepted one.
EventsKnown ==
    \A i \in Sent :
        /\ event[i].sub \in Sold
        /\ Paid(event[i].sub)
        /\ event[i].cancels = "yes" => remote[event[i].sub].cancelling

\* The row names a subscription that a checkout has answered with, and its plan
\* is that subscription unless a checkout is pending.
RowKnown ==
    /\ row.sub # 0 => row.sub \in Sold /\ ~Created(row.sub)
    /\ row.pending \in {0, row.sub}
    /\ row.pending = 0 => row.plan = row.sub
    /\ row.status \in {"ACTIVE", "PAST_DUE"} => row.sub # 0 /\ row.plan = row.sub
    /\ row.status = "ACTIVE" /\ row.flag => remote[row.sub].cancelling

\* What a webhook knows that has decided to write: what it read is what the
\* event asks to change, a checkout it did not see is one of another
\* subscription, and an expiry it did not see did not happen.
SaveKnown(m) ==
    LET e == event[m.event]
    IN  /\ m.seen.sub = e.sub
        /\ m.seen.status = e.target \/ MayBecome(m.seen.status, e.target)
        /\ m.seen.pending \in {0, m.seen.sub}
        /\ row.sub = m.seen.sub => row.pending \in {0, m.seen.pending}
        /\ m.seen.status = "EXPIRED" =>
               /\ row.status \notin {"NONE", "TRIALING"}
               /\ row.status = "EXPIRED" /\ row.sub = m.seen.sub =>
                      e.time > row.boundary \/ e.periodEnd > row.boundary

Known(m) ==
    /\ m.op \in {"received", "save", "processed", "ignored"} => m.event \in Sent
    /\ m.op = "save" => SaveKnown(m)
    /\ m.op = "processed" => m.event \in shown
    /\ m.op = "reference" => m.sub \in Sold /\ Created(m.sub) /\ m.seen.status \in CheckoutStatuses
    /\ m.op = "mark" =>
           /\ m.seen.status = "ACTIVE"
           /\ m.seen.sub \in Sold /\ remote[m.seen.sub].cancelling

CallsKnown ==
    /\ \A c \in Calls : Known(call[c])
    /\ \A c, d \in Calls :
           c # d /\ call[c].op = "reference" /\ call[d].op = "reference" => call[c].sub # call[d].sub

BillingInv ==
    /\ TypeOK
    /\ EventsKnown
    /\ RowKnown
    /\ CallsKnown
    /\ ProcessedWasApplied

\* What a step may do to the events, the provider's subscriptions and the row
\* under a call that does not take it: nothing an event or a subscription has
\* been is taken back, a row gets another subscription only at a checkout, and
\* an expiry comes out of a trial.
RowMoves ==
    /\ row'.status \in {"NONE", "TRIALING"} => row.status \in {"NONE", "TRIALING"}
    /\ \/ row'.sub = row.sub /\ row'.pending \in {0, row.pending}
       \/ row'.sub \in Sold /\ Created(row'.sub)
    /\ row'.status = "EXPIRED" =>
           \/ row.status = "TRIALING"
           \/ row.status = "EXPIRED" /\ (row'.sub = row.sub => row'.boundary = row.boundary)

EventsStay ==
    /\ Len(event') \in Nat /\ Len(event) <= Len(event')
    /\ \A i \in Sent : event'[i] = event[i]
    /\ shown \subseteq shown'

RemoteStays ==
    /\ Len(remote') \in Nat /\ Len(remote) <= Len(remote')
    /\ \A s \in Sold :
           /\ ~Created(s) => remote'[s].state # "created"
           /\ Paid(s) => remote'[s].state \in {"live", "ended"}
           /\ remote[s].cancelling => remote'[s].cancelling

World == EventsStay /\ RemoteStays /\ RowMoves

\* Known, of what a call remembers, in the state after a step.
StillKnown(m) ==
    /\ m.op \in {"received", "save", "processed", "ignored"} => m.event \in 1..Len(event')
    /\ m.op = "save" =>
           /\ m.seen.sub = event'[m.event].sub
           /\ m.seen.status = event'[m.event].target \/ MayBecome(m.seen.status, event'[m.event].target)
           /\ m.seen.pending \in {0, m.seen.sub}
           /\ row'.sub = m.seen.sub => row'.pending \in {0, m.seen.pending}
           /\ m.seen.status = "EXPIRED" =>
                  /\ row'.status \notin {"NONE", "TRIALING"}
                  /\ row'.status = "EXPIRED" /\ row'.sub = m.seen.sub =>
                         \/ event'[m.event].time > row'.boundary
                         \/ event'[m.event].periodEnd > row'.boundary
    /\ m.op = "processed" => m.event \in shown'
    /\ m.op = "reference" =>
           /\ m.sub \in 1..Len(remote') /\ remote'[m.sub].state = "created"
           /\ m.seen.status \in CheckoutStatuses
    /\ m.op = "mark" =>
           /\ m.seen.status = "ACTIVE"
           /\ m.seen.sub \in 1..Len(remote') /\ remote'[m.seen.sub].cancelling

\* The other calls that have created a subscription keep it.
OthersKeep(c) ==
    \A d \in Calls \ {c} : call[d].op = "reference" => remote'[call[d].sub].state = "created"

-----------------------------------------------------------------------------
(* Lemmas about times, rows and memories                                   *)

\* Every time the code writes is one of Times.
LEMMA TimesReached ==
    ASSUME TypeOK
    PROVE  /\ Times \subseteq Nat
           /\ 0 \in Times /\ now \in Times
           /\ now + TrialLength \in Times
           /\ now + CycleLength \in Times /\ now + CycleLength # 0
    BY BoundsAssumption DEF TypeOK, Times

\* What lifecycle_due returns is a time, 0 for a row that is on no index.
LEMMA DueTyped ==
    ASSUME NEW status, NEW trialEnd \in Times, NEW flag \in BOOLEAN, NEW periodEnd \in Times
    PROVE  /\ lifecycle_due(status, trialEnd, flag, periodEnd) \in Times
           /\ lifecycle_due(status, trialEnd, flag, periodEnd) # 0 => status \in {"TRIALING", "ACTIVE"}
    BY BoundsAssumption DEF lifecycle_due, Times

\* The fields of the row that a webhook writes.
LEMMA TransitionFields ==
    ASSUME NEW r \in Rows, NEW seen \in Seen, NEW e \in Events
    PROVE  LET w == Transition(r, seen, e)
           IN  /\ w \in Rows
               /\ w.status = e.target /\ w.sub = r.sub
               /\ w.periodEnd = IF e.periodEnd # 0 THEN e.periodEnd ELSE r.periodEnd
               /\ w.flag = IF e.cancels # "absent" \/ Activates(seen, e)
                           THEN FlagAfter(seen, e) ELSE r.flag
               /\ w.plan = IF Promotes(seen, e) THEN seen.pending ELSE r.plan
               /\ w.pending = IF Promotes(seen, e) THEN 0 ELSE r.pending
               /\ w.due = lifecycle_due(e.target, 0, FlagAfter(seen, e),
                              IF e.periodEnd # 0 THEN e.periodEnd ELSE seen.periodEnd)
               /\ w.due # 0 => w.status \in {"TRIALING", "ACTIVE"}
<1> DEFINE end == IF e.periodEnd # 0 THEN e.periodEnd ELSE r.periodEnd
           flag == IF e.cancels # "absent" \/ Activates(seen, e)
                   THEN FlagAfter(seen, e) ELSE r.flag
           plan == IF Promotes(seen, e) THEN seen.pending ELSE r.plan
           pending == IF Promotes(seen, e) THEN 0 ELSE r.pending
           boundary == IF e.target # "CANCELLED" THEN 0
                       ELSE IF seen.status # e.target THEN e.time ELSE r.boundary
           due == lifecycle_due(e.target, 0, FlagAfter(seen, e),
                      IF e.periodEnd # 0 THEN e.periodEnd ELSE seen.periodEnd)
           w == Transition(r, seen, e)
<1>1. w = [r EXCEPT !.status = e.target, !.periodEnd = end, !.flag = flag, !.plan = plan,
                    !.pending = pending, !.boundary = boundary, !.due = due]
    BY DEF Transition, Rows
<1>2. 0 \in Times /\ 0 \in Subs
    BY BoundsAssumption DEF Times, Subs
<1>3. e.target \in Statuses /\ e.time \in Times /\ e.periodEnd \in Times
      /\ e.cancels \in {"absent", "no", "yes"}
    BY DEF Events, Targets, Statuses
<1>4. seen.flag \in BOOLEAN /\ seen.pending \in Subs /\ seen.periodEnd \in Times
    BY DEF Seen
<1>5. r.flag \in BOOLEAN /\ r.plan \in Subs /\ r.pending \in Subs /\ r.periodEnd \in Times
      /\ r.boundary \in Times /\ r.sub \in Subs /\ r.trialEnd \in Times
    BY DEF Rows
<1>6. FlagAfter(seen, e) \in BOOLEAN
    BY <1>3, <1>4 DEF FlagAfter, Activates
<1>7. end \in Times /\ plan \in Subs /\ pending \in Subs /\ boundary \in Times /\ flag \in BOOLEAN
    BY <1>2, <1>3, <1>4, <1>5, <1>6
<1>8. due \in Times /\ (due # 0 => e.target \in {"TRIALING", "ACTIVE"})
    BY <1>2, <1>3, <1>4, <1>6, DueTyped
<1> HIDE DEF end, flag, plan, pending, boundary, due, w
<1>9. /\ w \in Rows
      /\ w.status = e.target /\ w.sub = r.sub /\ w.periodEnd = end /\ w.flag = flag
      /\ w.plan = plan /\ w.pending = pending /\ w.due = due
    BY <1>1, <1>3, <1>5, <1>7, <1>8 DEF Rows
<1> QED BY <1>8, <1>9 DEF w, end, flag, plan, pending, due

\* An idle call is a memory like any other, and knows nothing.
LEMMA IdleTyped == Idle \in Memories /\ Idle.op = "idle"
    BY BoundsAssumption DEF Idle, Memories, Nothing, Seen, Statuses, Subs, Times

LEMMA NothingTyped == Nothing \in Seen /\ \A r \in Rows : Look(r) \in Seen
    BY BoundsAssumption DEF Nothing, Look, Seen, Rows, Statuses, Subs, Times

\* What a call knows stays true in the steps of others.
LEMMA KnowledgeStays ==
    ASSUME BillingInv, World, NEW m \in Memories, Known(m),
           m.op = "reference" => remote'[m.sub].state = "created"
    PROVE  StillKnown(m)
<1>1. ASSUME m.op = "save"
      PROVE  /\ m.event \in Sent /\ event'[m.event] = event[m.event]
             /\ row'.sub = m.seen.sub => row.sub = m.seen.sub /\ row'.pending \in {0, row.pending}
    <2>1. m.event \in Sent /\ event'[m.event] = event[m.event] /\ m.seen.sub = event[m.event].sub
        BY <1>1 DEF Known, SaveKnown, World, EventsStay
    <2>2. Paid(m.seen.sub)
        BY <2>1 DEF BillingInv, EventsKnown
    <2>3. ~Created(m.seen.sub)
        BY <2>2 DEF Paid, Created
    <2> QED BY <2>1, <2>3 DEF World, RowMoves
<1>2. m.op \in {"received", "save", "processed", "ignored"} => m.event \in 1..Len(event')
    BY DEF Known, Sent, World, EventsStay, BillingInv, TypeOK
<1>3. ASSUME m.op = "save"
      PROVE  /\ m.seen.sub = event'[m.event].sub
             /\ m.seen.status = event'[m.event].target \/ MayBecome(m.seen.status, event'[m.event].target)
             /\ m.seen.pending \in {0, m.seen.sub}
             /\ row'.sub = m.seen.sub => row'.pending \in {0, m.seen.pending}
    BY <1>1, <1>3 DEF Known, SaveKnown
<1>4. ASSUME m.op = "save", m.seen.status = "EXPIRED"
      PROVE  /\ row'.status \notin {"NONE", "TRIALING"}
             /\ row'.status = "EXPIRED" /\ row'.sub = m.seen.sub =>
                    \/ event'[m.event].time > row'.boundary
                    \/ event'[m.event].periodEnd > row'.boundary
    BY <1>1, <1>4 DEF Known, SaveKnown, World, RowMoves
<1>5. m.op = "processed" => m.event \in shown'
    BY DEF Known, World, EventsStay
<1>6. m.op = "reference" =>
          /\ m.sub \in 1..Len(remote') /\ remote'[m.sub].state = "created"
          /\ m.seen.status \in CheckoutStatuses
    BY DEF Known, Sold, World, RemoteStays, BillingInv, TypeOK
<1>7. m.op = "mark" =>
          /\ m.seen.status = "ACTIVE"
          /\ m.seen.sub \in 1..Len(remote') /\ remote'[m.seen.sub].cancelling
    BY DEF Known, Sold, World, RemoteStays, BillingInv, TypeOK
<1> QED BY <1>2, <1>3, <1>4, <1>5, <1>6, <1>7 DEF StillKnown

\* The types that the proofs need one by one.
LEMMA TypeFacts ==
    ASSUME TypeOK
    PROVE  /\ row \in Rows
           /\ Len(remote) \in Nat /\ remote \in Seq(Remotes) /\ \A s \in Sold : remote[s] \in Remotes
           /\ Len(event) \in Nat /\ event \in Seq(Events) /\ \A e \in Sent : event[e] \in Events
           /\ Len(record) = Len(event) /\ record \in Seq(RecordStatuses)
           /\ \A c \in Calls : call[c] \in Memories
BY LenProperties, ElementOfSeq DEF TypeOK, Sold, Sent

\* A step that changes what one call remembers.
LEMMA CallWrites ==
    ASSUME BillingInv, World, NEW c \in Calls, NEW m \in Memories, StillKnown(m),
           call' = [call EXCEPT ![c] = m], OthersKeep(c),
           m.op = "reference" =>
               \A d \in Calls \ {c} : call[d].op = "reference" => call[d].sub # m.sub
    PROVE  CallsKnown' /\ call' \in [Calls -> Memories]
<1>1. call \in [Calls -> Memories] /\ CallsKnown
    BY DEF BillingInv, TypeOK
<1>2. call' \in [Calls -> Memories] /\ call'[c] = m /\ \A d \in Calls \ {c} : call'[d] = call[d]
    BY <1>1
<1>3. ASSUME NEW d \in Calls \ {c} PROVE StillKnown(call'[d])
    <2> DEFINE n == call[d]
    <2>1. n \in Memories /\ Known(n) /\ (n.op = "reference" => remote'[n.sub].state = "created")
        BY <1>1 DEF CallsKnown, OthersKeep
    <2> HIDE DEF n
    <2>2. StillKnown(n)
        BY <2>1, KnowledgeStays
    <2> QED BY <1>2, <2>2 DEF n
<1>4. \A d \in Calls : StillKnown(call'[d])
    BY <1>2, <1>3
<1>5. \A d \in Calls : Known(call[d])'
    BY <1>4 DEF StillKnown, Known, SaveKnown, Sold, Sent, Created
<1>6. ASSUME NEW d \in Calls, NEW f \in Calls, d # f,
             call'[d].op = "reference", call'[f].op = "reference"
      PROVE  call'[d].sub # call'[f].sub
    BY <1>1, <1>2, <1>6 DEF CallsKnown
<1> QED BY <1>2, <1>5, <1>6 DEF CallsKnown

\* A step that leaves the calls alone.
LEMMA CallsStay ==
    ASSUME BillingInv, World, call' = call,
           \A d \in Calls : call[d].op = "reference" => remote'[call[d].sub].state = "created"
    PROVE  CallsKnown' /\ call' \in [Calls -> Memories]
<1>1. call \in [Calls -> Memories] /\ CallsKnown
    BY DEF BillingInv, TypeOK
<1>2. ASSUME NEW d \in Calls PROVE StillKnown(call'[d])
    <2> DEFINE n == call[d]
    <2>1. n \in Memories /\ Known(n) /\ (n.op = "reference" => remote'[n.sub].state = "created")
        BY <1>1 DEF CallsKnown
    <2> HIDE DEF n
    <2>2. StillKnown(n)
        BY <2>1, KnowledgeStays
    <2> QED BY <2>2 DEF n
<1>3. \A d \in Calls : Known(call[d])'
    BY <1>2 DEF StillKnown, Known, SaveKnown, Sold, Sent, Created
<1> QED BY <1>1, <1>3 DEF CallsKnown

\* An ended call knows nothing.
LEMMA CallEnds ==
    ASSUME BillingInv, World, NEW c \in Calls, End(c), OthersKeep(c)
    PROVE  CallsKnown' /\ call' \in [Calls -> Memories]
<1>1. StillKnown(Idle)
    BY IdleTyped DEF StillKnown
<1> QED BY <1>1, IdleTyped, CallWrites DEF End

\* A provider that changes nothing keeps every subscription created.
LEMMA RemoteSame ==
    ASSUME BillingInv, remote' = remote
    PROVE  /\ RemoteStays
           /\ \A d \in Calls : call[d].op = "reference" => remote'[call[d].sub].state = "created"
           /\ \A c \in Calls : OthersKeep(c)
BY TypeFacts DEF BillingInv, CallsKnown, Known, Created, Paid, RemoteStays, OthersKeep

LEMMA EventsSame ==
    ASSUME BillingInv, event' = event, shown \subseteq shown'
    PROVE  EventsStay
BY TypeFacts DEF BillingInv, EventsStay

LEMMA RowSame ==
    ASSUME BillingInv, row' = row
    PROVE  RowMoves
BY TypeFacts DEF BillingInv, RowMoves

\* What the events and the row say of the provider stays true.
LEMMA EventsKnownStays ==
    ASSUME BillingInv, event' = event, RemoteStays
    PROVE  EventsKnown'
<1>1. Len(remote) \in Nat /\ EventsKnown
    BY TypeFacts DEF BillingInv
<1>2. ASSUME NEW i \in Sent
      PROVE  /\ event[i].sub \in Sold /\ event[i].sub \in 1..Len(remote')
             /\ remote'[event[i].sub].state \in {"live", "ended"}
             /\ event[i].cancels = "yes" => remote'[event[i].sub].cancelling
    BY <1>1 DEF EventsKnown, RemoteStays, Sold, Paid
<1> QED BY <1>2 DEF EventsKnown, Sold, Sent, Paid

LEMMA RowKnownStays ==
    ASSUME BillingInv, row' = row, RemoteStays
    PROVE  RowKnown'
<1>1. RowKnown /\ Len(remote) \in Nat
    BY TypeFacts DEF BillingInv
<1>2. row.sub # 0 => row.sub \in Sold' /\ ~Created(row.sub)'
    BY <1>1 DEF RowKnown, RemoteStays, Sold, Created
<1>3. row.status = "ACTIVE" /\ row.flag => remote'[row.sub].cancelling
    BY <1>1 DEF RowKnown, RemoteStays
<1> QED BY <1>1, <1>2, <1>3 DEF RowKnown, Created

-----------------------------------------------------------------------------
(* Every action keeps the invariant                                        *)

LEMMA TickSafe ==
    ASSUME BillingInv, Tick
    PROVE  BillingInv'
<1>1. World /\ EventsKnown' /\ RowKnown'
    BY RemoteSame, EventsSame, RowSame, EventsKnownStays, RowKnownStays DEF Tick, World
<1>2. CallsKnown'
    BY <1>1, RemoteSame, CallsStay DEF Tick
<1>3. TypeOK'
    BY BoundsAssumption DEF BillingInv, TypeOK, Tick
<1>4. ProcessedWasApplied'
    BY DEF BillingInv, ProcessedWasApplied, Tick
<1> QED BY <1>1, <1>2, <1>3, <1>4 DEF BillingInv

\* The row's first status: it has bought nothing yet, or what it names it keeps.
LEMMA FirstRow ==
    ASSUME BillingInv, EnsureTrial \/ BackfillGrandfathered
    PROVE  /\ row' \in Rows
           /\ row'.status \in {"TRIALING", "GRANDFATHERED"} /\ row.status = "NONE"
           /\ row'.sub = row.sub /\ row'.plan = row.plan /\ row'.pending = row.pending
           /\ row'.due # 0 => row'.status \in {"TRIALING", "ACTIVE"}
<1>1. row \in Rows /\ (row.due # 0 => row.status \in {"TRIALING", "ACTIVE"})
    BY DEF BillingInv, TypeOK
<1>2. CASE EnsureTrial
    <2> DEFINE end == now + TrialLength
               due == lifecycle_due("TRIALING", end, FALSE, 0)
    <2>1. end \in Times /\ due \in Times
        BY TimesReached, DueTyped DEF BillingInv
    <2>2. row' = [row EXCEPT !.status = "TRIALING", !.trialEnd = end, !.due = due] /\ row.status = "NONE"
        BY <1>2 DEF EnsureTrial
    <2> HIDE DEF end, due
    <2> QED BY <1>1, <2>1, <2>2 DEF Rows, Statuses
<1>3. CASE BackfillGrandfathered
    BY <1>1, <1>3 DEF BackfillGrandfathered, prepare, stored_grandfathered_item, Rows, Statuses
<1> QED BY <1>2, <1>3

LEMMA FirstRowSafe ==
    ASSUME BillingInv, EnsureTrial \/ BackfillGrandfathered
    PROVE  BillingInv'
<1>1. UNCHANGED <<now, remote, event, record, call, shown>>
    BY DEF EnsureTrial, BackfillGrandfathered
<1>2. World /\ EventsKnown'
    BY <1>1, FirstRow, RemoteSame, EventsSame, EventsKnownStays DEF World, RowMoves
<1>3. RowKnown'
    BY <1>1, FirstRow DEF BillingInv, RowKnown, Sold, Created
<1>4. CallsKnown'
    BY <1>1, <1>2, RemoteSame, CallsStay
<1>5. TypeOK'
    BY <1>1, FirstRow DEF BillingInv, TypeOK
<1>6. ProcessedWasApplied'
    BY <1>1 DEF BillingInv, ProcessedWasApplied
<1> QED BY <1>2, <1>3, <1>4, <1>5, <1>6 DEF BillingInv

\* The event that the provider sends, and what becomes of the subscription.
Sending(s, has) ==
    [sub |-> s, target |-> has.target, time |-> now,
     periodEnd |-> IF has.current_end THEN now + CycleLength ELSE 0,
     cancels |-> IF ~has.cancel_at_cycle_end THEN "absent"
                 ELSE IF remote[s].cancelling THEN "yes" ELSE "no"]

Becoming(s, target) ==
    [remote[s] EXCEPT !.state = IF target = "ACTIVE" THEN "live"
                                ELSE IF target = "CANCELLED" THEN "ended" ELSE @]

LEMMA SendFacts ==
    ASSUME BillingInv, NEW s \in 1..Len(remote), NEW has \in Payloads, Send(s, has)
    PROVE  /\ ~Created(s)
           /\ remote' = [remote EXCEPT ![s] = Becoming(s, has.target)] /\ Becoming(s, has.target) \in Remotes
           /\ Becoming(s, has.target).state \in {"live", "ended"}
           /\ Becoming(s, has.target).cancelling = remote[s].cancelling
           /\ event' = Append(event, Sending(s, has)) /\ Sending(s, has) \in Events
<1> DEFINE target == has.target
<1>1. remote[s] \in Remotes /\ remote \in Seq(Remotes) /\ target \in Targets
    BY TypeFacts, PayloadsAssumption DEF BillingInv, Sold
<1>2. /\ target = "ACTIVE" => remote[s].state \in {"offered", "live"}
      /\ target \in {"PAST_DUE", "CANCELLED"} => remote[s].state = "live"
    BY <1>1 DEF Send, Targets
<1>3. ~Created(s)
    BY <1>1, <1>2 DEF Created, Targets
<1>4. remote' = [remote EXCEPT ![s] = Becoming(s, has.target)]
    BY <1>1 DEF Send, Becoming, Remotes
<1>5. Becoming(s, has.target) \in Remotes /\ Becoming(s, has.target).state \in {"live", "ended"}
      /\ Becoming(s, has.target).cancelling = remote[s].cancelling
    BY <1>1, <1>2 DEF Becoming, Remotes, Targets
<1>6. s \in Subs
    BY BoundsAssumption, TypeFacts DEF BillingInv, TypeOK, Subs
<1>7. Sending(s, has) \in Events
    <2> DEFINE end == IF has.current_end THEN now + CycleLength ELSE 0
               cancels == IF ~has.cancel_at_cycle_end THEN "absent"
                          ELSE IF remote[s].cancelling THEN "yes" ELSE "no"
    <2>1. end \in Times /\ now \in Times /\ cancels \in {"absent", "no", "yes"}
        BY <1>1, TimesReached DEF BillingInv, Remotes
    <2>2. Sending(s, has) = [sub |-> s, target |-> target, time |-> now, periodEnd |-> end, cancels |-> cancels]
        BY DEF Sending
    <2> HIDE DEF end, cancels
    <2> QED BY <1>1, <1>6, <2>1, <2>2 DEF Events
<1>8. event' = Append(event, Sending(s, has))
    BY DEF Send, Sending
<1> QED BY <1>3, <1>4, <1>5, <1>7, <1>8

LEMMA SendSafe ==
    ASSUME BillingInv, NEW s \in 1..Len(remote), NEW has \in Payloads, Send(s, has)
    PROVE  BillingInv'
<1> DEFINE sent == Sending(s, has)
           after == Becoming(s, has.target)
<1>1. /\ ~Created(s)
      /\ remote' = [remote EXCEPT ![s] = after] /\ after \in Remotes
      /\ after.state \in {"live", "ended"} /\ after.cancelling = remote[s].cancelling
      /\ event' = Append(event, sent) /\ sent \in Events
    BY SendFacts
<1>2. sent.sub = s /\ (sent.cancels = "yes" => remote[s].cancelling)
    BY DEF Sending
<1>3. UNCHANGED <<now, row, call, shown>> /\ record' = Append(record, "NONE") /\ Len(event) < MaxEvents
    BY DEF Send
<1> HIDE DEF sent, after
<1>4. /\ remote \in Seq(Remotes) /\ event \in Seq(Events) /\ record \in Seq(RecordStatuses)
      /\ Len(record) = Len(event) /\ Len(event) \in Nat /\ Len(remote) \in Nat
      /\ shown \subseteq Sent
    BY TypeFacts DEF BillingInv, TypeOK, Sent
<1>5. /\ remote' \in Seq(Remotes) /\ Len(remote') = Len(remote)
      /\ \A t \in Sold : remote'[t] = IF t = s THEN after ELSE remote[t]
    BY <1>1, <1>4, ExceptSeq DEF Sold
<1>6. /\ event' \in Seq(Events) /\ Len(event') = Len(event) + 1
      /\ \A i \in Sent : event'[i] = event[i]
      /\ event'[Len(event) + 1] = sent
    BY <1>1, <1>4, AppendProperties DEF Sent
<1>7. /\ record' \in Seq(RecordStatuses) /\ Len(record') = Len(record) + 1
      /\ \A i \in Sent : record'[i] = record[i]
      /\ record'[Len(record) + 1] = "NONE"
    <2>1. "NONE" \in RecordStatuses
        BY DEF RecordStatuses
    <2> QED BY <1>3, <1>4, <2>1, AppendProperties DEF Sent
<1>8. EventsStay
    BY <1>3, <1>4, <1>6 DEF EventsStay
<1>9. RemoteStays
    BY <1>1, <1>4, <1>5 DEF RemoteStays, Created, Paid
<1>10. World
    BY <1>3, <1>8, <1>9, RowSame DEF World
<1>11. RowKnown'
    BY <1>3, <1>9, RowKnownStays
<1>12. EventsKnown'
    <2>1. ASSUME NEW i \in Sent PROVE
              /\ event'[i].sub \in Sold' /\ remote'[event'[i].sub].state \in {"live", "ended"}
              /\ event'[i].cancels = "yes" => remote'[event'[i].sub].cancelling
        BY <1>4, <1>5, <1>6, <1>9 DEF BillingInv, EventsKnown, RemoteStays, Sold, Paid
    <2>2. /\ sent.sub \in Sold' /\ remote'[sent.sub].state \in {"live", "ended"}
          /\ sent.cancels = "yes" => remote'[sent.sub].cancelling
        BY <1>1, <1>2, <1>5 DEF Sold, Paid
    <2>3. \A i \in Sent' : i \in Sent \/ i = Len(event) + 1
        BY <1>4, <1>6 DEF Sent
    <2> QED BY <1>6, <2>1, <2>2, <2>3 DEF EventsKnown, Paid
<1>13. ASSUME NEW d \in Calls, call[d].op = "reference"
       PROVE  remote'[call[d].sub].state = "created"
    <2>1. call[d].sub \in Sold /\ Created(call[d].sub)
        BY <1>13 DEF BillingInv, CallsKnown, Known
    <2> QED BY <1>1, <1>5, <2>1 DEF Created
<1>14. CallsKnown'
    BY <1>3, <1>10, <1>13, CallsStay
<1>15. TypeOK'
    BY <1>3, <1>4, <1>5, <1>6, <1>7, BoundsAssumption DEF BillingInv, TypeOK
<1>16. ProcessedWasApplied'
    <2>1. \A i \in Sent' : i \in Sent \/ i = Len(event) + 1
        BY <1>4, <1>6 DEF Sent
    <2> QED BY <1>3, <1>4, <1>7, <2>1 DEF BillingInv, ProcessedWasApplied, Sent
<1> QED BY <1>11, <1>12, <1>14, <1>15, <1>16 DEF BillingInv

\* An action that writes neither the row nor the provider's subscriptions.
LEMMA QuietWorld ==
    ASSUME BillingInv, UNCHANGED <<now, row, remote, event>>, shown \subseteq shown'
    PROVE  /\ World /\ EventsKnown' /\ RowKnown'
           /\ \A c \in Calls : OthersKeep(c)
BY RemoteSame, EventsSame, RowSame, EventsKnownStays, RowKnownStays DEF World

LEMMA BeginEventSafe ==
    ASSUME BillingInv, NEW c \in Calls, NEW e \in 1..Len(event), BeginEvent(c, e)
    PROVE  BillingInv'
<1>1. UNCHANGED <<now, row, remote, event, shown>> /\ record' = [record EXCEPT ![e] = "RECEIVED"]
    BY DEF BeginEvent
<1>2. PICK resume \in {FALSE, record[e] = "RECEIVED"} :
          Begin(c, [Idle EXCEPT !.op = "received", !.event = e, !.resume = resume])
    BY DEF BeginEvent
<1> DEFINE m == [Idle EXCEPT !.op = "received", !.event = e, !.resume = resume]
<1>3. call' = [call EXCEPT ![c] = m]
    BY <1>2 DEF Begin
<1>4. e \in 0..MaxEvents
    BY BoundsAssumption, TypeFacts DEF BillingInv, TypeOK
<1>5. resume \in BOOLEAN
    OBVIOUS
<1>6. m \in Memories /\ m.op = "received" /\ m.event = e
    <2>1. m \in Memories
        BY <1>4, <1>5, IdleTyped DEF Memories
    <2>2. m.op = "received" /\ m.event = e
        BY DEF Idle
    <2> QED BY <2>1, <2>2
<1> HIDE DEF m
<1>7. StillKnown(m)
    BY <1>1, <1>6 DEF StillKnown
<1>8. World /\ EventsKnown' /\ RowKnown' /\ OthersKeep(c)
    BY <1>1, QuietWorld
<1>9. CallsKnown' /\ call' \in [Calls -> Memories]
    BY <1>3, <1>6, <1>7, <1>8, CallWrites
<1>10. /\ record' \in Seq(RecordStatuses) /\ Len(record') = Len(record)
       /\ \A i \in Sent : record'[i] = IF i = e THEN "RECEIVED" ELSE record[i]
    <2>1. "RECEIVED" \in RecordStatuses
        BY DEF RecordStatuses
    <2> QED BY <1>1, <2>1, TypeFacts, ExceptSeq DEF BillingInv, Sent
<1>11. TypeOK'
    BY <1>1, <1>9, <1>10 DEF BillingInv, TypeOK
<1>12. ProcessedWasApplied'
    BY <1>1, <1>10 DEF BillingInv, ProcessedWasApplied, Sent
<1> QED BY <1>8, <1>9, <1>11, <1>12 DEF BillingInv

\* What a webhook has read when it decides to write the row.
LEMMA DecidedToSave ==
    ASSUME BillingInv, NEW e \in Events, ~Ignored(row, e)
    PROVE  /\ row.sub = e.sub
           /\ row.status = e.target \/ MayBecome(row.status, e.target)
           /\ row.pending \in {0, row.sub}
           /\ row.status = "EXPIRED" => e.time > row.boundary \/ e.periodEnd > row.boundary
<1>1. row.sub = e.sub /\ ~Stale(row, e) /\ (row.status = e.target \/ MayBecome(row.status, e.target))
    BY DEF Ignored
<1>2. row.status = "EXPIRED" => e.target = "ACTIVE"
    BY <1>1 DEF MayBecome, Events, Targets
<1>3. e.time \in Int /\ row.boundary \in Int
    BY TypeFacts, TimesReached DEF BillingInv, Events, Rows
<1>4. row.status = "EXPIRED" => e.time > row.boundary \/ e.periodEnd > row.boundary
    BY <1>1, <1>2, <1>3 DEF Stale
<1> QED BY <1>1, <1>4 DEF BillingInv, RowKnown

LEMMA ReadToApplySafe ==
    ASSUME BillingInv, NEW c \in Calls, ReadToApply(c)
    PROVE  BillingInv'
<1> DEFINE i == call[c].event
           e == event[i]
           unchanged == row.status = e.target /\ call[c].resume
           op == IF Ignored(row, e) THEN "ignored" ELSE IF unchanged THEN "processed" ELSE "save"
           seen == IF Ignored(row, e) \/ unchanged THEN Nothing ELSE Look(row)
           m == [call[c] EXCEPT !.resume = FALSE, !.op = op, !.seen = seen]
<1>1. UNCHANGED <<now, row, remote, event, record>> /\ Show(i) /\ call[c].op = "received"
    BY DEF ReadToApply
<1>2. call' = [call EXCEPT ![c] = m]
    BY DEF ReadToApply
<1>3. call[c] \in Memories /\ row \in Rows
    BY TypeFacts DEF BillingInv
<1>4. i \in Sent /\ e \in Events
    <2>1. i \in Sent
        BY <1>1 DEF BillingInv, CallsKnown, Known
    <2> QED BY <2>1, TypeFacts DEF BillingInv
<1>5. shown \subseteq shown' /\ shown' \subseteq Sent /\ (row.status = e.target => i \in shown')
    BY <1>1, <1>4 DEF Show, BillingInv, TypeOK, Sent
<1>6. World /\ EventsKnown' /\ RowKnown' /\ OthersKeep(c)
    BY <1>1, <1>5, QuietWorld
<1>7. seen \in Seen
    BY <1>3, NothingTyped DEF Memories
<1>8. op \in {"ignored", "processed", "save"}
    OBVIOUS
<1>9. m \in Memories /\ m.op = op /\ m.event = i /\ m.seen = seen
    <2> HIDE DEF op, seen
    <2> QED BY <1>3, <1>7, <1>8 DEF Memories
<1>10. op = "save" => seen = Look(row) /\ ~Ignored(row, e)
    OBVIOUS
<1>11. op = "processed" => i \in shown'
    BY <1>5
<1> HIDE DEF m, op, seen
<1>12. StillKnown(m)
    <2>1. i \in 1..Len(event') /\ event'[i] = e /\ row' = row
        BY <1>1, <1>4 DEF Sent
    <2>2. CASE op = "save"
        <3>1. m.seen = Look(row) /\ m.seen.status = row.status /\ m.seen.sub = row.sub
              /\ m.seen.pending = row.pending
            BY <1>9, <1>10, <2>2 DEF Look
        <3>2. /\ row.sub = e.sub
              /\ row.status = e.target \/ MayBecome(row.status, e.target)
              /\ row.pending \in {0, row.sub}
              /\ row.status = "EXPIRED" => e.time > row.boundary \/ e.periodEnd > row.boundary
            BY <1>4, <1>10, <2>2, DecidedToSave
        <3> HIDE DEF e
        <3> QED BY <1>9, <2>1, <2>2, <3>1, <3>2 DEF StillKnown
    <2>3. CASE op # "save"
        BY <1>8, <1>9, <1>11, <2>1, <2>3 DEF StillKnown
    <2> QED BY <2>2, <2>3
<1>13. CallsKnown' /\ call' \in [Calls -> Memories]
    BY <1>2, <1>6, <1>8, <1>9, <1>12, CallWrites
<1>14. TypeOK'
    BY <1>1, <1>5, <1>13 DEF BillingInv, TypeOK, Sent
<1>15. ProcessedWasApplied'
    BY <1>1, <1>5 DEF BillingInv, ProcessedWasApplied
<1> QED BY <1>6, <1>13, <1>14, <1>15 DEF BillingInv

LEMMA FinishEventSafe ==
    ASSUME BillingInv, NEW c \in Calls, FinishEvent(c)
    PROVE  BillingInv'
<1> DEFINE e == call[c].event
           status == IF call[c].op = "processed" THEN "PROCESSED" ELSE "IGNORED"
<1>1. UNCHANGED <<now, row, remote, event, shown>> /\ End(c) /\ call[c].op \in {"processed", "ignored"}
      /\ record' = IF record[e] # "RECEIVED" THEN record ELSE [record EXCEPT ![e] = status]
    BY DEF FinishEvent
<1>2. e \in Sent /\ (status = "PROCESSED" => e \in shown)
    BY <1>1 DEF BillingInv, CallsKnown, Known
<1>3. World /\ EventsKnown' /\ RowKnown' /\ OthersKeep(c)
    BY <1>1, QuietWorld
<1>4. CallsKnown' /\ call' \in [Calls -> Memories]
    BY <1>1, <1>3, CallEnds
<1>5. status \in RecordStatuses
    BY DEF RecordStatuses
<1> HIDE DEF status
<1>6. /\ record' \in Seq(RecordStatuses) /\ Len(record') = Len(record)
      /\ \A i \in Sent : record'[i] = record[i] \/ (i = e /\ record'[i] = status)
    BY <1>1, <1>2, <1>5, TypeFacts, ExceptSeq DEF BillingInv, Sent
<1>7. TypeOK'
    BY <1>1, <1>4, <1>6 DEF BillingInv, TypeOK
<1>8. ProcessedWasApplied'
    BY <1>1, <1>2, <1>6 DEF BillingInv, ProcessedWasApplied, Sent
<1> QED BY <1>3, <1>4, <1>7, <1>8 DEF BillingInv

LEMMA CrashSafe ==
    ASSUME BillingInv, NEW c \in Calls, Crash(c)
    PROVE  BillingInv'
<1>1. UNCHANGED <<now, row, remote, event, record, shown>> /\ End(c)
    BY DEF Crash
<1>2. World /\ EventsKnown' /\ RowKnown' /\ OthersKeep(c)
    BY <1>1, QuietWorld
<1>3. CallsKnown' /\ call' \in [Calls -> Memories]
    BY <1>1, <1>2, CallEnds
<1>4. TypeOK'
    BY <1>1, <1>3 DEF BillingInv, TypeOK
<1>5. ProcessedWasApplied'
    BY <1>1 DEF BillingInv, ProcessedWasApplied
<1> QED BY <1>2, <1>3, <1>4, <1>5 DEF BillingInv

\* An action that writes the row, and neither the provider's subscriptions nor
\* the events.
LEMMA RowWorld ==
    ASSUME BillingInv, UNCHANGED <<remote, event>>, shown \subseteq shown', RowMoves
    PROVE  /\ World /\ EventsKnown'
           /\ \A d \in Calls : call[d].op = "reference" => remote'[call[d].sub].state = "created"
           /\ \A c \in Calls : OthersKeep(c)
BY RemoteSame, EventsSame, EventsKnownStays DEF World

\* The webhook's write, when the row still has the status and the subscription
\* that were read: it lets the row be what the rest of the proof needs.
LEMMA SavedRow ==
    ASSUME BillingInv, NEW c \in Calls, call[c].op = "save", Expected(call[c].seen), remote' = remote,
           row' = Transition(row, call[c].seen, event[call[c].event])
    PROVE  /\ row' \in Rows /\ (row'.due # 0 => row'.status \in {"TRIALING", "ACTIVE"})
           /\ row'.status = event[call[c].event].target
           /\ RowMoves /\ RowKnown'
<1> DEFINE i == call[c].event
           e == event[i]
           seen == call[c].seen
<1>1. i \in Sent /\ SaveKnown(call[c])
    BY DEF BillingInv, CallsKnown, Known
<1>2. seen \in Seen /\ row \in Rows /\ e \in Events
    BY <1>1, TypeFacts DEF BillingInv, Memories
<1>3. /\ row' \in Rows /\ row'.status = e.target /\ row'.sub = row.sub
      /\ row'.periodEnd = IF e.periodEnd # 0 THEN e.periodEnd ELSE row.periodEnd
      /\ row'.flag = IF e.cancels # "absent" \/ Activates(seen, e)
                     THEN FlagAfter(seen, e) ELSE row.flag
      /\ row'.plan = IF Promotes(seen, e) THEN seen.pending ELSE row.plan
      /\ row'.pending = IF Promotes(seen, e) THEN 0 ELSE row.pending
      /\ row'.due # 0 => row'.status \in {"TRIALING", "ACTIVE"}
    BY <1>2, TransitionFields
<1>4. /\ e.sub \in Sold /\ Paid(e.sub) /\ ~Created(e.sub) /\ e.sub # 0
      /\ e.cancels = "yes" => remote[e.sub].cancelling
    BY <1>1 DEF BillingInv, EventsKnown, Paid, Created, Sold
<1>5. /\ seen.sub = e.sub /\ row.sub = e.sub /\ row.status = seen.status
      /\ seen.status = e.target \/ MayBecome(seen.status, e.target)
      /\ seen.pending \in {0, row.sub} /\ row.pending \in {0, seen.pending}
    BY <1>1 DEF SaveKnown, Expected
<1>6. e.target \in {"ACTIVE", "PAST_DUE", "CANCELLED"}
    BY <1>2 DEF Events, Targets
<1>7. RowKnown
    BY DEF BillingInv
<1> HIDE DEF i, e, seen
<1>8. RowMoves
    BY <1>3, <1>6 DEF RowMoves
<1>9. row'.pending \in {0, row'.sub} /\ (row'.pending = 0 => row'.plan = row'.sub)
    BY <1>3, <1>5, <1>7 DEF RowKnown, Promotes, Activates
<1>10. e.target \in {"ACTIVE", "PAST_DUE"} => row'.plan = row'.sub
    <2>1. CASE Promotes(seen, e)
        BY <1>3, <1>5, <2>1 DEF Promotes
    <2>2. CASE e.target = "ACTIVE" /\ ~Promotes(seen, e)
        BY <1>3, <1>5, <1>7, <2>2 DEF Promotes, Activates, RowKnown
    <2>3. CASE e.target = "PAST_DUE" /\ ~Promotes(seen, e)
        BY <1>3, <1>5, <1>7, <2>3 DEF MayBecome, RowKnown
    <2> QED BY <2>1, <2>2, <2>3
<1>11. e.target = "ACTIVE" /\ row'.flag => remote'[row'.sub].cancelling
    <2>1. CASE e.cancels = "yes"
        BY <1>3, <1>4, <1>5, <2>1
    <2>2. CASE e.cancels # "yes"
        BY <1>3, <1>4, <1>5, <1>7, <2>2 DEF FlagAfter, Activates, RowKnown
    <2> QED BY <2>1, <2>2
<1>12. row'.sub \in Sold' /\ ~Created(row.sub)' /\ row'.sub # 0
    <2>1. row'.sub \in Sold /\ remote[row'.sub].state # "created" /\ row'.sub # 0
        BY <1>3, <1>4, <1>5 DEF Created
    <2> QED BY <2>1 DEF Sold, Created
<1>13. RowKnown'
    BY <1>3, <1>4, <1>6, <1>9, <1>10, <1>11, <1>12 DEF RowKnown, Created
<1> QED BY <1>3, <1>8, <1>13 DEF e, i

LEMMA SaveTransitionSafe ==
    ASSUME BillingInv, NEW c \in Calls, SaveTransition(c)
    PROVE  BillingInv'
<1> DEFINE i == call[c].event
           e == event[i]
           seen == call[c].seen
           done == [call[c] EXCEPT !.op = "processed", !.seen = Nothing]
<1>1. UNCHANGED <<now, remote, event, record>> /\ Show(i) /\ call[c].op = "save"
      /\ row' = IF Expected(seen) THEN Transition(row, seen, e) ELSE row
    BY DEF SaveTransition
<1>2. IF Expected(seen) \/ row.status = e.target THEN call' = [call EXCEPT ![c] = done] ELSE End(c)
    BY DEF SaveTransition
<1>3. i \in Sent /\ call[c] \in Memories
    BY <1>1, TypeFacts DEF BillingInv, CallsKnown, Known
<1>4. /\ row' \in Rows /\ (row'.due # 0 => row'.status \in {"TRIALING", "ACTIVE"})
      /\ RowMoves /\ RowKnown'
      /\ Expected(seen) \/ row.status = e.target => row'.status = e.target
    <2>1. CASE Expected(seen)
        BY <1>1, <2>1, SavedRow
    <2>2. CASE ~Expected(seen)
        BY <1>1, <2>2, RowSame, RemoteSame, RowKnownStays DEF BillingInv, TypeOK
    <2> QED BY <2>1, <2>2
<1>5. shown \subseteq shown' /\ shown' \subseteq Sent /\ (row'.status = e.target => i \in shown')
    BY <1>1, <1>3 DEF Show, BillingInv, TypeOK, Sent
<1>6. World /\ EventsKnown' /\ OthersKeep(c)
    BY <1>1, <1>4, <1>5, RowWorld
<1>7. done \in Memories /\ done.op = "processed" /\ done.event = i
    BY <1>3, NothingTyped DEF Memories
<1> HIDE DEF done
<1>8. CallsKnown' /\ call' \in [Calls -> Memories]
    <2>1. CASE Expected(seen) \/ row.status = e.target
        <3>1. StillKnown(done)
            BY <1>1, <1>3, <1>4, <1>5, <1>7, <2>1 DEF StillKnown, Sent
        <3>2. call' = [call EXCEPT ![c] = done]
            BY <1>2, <2>1
        <3> QED BY <1>6, <1>7, <3>1, <3>2, CallWrites
    <2>2. CASE ~(Expected(seen) \/ row.status = e.target)
        BY <1>2, <1>6, <2>2, CallEnds
    <2> QED BY <2>1, <2>2
<1>9. TypeOK'
    BY <1>1, <1>4, <1>5, <1>8 DEF BillingInv, TypeOK, Sent
<1>10. ProcessedWasApplied'
    BY <1>1, <1>5 DEF BillingInv, ProcessedWasApplied
<1> QED BY <1>4, <1>6, <1>8, <1>9, <1>10 DEF BillingInv

\* The status a checkout has seen, and the subscription it may replace.
CheckoutSeen ==
    [Nothing EXCEPT !.status = row.status, !.sub = IF row.status = "CANCELLED" THEN 0 ELSE row.sub]

LEMMA ReadToCheckoutSafe ==
    ASSUME BillingInv, NEW c \in Calls, ReadToCheckout(c)
    PROVE  BillingInv'
<1> DEFINE s == Len(remote) + 1
           m == [Idle EXCEPT !.op = "reference", !.sub = s, !.seen = CheckoutSeen]
<1>1. UNCHANGED <<now, row, event, record, shown>> /\ row.status \in CheckoutStatuses
      /\ Len(remote) < MaxSubs /\ remote' = Append(remote, NewSubscription)
    BY DEF ReadToCheckout
<1>2. call' = [call EXCEPT ![c] = m]
    BY DEF ReadToCheckout, Begin, CheckoutSeen
<1>3. row \in Rows /\ remote \in Seq(Remotes) /\ Len(remote) \in Nat
    BY TypeFacts DEF BillingInv
<1>4. CheckoutSeen \in Seen /\ CheckoutSeen.status = row.status
    <2> DEFINE sub == IF row.status = "CANCELLED" THEN 0 ELSE row.sub
    <2>1. row.status \in Statuses /\ sub \in Subs
        BY <1>3, BoundsAssumption DEF Rows, Subs
    <2>2. CheckoutSeen = [Nothing EXCEPT !.status = row.status, !.sub = sub]
        BY DEF CheckoutSeen
    <2> HIDE DEF sub
    <2> QED BY <2>1, <2>2, NothingTyped DEF Seen
<1>5. s \in Subs
    BY <1>1, <1>3, BoundsAssumption DEF Subs
<1>6. m \in Memories /\ m.op = "reference" /\ m.sub = s /\ m.seen = CheckoutSeen
    <2>1. m \in Memories
        BY <1>4, <1>5, IdleTyped DEF Memories
    <2>2. m.op = "reference" /\ m.sub = s /\ m.seen = CheckoutSeen
        BY DEF Idle
    <2> QED BY <2>1, <2>2
<1>7. NewSubscription \in Remotes /\ NewSubscription.state = "created"
    BY DEF NewSubscription, Remotes
<1>8. /\ remote' \in Seq(Remotes) /\ Len(remote') = s
      /\ \A t \in Sold : remote'[t] = remote[t]
      /\ remote'[s] = NewSubscription
    BY <1>1, <1>3, <1>7, AppendProperties DEF Sold
<1> HIDE DEF m
<1>9. RemoteStays
    BY <1>3, <1>8 DEF RemoteStays, Created, Paid
<1>10. World /\ EventsKnown' /\ RowKnown'
    BY <1>1, <1>9, EventsSame, RowSame, EventsKnownStays, RowKnownStays DEF World
<1>11. ASSUME NEW d \in Calls, call[d].op = "reference"
       PROVE  call[d].sub # s /\ remote'[call[d].sub].state = "created"
    <2>1. call[d].sub \in Sold /\ Created(call[d].sub)
        BY <1>11 DEF BillingInv, CallsKnown, Known
    <2> QED BY <1>3, <1>8, <2>1 DEF Created, Sold
<1>12. OthersKeep(c)
    BY <1>11 DEF OthersKeep
<1>13. StillKnown(m)
    BY <1>1, <1>3, <1>4, <1>6, <1>7, <1>8 DEF StillKnown
<1>14. CallsKnown' /\ call' \in [Calls -> Memories]
    BY <1>2, <1>6, <1>10, <1>11, <1>12, <1>13, CallWrites
<1>15. TypeOK'
    BY <1>1, <1>3, <1>8, <1>14, BoundsAssumption DEF BillingInv, TypeOK
<1>16. ProcessedWasApplied'
    BY <1>1 DEF BillingInv, ProcessedWasApplied
<1> QED BY <1>10, <1>14, <1>15, <1>16 DEF BillingInv

LEMMA SaveReferenceSafe ==
    ASSUME BillingInv, NEW c \in Calls, SaveReference(c)
    PROVE  BillingInv'
<1> DEFINE s == call[c].sub
           offer == [remote[s] EXCEPT !.state = "offered"]
           boundary == IF row.status = "EXPIRED" THEN now ELSE row.boundary
<1>1. UNCHANGED <<now, event, record, shown>> /\ End(c) /\ call[c].op = "reference"
    BY DEF SaveReference
<1>2. /\ row \in Rows /\ remote \in Seq(Remotes) /\ Len(remote) \in Nat /\ call[c] \in Memories
      /\ s \in Sold /\ Created(s) /\ s \in Subs /\ remote[s] \in Remotes
      /\ call[c].seen.status \in CheckoutStatuses
    BY <1>1, TypeFacts DEF BillingInv, CallsKnown, Known, Memories
<1>3. CASE ReferenceFree(call[c].seen)
    <2>1. /\ row' = [row EXCEPT !.sub = s, !.pending = s, !.boundary = boundary]
          /\ remote' = [remote EXCEPT ![s] = offer]
        BY <1>2, <1>3 DEF SaveReference
    <2>2. offer \in Remotes /\ offer.state = "offered" /\ offer.cancelling = remote[s].cancelling
        BY <1>2 DEF Remotes
    <2>3. boundary \in Times
        BY <1>2, TimesReached DEF BillingInv, Rows
    <2>4. row.status \in CheckoutStatuses
        BY <1>2, <1>3 DEF ReferenceFree
    <2> HIDE DEF offer, boundary
    <2>5. /\ row' \in Rows /\ row'.status = row.status /\ row'.sub = s /\ row'.pending = s
          /\ row'.due = row.due
        BY <1>2, <2>1, <2>3 DEF Rows
    <2>6. /\ remote' \in Seq(Remotes) /\ Len(remote') = Len(remote)
          /\ \A t \in Sold : remote'[t] = IF t = s THEN offer ELSE remote[t]
        BY <1>2, <2>1, <2>2, ExceptSeq DEF Sold
    <2>7. RemoteStays
        BY <1>2, <2>2, <2>6 DEF RemoteStays, Created, Paid
    <2>8. RowMoves
        <3>1. row.sub # s
            BY <1>2 DEF BillingInv, RowKnown, Sold
        <3> QED BY <1>2, <2>5, <3>1 DEF RowMoves
    <2>9. World /\ EventsKnown'
        BY <1>1, <2>7, <2>8, EventsSame, EventsKnownStays DEF World
    <2>10. RowKnown'
        BY <1>2, <2>2, <2>4, <2>5, <2>6 DEF RowKnown, CheckoutStatuses, Sold, Created
    <2>11. OthersKeep(c)
        <3>1. ASSUME NEW d \in Calls \ {c}, call[d].op = "reference"
              PROVE  call[d].sub # s /\ call[d].sub \in Sold /\ Created(call[d].sub)
            BY <1>1, <3>1 DEF BillingInv, CallsKnown, Known
        <3> QED BY <2>6, <3>1 DEF OthersKeep, Created
    <2>12. CallsKnown' /\ call' \in [Calls -> Memories]
        BY <1>1, <2>9, <2>11, CallEnds
    <2>13. TypeOK'
        BY <1>1, <2>5, <2>6, <2>12 DEF BillingInv, TypeOK
    <2>14. ProcessedWasApplied'
        BY <1>1 DEF BillingInv, ProcessedWasApplied
    <2> QED BY <2>9, <2>10, <2>12, <2>13, <2>14 DEF BillingInv
<1>4. CASE ~ReferenceFree(call[c].seen)
    <2>1. UNCHANGED <<row, remote>>
        BY <1>4 DEF SaveReference
    <2>2. World /\ EventsKnown' /\ RowKnown' /\ OthersKeep(c)
        BY <1>1, <2>1, QuietWorld
    <2>3. CallsKnown' /\ call' \in [Calls -> Memories]
        BY <1>1, <2>2, CallEnds
    <2>4. TypeOK'
        BY <1>1, <2>1, <2>3 DEF BillingInv, TypeOK
    <2>5. ProcessedWasApplied'
        BY <1>1 DEF BillingInv, ProcessedWasApplied
    <2> QED BY <2>2, <2>3, <2>4, <2>5 DEF BillingInv
<1> QED BY <1>3, <1>4

LEMMA ReadToCancelSafe ==
    ASSUME BillingInv, NEW c \in Calls, ReadToCancel(c)
    PROVE  BillingInv'
<1> DEFINE s == row.sub
           after == [remote[s] EXCEPT !.cancelling = TRUE]
           m == [Idle EXCEPT !.op = "mark", !.seen = Look(row)]
<1>1. UNCHANGED <<now, row, event, record, shown>> /\ row.status = "ACTIVE" /\ row.sub # 0
      /\ remote' = [remote EXCEPT ![s].cancelling = TRUE]
    BY DEF ReadToCancel, CancelAtCycleEnd
<1>2. call' = [call EXCEPT ![c] = m]
    BY DEF ReadToCancel, Begin
<1>3. /\ row \in Rows /\ remote \in Seq(Remotes) /\ Len(remote) \in Nat
      /\ s \in Sold
    BY <1>1, TypeFacts DEF BillingInv, RowKnown
<1>4. remote[s] \in Remotes
    BY <1>3, TypeFacts DEF BillingInv
<1>5. remote' = [remote EXCEPT ![s] = after]
    BY <1>1, <1>3, <1>4 DEF Remotes
<1>6. after \in Remotes /\ after.state = remote[s].state /\ after.cancelling
    BY <1>4 DEF Remotes
<1>7. m \in Memories /\ m.op = "mark" /\ m.seen = Look(row)
    <2>1. m \in Memories
        BY <1>3, IdleTyped, NothingTyped DEF Memories
    <2>2. m.op = "mark" /\ m.seen = Look(row)
        BY DEF Idle
    <2> QED BY <2>1, <2>2
<1>8. Look(row).status = "ACTIVE" /\ Look(row).sub = s
    BY <1>1, <1>3 DEF Look
<1> HIDE DEF m, after
<1>9. /\ remote' \in Seq(Remotes) /\ Len(remote') = Len(remote)
      /\ \A t \in Sold : remote'[t] = IF t = s THEN after ELSE remote[t]
    BY <1>3, <1>5, <1>6, ExceptSeq DEF Sold
<1>10. RemoteStays
    BY <1>3, <1>6, <1>9 DEF RemoteStays, Created, Paid
<1>11. World /\ EventsKnown' /\ RowKnown'
    BY <1>1, <1>10, EventsSame, RowSame, EventsKnownStays, RowKnownStays DEF World
<1>12. OthersKeep(c)
    <2>1. \A d \in Calls : call[d].op = "reference" => call[d].sub \in Sold /\ Created(call[d].sub)
        BY DEF BillingInv, CallsKnown, Known
    <2> QED BY <1>6, <1>9, <2>1 DEF OthersKeep, Created
<1>13. StillKnown(m)
    BY <1>3, <1>6, <1>7, <1>8, <1>9 DEF StillKnown, Sold
<1>14. CallsKnown' /\ call' \in [Calls -> Memories]
    BY <1>2, <1>7, <1>11, <1>12, <1>13, CallWrites
<1>15. TypeOK'
    BY <1>1, <1>9, <1>14 DEF BillingInv, TypeOK
<1>16. ProcessedWasApplied'
    BY <1>1 DEF BillingInv, ProcessedWasApplied
<1> QED BY <1>11, <1>14, <1>15, <1>16 DEF BillingInv

LEMMA MarkPeriodEndSafe ==
    ASSUME BillingInv, NEW c \in Calls, MarkPeriodEnd(c)
    PROVE  BillingInv'
<1> DEFINE seen == call[c].seen
           due == lifecycle_due("ACTIVE", 0, TRUE, seen.periodEnd)
<1>1. UNCHANGED <<now, remote, event, record, shown>> /\ End(c) /\ call[c].op = "mark"
      /\ row' = IF Expected(seen) /\ ~row.flag THEN [row EXCEPT !.flag = TRUE, !.due = due] ELSE row
    BY DEF MarkPeriodEnd
<1>2. /\ row \in Rows /\ seen \in Seen /\ seen.status = "ACTIVE"
      /\ remote[seen.sub].cancelling
    BY <1>1, TypeFacts DEF BillingInv, CallsKnown, Known, Memories
<1>3. due \in Times
    BY <1>2, TimesReached, DueTyped DEF BillingInv, Seen
<1> HIDE DEF due
<1>4. CASE Expected(seen) /\ ~row.flag
    <2>1. /\ row' \in Rows /\ row'.status = row.status /\ row.status = "ACTIVE" /\ row'.sub = row.sub
          /\ row'.pending = row.pending /\ row'.plan = row.plan /\ row'.periodEnd = row.periodEnd
        BY <1>1, <1>2, <1>3, <1>4 DEF Expected, Rows
    <2>2. RowMoves
        BY <2>1 DEF RowMoves
    <2>3. RowKnown'
        BY <1>1, <1>2, <1>4, <2>1 DEF BillingInv, RowKnown, Expected, Sold, Created
    <2>4. World /\ EventsKnown' /\ OthersKeep(c)
        BY <1>1, <2>2, RowWorld
    <2>5. CallsKnown' /\ call' \in [Calls -> Memories]
        BY <1>1, <2>4, CallEnds
    <2>6. TypeOK'
        BY <1>1, <2>1, <2>5 DEF BillingInv, TypeOK
    <2>7. ProcessedWasApplied'
        BY <1>1 DEF BillingInv, ProcessedWasApplied
    <2> QED BY <2>3, <2>4, <2>5, <2>6, <2>7 DEF BillingInv
<1>5. CASE ~(Expected(seen) /\ ~row.flag)
    <2>1. row' = row
        BY <1>1, <1>5
    <2>2. World /\ EventsKnown' /\ RowKnown' /\ OthersKeep(c)
        BY <1>1, <2>1, QuietWorld
    <2>3. CallsKnown' /\ call' \in [Calls -> Memories]
        BY <1>1, <2>2, CallEnds
    <2>4. TypeOK'
        BY <1>1, <2>1, <2>3 DEF BillingInv, TypeOK
    <2>5. ProcessedWasApplied'
        BY <1>1 DEF BillingInv, ProcessedWasApplied
    <2> QED BY <2>2, <2>3, <2>4, <2>5 DEF BillingInv
<1> QED BY <1>4, <1>5

LEMMA ExpirySafe ==
    ASSUME BillingInv, run_expiry
    PROVE  BillingInv'
<1>1. UNCHANGED <<now, remote, event, record, call, shown>>
    BY DEF run_expiry, ExpireTrial, CompleteCancellation
<1>2. row \in Rows /\ now \in Times /\ 0 \in Times
    BY TimesReached DEF BillingInv, TypeOK
<1>3. /\ row' \in Rows /\ row'.due = 0 /\ row'.sub = row.sub
      /\ row'.pending = row.pending /\ row'.plan = row.plan
      /\ \/ row.status = "TRIALING" /\ row'.status = "EXPIRED"
         \/ row.status = "ACTIVE" /\ row'.status = "CANCELLED"
    <2>1. CASE ExpireTrial
        BY <1>2, <2>1 DEF ExpireTrial, Rows, Statuses
    <2>2. CASE CompleteCancellation
        BY <1>2, <2>2 DEF CompleteCancellation, Rows, Statuses
    <2> QED BY <2>1, <2>2 DEF run_expiry
<1>4. RowMoves
    BY <1>3 DEF RowMoves
<1>5. RowKnown'
    BY <1>1, <1>3 DEF BillingInv, RowKnown, Sold, Created
<1>6. World /\ EventsKnown'
    BY <1>1, <1>4, RowWorld
<1>7. CallsKnown'
    BY <1>1, <1>4, <1>6, RowWorld, CallsStay
<1>8. TypeOK'
    BY <1>1, <1>3 DEF BillingInv, TypeOK
<1>9. ProcessedWasApplied'
    BY <1>1 DEF BillingInv, ProcessedWasApplied
<1> QED BY <1>5, <1>6, <1>7, <1>8, <1>9 DEF BillingInv

LEMMA InitSafe == Init => BillingInv
<1> SUFFICES ASSUME Init PROVE BillingInv
    OBVIOUS
<1>1. Len(remote) = 0 /\ Len(event) = 0 /\ Len(record) = 0 /\ Sent = {} /\ Sold = {}
    BY EmptySeq DEF Init, Sent, Sold
<1>2. TypeOK
    <2>1. row \in Rows /\ row.due = 0
        BY BoundsAssumption DEF Init, Rows, Statuses, Subs, Times
    <2>2. remote \in Seq(Remotes) /\ event \in Seq(Events) /\ record \in Seq(RecordStatuses)
        BY EmptySeq DEF Init
    <2>3. call \in [Calls -> Memories] /\ now \in 1..MaxTime /\ shown = {}
        BY IdleTyped, BoundsAssumption DEF Init
    <2> QED BY <1>1, <2>1, <2>2, <2>3, BoundsAssumption DEF TypeOK
<1>3. EventsKnown /\ ProcessedWasApplied
    BY <1>1 DEF EventsKnown, ProcessedWasApplied, Sent
<1>4. RowKnown
    BY DEF Init, RowKnown
<1>5. CallsKnown
    <2>1. \A c \in Calls : call[c] = Idle
        BY DEF Init
    <2>2. Known(Idle)
        BY IdleTyped DEF Known
    <2> QED BY <2>1, <2>2, IdleTyped DEF CallsKnown
<1> QED BY <1>2, <1>3, <1>4, <1>5 DEF BillingInv

LEMMA NextSafe == BillingInv /\ [Next]_vars => BillingInv'
<1> SUFFICES ASSUME BillingInv, [Next]_vars PROVE BillingInv'
    OBVIOUS
<1>1. CASE UNCHANGED vars
    BY <1>1 DEF vars, BillingInv, TypeOK, EventsKnown, RowKnown, CallsKnown, Known, SaveKnown,
        ProcessedWasApplied, Sold, Sent, Created, Paid
<1>2. CASE Tick
    BY <1>2, TickSafe
<1>3. CASE EnsureTrial \/ BackfillGrandfathered
    BY <1>3, FirstRowSafe
<1>4. CASE \E s \in 1..Len(remote), has \in Payloads : Send(s, has)
    BY <1>4, SendSafe
<1>5. CASE run_expiry
    BY <1>5, ExpirySafe
<1>6. ASSUME NEW c \in Calls, process_webhook(c)
      PROVE  BillingInv'
    BY <1>6, BeginEventSafe, ReadToApplySafe, SaveTransitionSafe, FinishEventSafe DEF process_webhook
<1>7. ASSUME NEW c \in Calls, Api(c)
      PROVE  BillingInv'
    BY <1>7, ReadToCheckoutSafe, SaveReferenceSafe, ReadToCancelSafe, MarkPeriodEndSafe DEF Api
<1>8. ASSUME NEW c \in Calls, Crash(c)
      PROVE  BillingInv'
    BY <1>8, CrashSafe
<1> QED BY <1>1, <1>2, <1>3, <1>4, <1>5, <1>6, <1>7, <1>8 DEF Next

-----------------------------------------------------------------------------
(* The theorems                                                            *)

\* The inductive invariant.
THEOREM InductiveInvariant == Spec => []BillingInv
BY InitSafe, NextSafe, PTL DEF Spec

\* Types, and the index holds a trial or an ACTIVE row only.
THEOREM TypeCorrect == Spec => []TypeOK
BY InductiveInvariant, PTL DEF BillingInv

\* A paying organization has the plan that its subscription was bought for.
THEOREM PlanCorrect == Spec => []PlanAsBought
<1>1. BillingInv => PlanAsBought
    BY DEF BillingInv, RowKnown, PlanAsBought
<1> QED BY <1>1, InductiveInvariant, PTL

\* No event is marked PROCESSED that the row never showed.
THEOREM ProcessedCorrect == Spec => []ProcessedWasApplied
BY InductiveInvariant, PTL DEF BillingInv

\* A subscription ends with its period only if the provider agreed to cancel it.
THEOREM CancellationCorrect == Spec => []CancellationAccepted
<1>1. BillingInv => CancellationAccepted
    BY DEF BillingInv, RowKnown, CancellationAccepted
<1> QED BY <1>1, InductiveInvariant, PTL

\* The steps that write the row.
LEMMA RowWriters ==
    ASSUME BillingInv, [Next]_vars
    PROVE  \/ row' = row
           \/ EnsureTrial \/ BackfillGrandfathered \/ run_expiry
           \/ \E c \in Calls :
                  \/ SaveTransition(c) /\ Expected(call[c].seen)
                  \/ SaveReference(c) /\ ReferenceFree(call[c].seen)
                  \/ MarkPeriodEnd(c) /\ Expected(call[c].seen) /\ ~row.flag
<1>1. CASE UNCHANGED vars
    BY <1>1 DEF vars
<1>2. CASE Tick
    BY <1>2 DEF Tick
<1>3. ASSUME NEW s \in 1..Len(remote), NEW has \in Payloads, Send(s, has)
      PROVE  row' = row
    BY <1>3 DEF Send
<1>4. ASSUME NEW c \in Calls, process_webhook(c)
      PROVE  row' = row \/ (SaveTransition(c) /\ Expected(call[c].seen))
    <2>1. ASSUME NEW e \in 1..Len(event), BeginEvent(c, e) PROVE row' = row
        BY <2>1 DEF BeginEvent
    <2>2. ReadToApply(c) \/ FinishEvent(c) => row' = row
        BY DEF ReadToApply, FinishEvent
    <2>3. SaveTransition(c) /\ ~Expected(call[c].seen) => row' = row
        BY DEF SaveTransition
    <2> QED BY <1>4, <2>1, <2>2, <2>3 DEF process_webhook
<1>5. ASSUME NEW c \in Calls, Api(c)
      PROVE  \/ row' = row
             \/ SaveReference(c) /\ ReferenceFree(call[c].seen)
             \/ MarkPeriodEnd(c) /\ Expected(call[c].seen) /\ ~row.flag
    <2>1. ReadToCheckout(c) \/ ReadToCancel(c) => row' = row
        BY DEF ReadToCheckout, ReadToCancel
    <2>2. SaveReference(c) /\ ~ReferenceFree(call[c].seen) => row' = row
        BY DEF SaveReference
    <2>3. MarkPeriodEnd(c) /\ ~(Expected(call[c].seen) /\ ~row.flag) => row' = row
        BY DEF MarkPeriodEnd
    <2> QED BY <1>5, <2>1, <2>2, <2>3 DEF Api
<1>6. ASSUME NEW c \in Calls, Crash(c) PROVE row' = row
    BY <1>6 DEF Crash
<1> QED BY <1>1, <1>2, <1>3, <1>4, <1>5, <1>6 DEF Next

\* What a webhook knows as it writes, and what it leaves.
LEMMA SaveFacts ==
    ASSUME BillingInv, NEW c \in Calls, SaveTransition(c), Expected(call[c].seen)
    PROVE  LET e == event[call[c].event]
               seen == call[c].seen
           IN  /\ call[c].op = "save" /\ call'[c].op = "processed"
               /\ SaveKnown(call[c])
               /\ row.status = seen.status /\ row.sub = seen.sub /\ row.sub = e.sub
               /\ row.status = e.target \/ MayBecome(row.status, e.target)
               /\ e.sub \in Sold /\ Paid(e.sub)
               /\ row'.status = e.target /\ row'.sub = row.sub
               /\ row'.flag = IF e.cancels # "absent" \/ Activates(seen, e)
                              THEN FlagAfter(seen, e) ELSE row.flag
               /\ row'.periodEnd = IF e.periodEnd # 0 THEN e.periodEnd ELSE row.periodEnd
               /\ row'.due = lifecycle_due(e.target, 0, FlagAfter(seen, e),
                                 IF e.periodEnd # 0 THEN e.periodEnd ELSE seen.periodEnd)
<1> DEFINE i == call[c].event
           e == event[i]
           seen == call[c].seen
           done == [call[c] EXCEPT !.op = "processed", !.seen = Nothing]
<1>1. call[c].op = "save" /\ call' = [call EXCEPT ![c] = done] /\ row' = Transition(row, seen, e)
    BY DEF SaveTransition
<1>2. call[c] \in Memories /\ call \in [Calls -> Memories]
    BY TypeFacts DEF BillingInv, TypeOK
<1>3. done.op = "processed"
    BY <1>2 DEF Memories
<1> HIDE DEF done
<1>4. call'[c].op = "processed"
    BY <1>1, <1>2, <1>3
<1>5. i \in Sent /\ SaveKnown(call[c])
    BY <1>1 DEF BillingInv, CallsKnown, Known
<1>6. seen \in Seen /\ row \in Rows /\ e \in Events
    BY <1>2, <1>5, TypeFacts DEF BillingInv, Memories
<1>7. /\ row'.status = e.target /\ row'.sub = row.sub
      /\ row'.flag = IF e.cancels # "absent" \/ Activates(seen, e)
                     THEN FlagAfter(seen, e) ELSE row.flag
      /\ row'.periodEnd = IF e.periodEnd # 0 THEN e.periodEnd ELSE row.periodEnd
      /\ row'.due = lifecycle_due(e.target, 0, FlagAfter(seen, e),
                        IF e.periodEnd # 0 THEN e.periodEnd ELSE seen.periodEnd)
    BY <1>1, <1>6, TransitionFields
<1>8. row.status = seen.status /\ row.sub = seen.sub /\ row.sub = e.sub
      /\ (row.status = e.target \/ MayBecome(row.status, e.target))
    BY <1>5 DEF SaveKnown, Expected
<1>9. e.sub \in Sold /\ Paid(e.sub)
    BY <1>5 DEF BillingInv, EventsKnown
<1> QED BY <1>1, <1>4, <1>5, <1>7, <1>8, <1>9

\* The status a row gets from anything but a webhook is not ACTIVE.
LEMMA OthersNeverActivate ==
    ASSUME BillingInv
    PROVE  /\ EnsureTrial \/ BackfillGrandfathered \/ run_expiry => row'.status # "ACTIVE"
           /\ \A c \in Calls : SaveReference(c) /\ ReferenceFree(call[c].seen) =>
                  row'.status = row.status /\ row.status \in CheckoutStatuses
           /\ \A c \in Calls : MarkPeriodEnd(c) /\ Expected(call[c].seen) /\ ~row.flag =>
                  /\ row.status = "ACTIVE" /\ row'.status = "ACTIVE" /\ row'.sub = row.sub
                  /\ row'.periodEnd = row.periodEnd
                  /\ row'.due = lifecycle_due("ACTIVE", 0, TRUE, call[c].seen.periodEnd)
<1>1. row \in Rows
    BY TypeFacts DEF BillingInv
<1>2. EnsureTrial \/ BackfillGrandfathered \/ run_expiry => row'.status # "ACTIVE"
    <2>1. EnsureTrial \/ BackfillGrandfathered => row'.status # "ACTIVE"
        BY FirstRow
    <2>2. run_expiry => row'.status # "ACTIVE"
        <3>1. ExpireTrial => row'.status = "EXPIRED"
            BY <1>1 DEF ExpireTrial, Rows
        <3>2. CompleteCancellation => row'.status = "CANCELLED"
            BY <1>1 DEF CompleteCancellation, Rows
        <3> QED BY <3>1, <3>2 DEF run_expiry
    <2> QED BY <2>1, <2>2
<1>3. ASSUME NEW c \in Calls, SaveReference(c), ReferenceFree(call[c].seen)
      PROVE  row'.status = row.status /\ row.status \in CheckoutStatuses
    <2>1. row'.status = row.status
        BY <1>1, <1>3 DEF SaveReference, Rows
    <2>2. row.status \in CheckoutStatuses
        BY <1>3 DEF SaveReference, ReferenceFree, BillingInv, CallsKnown, Known
    <2> QED BY <2>1, <2>2
<1>4. ASSUME NEW c \in Calls, MarkPeriodEnd(c), Expected(call[c].seen), ~row.flag
      PROVE  /\ row.status = "ACTIVE" /\ row'.status = "ACTIVE" /\ row'.sub = row.sub
             /\ row'.periodEnd = row.periodEnd
             /\ row'.due = lifecycle_due("ACTIVE", 0, TRUE, call[c].seen.periodEnd)
    <2>1. call[c].seen.status = "ACTIVE"
        BY <1>4 DEF MarkPeriodEnd, BillingInv, CallsKnown, Known
    <2> DEFINE due == lifecycle_due("ACTIVE", 0, TRUE, call[c].seen.periodEnd)
    <2>2. row' = [row EXCEPT !.flag = TRUE, !.due = due]
        BY <1>4 DEF MarkPeriodEnd
    <2> HIDE DEF due
    <2>3. /\ row.status = "ACTIVE" /\ row'.status = "ACTIVE" /\ row'.sub = row.sub
          /\ row'.periodEnd = row.periodEnd /\ row'.due = due
        BY <1>1, <1>4, <2>1, <2>2 DEF Expected, Rows
    <2> QED BY <2>3 DEF due
<1> QED BY <1>2, <1>3, <1>4

LEMMA UndoneByNewer ==
    ASSUME BillingInv, [Next]_vars, row.status = "EXPIRED", row'.status = "ACTIVE"
    PROVE  \E c \in Calls :
               /\ call[c].op = "save" /\ call'[c].op = "processed"
               /\ \/ event[call[c].event].time > row.boundary
                  \/ event[call[c].event].periodEnd > row.boundary
<1>1. PICK c \in Calls : SaveTransition(c) /\ Expected(call[c].seen)
    BY RowWriters, OthersNeverActivate
<1>2. call[c].op = "save" /\ call'[c].op = "processed" /\ SaveKnown(call[c])
      /\ row.status = call[c].seen.status /\ row.sub = call[c].seen.sub
    BY <1>1, SaveFacts
<1> QED BY <1>2 DEF SaveKnown

\* An expiry is undone only by an event that is newer or pays beyond it,
\* whatever the call had read before.
THEOREM ExpiryCorrect == Spec => ExpiryUndoneByNewer
<1>1. BillingInv /\ [Next]_vars =>
          [row.status = "EXPIRED" /\ row'.status = "ACTIVE" =>
              \E c \in Calls :
                  /\ call[c].op = "save" /\ call'[c].op = "processed"
                  /\ \/ event[call[c].event].time > row.boundary
                     \/ event[call[c].event].periodEnd > row.boundary]_vars
    BY UndoneByNewer
<1> QED BY <1>1, InductiveInvariant, PTL DEF Spec, ExpiryUndoneByNewer

\* What is true of the call whose write loses the index entry.
LosesIndex(c) ==
    /\ \/ call[c].op = "save" /\ call'[c].op = "processed"
       \/ call[c].op = "mark" /\ call'[c].op = "idle"
    /\ Outdated(c)

\* The webhook's write: it keeps a flag that it had read unset, or a period
\* end that it had read blank.
LEMMA SaveLosesIndex ==
    ASSUME BillingInv, NEW c \in Calls, SaveTransition(c), Expected(call[c].seen),
           Scheduled', row'.due = 0
    PROVE  LosesIndex(c)
<1> DEFINE e == event[call[c].event]
           seen == call[c].seen
           end == IF e.periodEnd # 0 THEN e.periodEnd ELSE seen.periodEnd
<1>1. row'.status = "ACTIVE" /\ row'.flag /\ row'.periodEnd # 0
    BY DEF Scheduled
<1>2. /\ call[c].op = "save" /\ call'[c].op = "processed"
      /\ row'.status = e.target
      /\ row'.flag = IF e.cancels # "absent" \/ Activates(seen, e)
                     THEN FlagAfter(seen, e) ELSE row.flag
      /\ row'.periodEnd = IF e.periodEnd # 0 THEN e.periodEnd ELSE row.periodEnd
      /\ row'.due = lifecycle_due(e.target, 0, FlagAfter(seen, e), end)
    BY SaveFacts
<1>3. ~FlagAfter(seen, e) \/ end = 0
    BY <1>1, <1>2 DEF lifecycle_due
<1>4. CASE ~FlagAfter(seen, e)
    <2>1. e.cancels = "absent" /\ ~Activates(seen, e) /\ row.flag
        BY <1>1, <1>2, <1>4
    <2>2. ~seen.flag
        BY <1>4, <2>1 DEF FlagAfter
    <2> QED BY <1>2, <2>1, <2>2 DEF LosesIndex, Outdated
<1>5. CASE end = 0
    <2>1. e.periodEnd = 0 /\ seen.periodEnd = 0
        BY <1>5
    <2>2. row.periodEnd # 0
        BY <1>1, <1>2, <2>1
    <2> QED BY <1>2, <2>1, <2>2 DEF LosesIndex, Outdated
<1> QED BY <1>3, <1>4, <1>5

\* The cancellation's write: the period end it had read was blank.
LEMMA MarkLosesIndex ==
    ASSUME BillingInv, NEW c \in Calls, MarkPeriodEnd(c), Expected(call[c].seen), ~row.flag,
           Scheduled', row'.due = 0
    PROVE  LosesIndex(c)
<1>1. row'.periodEnd # 0
    BY DEF Scheduled
<1>2. /\ row'.periodEnd = row.periodEnd
      /\ row'.due = lifecycle_due("ACTIVE", 0, TRUE, call[c].seen.periodEnd)
    BY OthersNeverActivate
<1>3. call[c].seen.periodEnd = 0
    BY <1>2 DEF lifecycle_due
<1>4. call[c].op = "mark" /\ call'[c].op = "idle"
    BY IdleTyped DEF MarkPeriodEnd, End, BillingInv, TypeOK
<1> QED BY <1>1, <1>2, <1>3, <1>4 DEF LosesIndex, Outdated

LEMMA LostToStaleRead ==
    ASSUME BillingInv, [Next]_vars, Scheduled', row'.due = 0, ~(Scheduled /\ row.due = 0)
    PROVE  \E c \in Calls : LosesIndex(c)
<1>1. row' # row
    BY DEF Scheduled
<1>2. row'.status = "ACTIVE"
    BY DEF Scheduled
<1>3. PICK c \in Calls : \/ SaveTransition(c) /\ Expected(call[c].seen)
                         \/ MarkPeriodEnd(c) /\ Expected(call[c].seen) /\ ~row.flag
    BY <1>1, <1>2, RowWriters, OthersNeverActivate DEF CheckoutStatuses
<1>4. LosesIndex(c)
    BY <1>3, SaveLosesIndex, MarkLosesIndex
<1> QED BY <1>4

\* The job loses a scheduled end only to a write, of a webhook or of a
\* cancellation, whose call had read another flag or another period end than
\* the row has by then.
THEOREM IndexCorrect == Spec => IndexLostOnlyToStaleRead
<1>1. BillingInv /\ [Next]_vars =>
          [Scheduled' /\ row'.due = 0 /\ ~(Scheduled /\ row.due = 0) =>
              \E c \in Calls :
                  /\ \/ call[c].op = "save" /\ call'[c].op = "processed"
                     \/ call[c].op = "mark" /\ call'[c].op = "idle"
                  /\ Outdated(c)]_vars
    BY LostToStaleRead DEF LosesIndex
<1> QED BY <1>1, InductiveInvariant, PTL DEF Spec, IndexLostOnlyToStaleRead

-----------------------------------------------------------------------------
(* The refinement of SubscriptionStates                                    *)

ContractStep == Contract!Next \/ UNCHANGED Contract!vars

\* What was paid for, in terms of the provider's states.
LEMMA PaidFacts ==
    ASSUME BillingInv
    PROVE  /\ \A s : s \in EverPaid <=> s \in Sold /\ Paid(s)
           /\ remote' = remote => EverPaid' = EverPaid
BY DEF EverPaid, Sold, Paid

\* The answers of the provider that checkouts in progress hold: a call that
\* becomes anything but a checkout takes its own away, a checkout adds one.
LEMMA AskedLess ==
    ASSUME BillingInv, NEW c \in Calls, NEW m, call' = [call EXCEPT ![c] = m], m.op # "reference"
    PROVE  /\ AskedAbout' \subseteq AskedAbout
           /\ call[c].op # "reference" => AskedAbout' = AskedAbout
<1>1. call'[c] = m /\ \A d \in Calls \ {c} : call'[d] = call[d]
    BY DEF BillingInv, TypeOK
<1> QED BY <1>1 DEF AskedAbout

LEMMA AskedMore ==
    ASSUME BillingInv, NEW c \in Calls, NEW m, call' = [call EXCEPT ![c] = m],
           m.op = "reference", call[c].op # "reference"
    PROVE  AskedAbout' = AskedAbout \cup ({m.seen.sub} \ {0})
<1>1. call'[c] = m /\ \A d \in Calls \ {c} : call'[d] = call[d]
    BY DEF BillingInv, TypeOK
<1> QED BY <1>1 DEF AskedAbout

LEMMA AskedSame ==
    ASSUME call' = call
    PROVE  AskedAbout' = AskedAbout
BY DEF AskedAbout

LEMMA AskedEnds ==
    ASSUME BillingInv, NEW c \in Calls, End(c)
    PROVE  /\ AskedAbout' \subseteq AskedAbout
           /\ call[c].op # "reference" => AskedAbout' = AskedAbout
BY IdleTyped, AskedLess DEF End

\* A step of the row alone, along the table or with no change of status.
LEMMA MoveStep ==
    ASSUME BillingInv, remote' = remote, row'.sub = row.sub, AskedAbout' = AskedAbout,
           \/ row'.status = row.status
           \/ /\ row'.status \in Contract!TRANSITIONS[row.status]
              /\ row'.status = "ACTIVE" => row.sub \in EverPaid
    PROVE  ContractStep
<1>1. EverPaid' = EverPaid
    BY PaidFacts
<1> QED BY <1>1 DEF ContractStep, Contract!Next, Contract!Move, Contract!vars

LEMMA FirstRowContract ==
    ASSUME BillingInv, EnsureTrial \/ BackfillGrandfathered
    PROVE  ContractStep
<1>1. remote' = remote /\ AskedAbout' = AskedAbout
    BY AskedSame DEF EnsureTrial, BackfillGrandfathered
<1>2. row'.status \in Contract!TRANSITIONS["NONE"]
    BY FirstRow DEF Contract!TRANSITIONS
<1> QED BY <1>1, <1>2, FirstRow, MoveStep

LEMMA ExpiryContract ==
    ASSUME BillingInv, run_expiry
    PROVE  ContractStep
<1>1. row \in Rows /\ AskedAbout' = AskedAbout
    BY TypeFacts, AskedSame DEF BillingInv, run_expiry, ExpireTrial, CompleteCancellation
<1>2. CASE ExpireTrial
    <2>1. remote' = remote /\ row'.sub = row.sub /\ row.status = "TRIALING" /\ row'.status = "EXPIRED"
        BY <1>1, <1>2 DEF ExpireTrial, Rows
    <2>2. "EXPIRED" \in Contract!TRANSITIONS["TRIALING"]
        BY DEF Contract!TRANSITIONS
    <2> QED BY <1>1, <2>1, <2>2, MoveStep
<1>3. CASE CompleteCancellation
    <2>1. remote' = remote /\ row'.sub = row.sub /\ row.status = "ACTIVE" /\ row'.status = "CANCELLED"
        BY <1>1, <1>3 DEF CompleteCancellation, Rows
    <2>2. "CANCELLED" \in Contract!TRANSITIONS["ACTIVE"]
        BY DEF Contract!TRANSITIONS
    <2> QED BY <1>1, <2>1, <2>2, MoveStep
<1> QED BY <1>2, <1>3 DEF run_expiry

\* The webhook's rows of the table are rows of the contract's.
LEMMA WebhookTable ==
    ASSUME NEW from, NEW target, MayBecome(from, target)
    PROVE  target \in Contract!TRANSITIONS[from]
<1>1. target = "ACTIVE" /\ from = "TRIALING" => target \in Contract!TRANSITIONS[from]
    BY DEF Contract!TRANSITIONS
<1>2. target = "ACTIVE" /\ from = "PAST_DUE" => target \in Contract!TRANSITIONS[from]
    BY DEF Contract!TRANSITIONS
<1>3. target = "ACTIVE" /\ from = "CANCELLED" => target \in Contract!TRANSITIONS[from]
    BY DEF Contract!TRANSITIONS
<1>4. target = "ACTIVE" /\ from = "EXPIRED" => target \in Contract!TRANSITIONS[from]
    BY DEF Contract!TRANSITIONS
<1>5. target = "ACTIVE" /\ from = "GRANDFATHERED" => target \in Contract!TRANSITIONS[from]
    BY DEF Contract!TRANSITIONS
<1>6. target \in {"PAST_DUE", "CANCELLED"} /\ from = "ACTIVE" => target \in Contract!TRANSITIONS[from]
    BY DEF Contract!TRANSITIONS
<1> QED BY <1>1, <1>2, <1>3, <1>4, <1>5, <1>6 DEF MayBecome

\* What the two steps of a webhook that decide leave in the memory.
LEMMA ReadAsked ==
    ASSUME BillingInv, NEW c \in Calls, ReadToApply(c)
    PROVE  AskedAbout' = AskedAbout
<1> DEFINE e == event[call[c].event]
           unchanged == row.status = e.target /\ call[c].resume
           op == IF Ignored(row, e) THEN "ignored" ELSE IF unchanged THEN "processed" ELSE "save"
           seen == IF Ignored(row, e) \/ unchanged THEN Nothing ELSE Look(row)
           m == [call[c] EXCEPT !.resume = FALSE, !.op = op, !.seen = seen]
<1>1. call' = [call EXCEPT ![c] = m] /\ call[c].op = "received"
    BY DEF ReadToApply
<1>2. call[c] \in Memories
    BY TypeFacts DEF BillingInv
<1>3. op # "reference"
    OBVIOUS
<1> HIDE DEF op, seen
<1>4. m.op = op
    BY <1>2 DEF Memories
<1> HIDE DEF m
<1> QED BY <1>1, <1>3, <1>4, AskedLess

LEMMA SaveAsked ==
    ASSUME BillingInv, NEW c \in Calls, SaveTransition(c)
    PROVE  AskedAbout' = AskedAbout
<1> DEFINE done == [call[c] EXCEPT !.op = "processed", !.seen = Nothing]
<1>1. call[c] \in Memories
    BY TypeFacts DEF BillingInv
<1>2. done.op = "processed"
    BY <1>1 DEF Memories
<1>3. call[c].op = "save" /\ (End(c) \/ call' = [call EXCEPT ![c] = done])
    BY DEF SaveTransition
<1> HIDE DEF done
<1> QED BY <1>2, <1>3, AskedLess, AskedEnds

LEMMA BeginAsked ==
    ASSUME BillingInv, NEW c \in Calls, NEW e \in 1..Len(event), BeginEvent(c, e)
    PROVE  AskedAbout' = AskedAbout
<1>1. PICK resume \in {FALSE, record[e] = "RECEIVED"} :
          Begin(c, [Idle EXCEPT !.op = "received", !.event = e, !.resume = resume])
    BY DEF BeginEvent
<1> DEFINE m == [Idle EXCEPT !.op = "received", !.event = e, !.resume = resume]
<1>2. call' = [call EXCEPT ![c] = m] /\ call[c].op = "idle"
    BY <1>1 DEF Begin
<1>3. m.op = "received"
    BY DEF Idle
<1> HIDE DEF m
<1> QED BY <1>2, <1>3, AskedLess

LEMMA SaveContract ==
    ASSUME BillingInv, NEW c \in Calls, SaveTransition(c), Expected(call[c].seen)
    PROVE  ContractStep
<1> DEFINE e == event[call[c].event]
<1>1. /\ row.sub = e.sub /\ (row.status = e.target \/ MayBecome(row.status, e.target))
      /\ e.sub \in Sold /\ Paid(e.sub)
      /\ row'.status = e.target /\ row'.sub = row.sub
    BY SaveFacts
<1>2. remote' = remote /\ row.sub \in EverPaid
    BY <1>1, PaidFacts DEF SaveTransition
<1>3. AskedAbout' = AskedAbout
    BY SaveAsked
<1> QED BY <1>1, <1>2, <1>3, WebhookTable, MoveStep

LEMMA SendContract ==
    ASSUME BillingInv, NEW s \in 1..Len(remote), NEW has \in Payloads, Send(s, has)
    PROVE  ContractStep
<1> DEFINE after == Becoming(s, has.target)
<1>1. remote' = [remote EXCEPT ![s] = after] /\ after \in Remotes /\ after.state \in {"live", "ended"}
    BY SendFacts
<1> HIDE DEF after
<1>2. /\ Len(remote') = Len(remote)
      /\ \A t \in 1..Len(remote) : remote'[t] = IF t = s THEN after ELSE remote[t]
    BY <1>1, TypeFacts, ExceptSeq DEF BillingInv
<1>3. EverPaid' = EverPaid \cup {s}
    BY <1>1, <1>2 DEF EverPaid
<1>4. row' = row /\ AskedAbout' = AskedAbout
    BY AskedSame DEF Send
<1> QED BY <1>3, <1>4 DEF ContractStep, Contract!Next, Contract!Pay

LEMMA ReadToCheckoutContract ==
    ASSUME BillingInv, NEW c \in Calls, ReadToCheckout(c)
    PROVE  ContractStep
<1>1. NewSubscription \in Remotes /\ NewSubscription.state = "created"
    BY DEF NewSubscription, Remotes
<1>2. remote' = Append(remote, NewSubscription) /\ row' = row
    BY DEF ReadToCheckout
<1>3. /\ Len(remote) \in Nat /\ Len(remote') = Len(remote) + 1
      /\ \A t \in 1..Len(remote) : remote'[t] = remote[t]
      /\ remote'[Len(remote) + 1] = NewSubscription
    BY <1>1, <1>2, TypeFacts, AppendProperties DEF BillingInv
<1>4. EverPaid' = EverPaid
    <2>1. \A t \in 1..Len(remote') : t \in 1..Len(remote) \/ t = Len(remote) + 1
        BY <1>3
    <2>2. 1..Len(remote) \subseteq 1..Len(remote')
        BY <1>3
    <2> QED BY <1>1, <1>3, <2>1, <2>2 DEF EverPaid
<1> DEFINE s == CheckoutSeen.sub
           m == [Idle EXCEPT !.op = "reference", !.sub = Len(remote) + 1, !.seen = CheckoutSeen]
<1>5. call' = [call EXCEPT ![c] = m] /\ call[c].op = "idle"
    BY DEF ReadToCheckout, Begin, CheckoutSeen
<1>6. m.op = "reference" /\ m.seen.sub = s
    BY DEF Idle
<1> HIDE DEF m
<1>7. AskedAbout' = AskedAbout \cup ({s} \ {0})
    BY <1>5, <1>6, AskedMore
<1>8. s # 0 => s \notin EverPaid
    <2>1. s = IF row.status = "CANCELLED" THEN 0 ELSE row.sub
        BY DEF CheckoutSeen, Nothing
    <2>2. Replaceable(row)
        BY DEF ReadToCheckout
    <2> QED BY <2>1, <2>2 DEF Replaceable, NotAuthorized, EverPaid
<1> HIDE DEF s
<1>9. CASE s = 0
    BY <1>2, <1>4, <1>7, <1>9 DEF ContractStep, Contract!vars
<1>10. CASE s # 0
    <2>1. AskedAbout' = AskedAbout \cup {s} /\ s \in AskedAbout' /\ s \notin EverPaid
        BY <1>7, <1>8, <1>10
    <2>2. Contract!Ask
        BY <1>2, <1>4, <2>1 DEF Contract!Ask
    <2> QED BY <2>2 DEF ContractStep, Contract!Next
<1> QED BY <1>9, <1>10

LEMMA SaveReferenceContract ==
    ASSUME BillingInv, NEW c \in Calls, SaveReference(c), ReferenceFree(call[c].seen)
    PROVE  ContractStep
<1> DEFINE s == call[c].sub
           offer == [remote[s] EXCEPT !.state = "offered"]
<1>1. /\ row \in Rows /\ s \in Sold /\ Created(s) /\ remote[s] \in Remotes
      /\ row'.status = row.status /\ row.status \in CheckoutStatuses
    BY TypeFacts, OthersNeverActivate DEF BillingInv, SaveReference, CallsKnown, Known
<1>2. row'.sub = s /\ remote' = [remote EXCEPT ![s] = offer]
    BY <1>1 DEF SaveReference, Rows
<1>3. row.sub # s
    BY <1>1 DEF BillingInv, RowKnown, Sold
<1>4. offer \in Remotes /\ offer.state = "offered"
    BY <1>1 DEF Remotes
<1> HIDE DEF offer
<1>5. /\ Len(remote') = Len(remote)
      /\ \A t \in 1..Len(remote) : remote'[t] = IF t = s THEN offer ELSE remote[t]
    BY <1>1, <1>2, <1>4, TypeFacts, ExceptSeq DEF BillingInv, Sold
<1>6. EverPaid' = EverPaid
    BY <1>1, <1>4, <1>5 DEF EverPaid, Sold, Created
<1>7. AskedAbout' \subseteq AskedAbout
    BY AskedEnds DEF SaveReference
<1>8. row.sub = 0 \/ row.sub \in AskedAbout \/ row.status = "CANCELLED"
    BY DEF SaveReference, ReferenceFree, AskedAbout
<1> QED BY <1>1, <1>2, <1>3, <1>6, <1>7, <1>8 DEF ContractStep, Contract!Next, Contract!Checkout,
        Contract!Paying, CheckoutStatuses

LEMMA ReadToCancelContract ==
    ASSUME BillingInv, NEW c \in Calls, ReadToCancel(c)
    PROVE  ContractStep
<1> DEFINE s == row.sub
           after == [remote[s] EXCEPT !.cancelling = TRUE]
<1>1. row' = row /\ s \in Sold /\ remote' = [remote EXCEPT ![s].cancelling = TRUE]
    BY DEF ReadToCancel, CancelAtCycleEnd, BillingInv, RowKnown
<1>2. remote[s] \in Remotes
    BY <1>1, TypeFacts DEF BillingInv
<1>3. remote' = [remote EXCEPT ![s] = after] /\ after \in Remotes /\ after.state = remote[s].state
    BY <1>1, <1>2 DEF Remotes
<1> HIDE DEF after
<1>4. /\ Len(remote') = Len(remote)
      /\ \A t \in 1..Len(remote) : remote'[t] = IF t = s THEN after ELSE remote[t]
    BY <1>1, <1>3, TypeFacts, ExceptSeq DEF BillingInv, Sold
<1>5. EverPaid' = EverPaid
    BY <1>3, <1>4 DEF EverPaid
<1> DEFINE m == [Idle EXCEPT !.op = "mark", !.seen = Look(row)]
<1>6. call' = [call EXCEPT ![c] = m] /\ call[c].op = "idle"
    BY DEF ReadToCancel, Begin
<1>7. m.op = "mark"
    BY DEF Idle
<1> HIDE DEF m
<1>8. AskedAbout' = AskedAbout
    BY <1>6, <1>7, AskedLess
<1> QED BY <1>1, <1>5, <1>8 DEF ContractStep, Contract!vars

LEMMA MarkContract ==
    ASSUME BillingInv, NEW c \in Calls, MarkPeriodEnd(c), Expected(call[c].seen), ~row.flag
    PROVE  ContractStep
<1>1. row'.status = row.status /\ row'.sub = row.sub
    BY OthersNeverActivate
<1>2. remote' = remote /\ AskedAbout' = AskedAbout
    BY AskedEnds DEF MarkPeriodEnd
<1> QED BY <1>1, <1>2, MoveStep

\* A step that writes neither the row nor the provider's subscriptions, and
\* adds no answer of the provider.
LEMMA QuietContract ==
    ASSUME BillingInv, row' = row, remote' = remote, AskedAbout' \subseteq AskedAbout
    PROVE  ContractStep
<1>1. EverPaid' = EverPaid
    BY PaidFacts
<1> QED BY <1>1 DEF ContractStep, Contract!Next, Contract!Forget

LEMMA StepsImplement ==
    ASSUME BillingInv, [Next]_vars
    PROVE  ContractStep
<1>1. CASE UNCHANGED vars
    BY <1>1, AskedSame, QuietContract DEF vars
<1>2. CASE Tick
    BY <1>2, AskedSame, QuietContract DEF Tick
<1>3. CASE EnsureTrial \/ BackfillGrandfathered
    BY <1>3, FirstRowContract
<1>4. CASE \E s \in 1..Len(remote), has \in Payloads : Send(s, has)
    BY <1>4, SendContract
<1>5. CASE run_expiry
    BY <1>5, ExpiryContract
<1>6. ASSUME NEW c \in Calls, process_webhook(c)
      PROVE  ContractStep
    <2>1. ASSUME NEW e \in 1..Len(event), BeginEvent(c, e) PROVE ContractStep
        BY <2>1, BeginAsked, QuietContract DEF BeginEvent
    <2>2. CASE ReadToApply(c) \/ FinishEvent(c)
        BY <2>2, ReadAsked, AskedEnds, QuietContract DEF ReadToApply, FinishEvent
    <2>3. CASE SaveTransition(c) /\ ~Expected(call[c].seen)
        BY <2>3, SaveAsked, QuietContract DEF SaveTransition
    <2>4. CASE SaveTransition(c) /\ Expected(call[c].seen)
        BY <2>4, SaveContract
    <2> QED BY <1>6, <2>1, <2>2, <2>3, <2>4 DEF process_webhook
<1>7. ASSUME NEW c \in Calls, Api(c)
      PROVE  ContractStep
    <2>1. CASE ReadToCheckout(c)
        BY <2>1, ReadToCheckoutContract
    <2>2. CASE SaveReference(c)
        <3>1. ~ReferenceFree(call[c].seen) => ContractStep
            BY <2>2, AskedEnds, QuietContract DEF SaveReference
        <3> QED BY <2>2, <3>1, SaveReferenceContract
    <2>3. CASE ReadToCancel(c)
        BY <2>3, ReadToCancelContract
    <2>4. CASE MarkPeriodEnd(c)
        <3>1. ~(Expected(call[c].seen) /\ ~row.flag) => ContractStep
            BY <2>4, AskedEnds, QuietContract DEF MarkPeriodEnd
        <3> QED BY <2>4, <3>1, MarkContract
    <2> QED BY <1>7, <2>1, <2>2, <2>3, <2>4 DEF Api
<1>8. ASSUME NEW c \in Calls, Crash(c)
      PROVE  ContractStep
    BY <1>8, AskedEnds, QuietContract DEF Crash
<1> QED BY <1>1, <1>2, <1>3, <1>4, <1>5, <1>6, <1>7, <1>8 DEF Next

\* Billing implements SubscriptionStates: each step keeps to the table of
\* transitions, activates only what was paid for, and exchanges a subscription
\* only on a cancelled row or after the provider has answered this checkout
\* that nobody authorized it, never that of a paying organization.  Somebody
\* may authorize it between the answer and the write.
THEOREM ContractCorrect == Spec => ImplementsContract
<1>1. Init => Contract!Init
    <2>1. ASSUME Init PROVE AskedAbout = {} /\ EverPaid = {}
        BY <2>1, EmptySeq, IdleTyped DEF Init, EverPaid, AskedAbout
    <2> QED BY <2>1 DEF Init, Contract!Init
<1>2. BillingInv /\ [Next]_vars => [Contract!Next]_(Contract!vars)
    BY StepsImplement DEF ContractStep
<1> QED BY <1>1, <1>2, InductiveInvariant, PTL DEF Spec, ImplementsContract, Contract!Spec
=============================================================================
