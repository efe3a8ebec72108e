--------------------------- MODULE ExchangeOffers ---------------------------
(* One exchange between organizations (exchange/service.py and              *)
(* exchange/lifecycle.py): the META row, the offers that compete for it,    *)
(* the EXCHANGE allocation of the one that is accepted, and the handover    *)
(* codes of HandoverCode.                                                   *)
(*                                                                          *)
(* A handler whose write rechecks what it read is one action.  The others   *)
(* are split at their last read: a call remembers what it read, other calls *)
(* run, and then it writes or is refused.  GiveUp is a refused write, an    *)
(* error and a Lambda that dies alike: the call is gone and what it had not *)
(* written is never written.  The resource row itself is HoldLedger's (one  *)
(* item) or QuantityPool's (units): here the allocation stands for the      *)
(* hold.  A read of an overdue META expires it first; when that meets a     *)
(* conflict the handler goes on with the row as it is, so only issue_qr,    *)
(* which looks at the deadline itself, has a guard on it.                   *)
EXTENDS HandoverCode, FiniteSets

CONSTANTS
    Offers,       \* offer rows that may be put
    NoOffer,
    Calls,        \* invocations of the exchange handler that overlap
    Worker,       \* the invocation of the hourly expiry worker
    Malformed     \* the offers whose sender gives an expires_at that does not parse

ASSUME NoOfferAssumption == NoOffer \notin Offers
ASSUME WorkerAssumption == Worker \notin Calls
ASSUME MalformedAssumption == Malformed \subseteq Offers

VARIABLES
    meta,         \* the META row: status, accepted_offer_id, deadline passed
    offer,        \* the status of each offer row
    hold,         \* the status of the EXCHANGE allocation of each offer
    call,         \* what each invocation remembers
    elsewhere     \* the worker meets a malformed row of another exchange

vars == <<meta, offer, hold, call, elsewhere, session, pointer>>

Invocations == Calls \cup {Worker}
HeldStatuses == {"ACCEPTED", "TRANSFER_PENDING"}
EndStatuses == {"CANCELLED", "EXPIRED"}

Metas == [status: {"NONE", "OPEN", "COMPLETED"} \cup HeldStatuses \cup EndStatuses,
          accepted: Offers \cup {NoOffer},
          overdue: BOOLEAN]
OfferStatuses == {"NONE", "OPEN", "ACCEPTED", "REJECTED", "WITHDRAWN",
                  "SUPERSEDED"} \cup EndStatuses
HoldStatuses == {"NONE", "OPEN", "RELEASED", "COMPLETED"}
Memories == [op: {"idle", "offer", "close", "sweep", "list", "clear", "end",
                  "confirm", "issue"},
             offer: Offers \cup {NoOffer},        \* the offer to close
             from: HeldStatuses \cup {"NONE"},    \* the META status it read
             to: EndStatuses \cup {"REJECTED", "NONE"},
             code: Sessions \cup {NoSession},     \* the code in force it read
             version: 0..IssueCap,
             todo: SUBSET Offers]                 \* offers it listed
Idle == [op |-> "idle", offer |-> NoOffer, from |-> "NONE", to |-> "NONE",
         code |-> NoSession, version |-> 0, todo |-> {}]

Init ==
    /\ meta = [status |-> "NONE", accepted |-> NoOffer, overdue |-> FALSE]
    /\ offer = [o \in Offers |-> "NONE"]
    /\ hold = [o \in Offers |-> "NONE"]
    /\ call = [c \in Invocations |-> Idle]
    /\ elsewhere = FALSE
    /\ CodeInit

Begin(c, memory) == call[c].op = "idle" /\ call' = [call EXCEPT ![c] = memory]
Finish(c) == call' = [call EXCEPT ![c] = Idle]

Winner == meta.accepted
OpenOffers == {o \in Offers : offer[o] = "OPEN"}

\* What the handlers of an accepted exchange check before they write: the
\* accepted offer and its allocation.
HoldIsOpen == Winner \in Offers /\ offer[Winner] = "ACCEPTED" /\ hold[Winner] = "OPEN"

-----------------------------------------------------------------------------
(* The request and its offers *)

\* The row of a new request.
build_meta_item == [status |-> "OPEN", accepted |-> NoOffer, overdue |-> FALSE]

\* The status of a new offer.
build_offer_item == "OPEN"

CreateRequest ==
    /\ meta.status = "NONE"
    /\ meta' = build_meta_item
    /\ UNCHANGED <<offer, hold, call, elsewhere, session, pointer>>

\* expires_at of an OPEN request, handover_expires_at of a held one.
DeadlinePasses ==
    /\ meta.status \in {"OPEN"} \cup HeldStatuses
    /\ ~meta.overdue
    /\ meta' = [meta EXCEPT !.overdue = TRUE]
    /\ UNCHANGED <<offer, hold, call, elsewhere, session, pointer>>

ReadToOffer(c) ==
    /\ meta.status = "OPEN"
    /\ Begin(c, [Idle EXCEPT !.op = "offer"])
    /\ UNCHANGED <<meta, offer, hold, elsewhere, session, pointer>>

\* The put asks only that the new row is not there.
PutOffer(c, o) ==
    /\ call[c].op = "offer"
    /\ offer[o] = "NONE"
    /\ offer' = [offer EXCEPT ![o] = build_offer_item]
    /\ Finish(c)
    /\ UNCHANGED <<meta, hold, elsewhere, session, pointer>>

\* reject_offer, and the expiry of an offer past its own deadline, ask META
\* before they write and write on condition of the offer alone.
ReadToClose(c, o, to) ==
    /\ meta.status = "OPEN"
    /\ offer[o] = "OPEN"
    /\ Begin(c, [Idle EXCEPT !.op = "close", !.offer = o, !.to = to])
    /\ UNCHANGED <<meta, offer, hold, elsewhere, session, pointer>>

\* [mutant] the offer is closed whatever became of it since it was read
CloseAnyOffer(c) ==
    /\ call[c].op = "close"
    /\ offer' = [offer EXCEPT ![call[c].offer] = call[c].to]
    /\ Finish(c)
    /\ UNCHANGED <<meta, hold, elsewhere, session, pointer>>

CloseOffer(c) ==
    /\ call[c].op = "close"
    /\ offer[call[c].offer] = "OPEN"
    /\ offer' = [offer EXCEPT ![call[c].offer] = call[c].to]
    /\ Finish(c)
    /\ UNCHANGED <<meta, hold, elsewhere, session, pointer>>

WithdrawOffer(o) ==
    /\ offer[o] = "OPEN"
    /\ offer' = [offer EXCEPT ![o] = "WITHDRAWN"]
    /\ UNCHANGED <<meta, hold, call, elsewhere, session, pointer>>

\* [mutant] the accept transaction leaves out the condition on META
AcceptableOffer(o) == offer[o] = "OPEN" /\ hold[o] = "NONE" /\ meta.status # "NONE"

\* The conditions of the accept transaction.
Acceptable(o) == meta.status = "OPEN" /\ offer[o] = "OPEN" /\ hold[o] = "NONE"

AcceptOffer(c, o) ==
    /\ Acceptable(o)
    /\ meta' = [status |-> "ACCEPTED", accepted |-> o, overdue |-> FALSE]
    /\ offer' = [offer EXCEPT ![o] = "ACCEPTED"]
    /\ hold' = [hold EXCEPT ![o] = "OPEN"]
    /\ Begin(c, [Idle EXCEPT !.op = "sweep", !.offer = o])
    /\ UNCHANGED <<elsewhere, session, pointer>>

\* The accept is retried: it answers from what is stored and sweeps again.
RetryAccept(c) ==
    /\ meta.status = "ACCEPTED"
    /\ Begin(c, [Idle EXCEPT !.op = "sweep", !.offer = Winner])
    /\ UNCHANGED <<meta, offer, hold, elsewhere, session, pointer>>

\* One sibling at a time; the sweep lists again until it finds none open.
Supersede(c, o) ==
    /\ call[c].op = "sweep"
    /\ o \in OpenOffers \ {call[c].offer}
    /\ offer' = [offer EXCEPT ![o] = "SUPERSEDED"]
    /\ UNCHANGED <<meta, hold, call, elsewhere, session, pointer>>

-----------------------------------------------------------------------------
(* The end of a request nobody has accepted *)

\* Cancelled by its organization, or expired by the worker or by any read.
EndOpen(c, to) ==
    /\ meta.status = "OPEN"
    /\ to = "EXPIRED" => meta.overdue
    /\ meta' = [meta EXCEPT !.status = to, !.overdue = FALSE]
    /\ Begin(c, [Idle EXCEPT !.op = "list", !.to = to])
    /\ UNCHANGED <<offer, hold, elsewhere, session, pointer>>

ListOffers(c) ==
    /\ call[c].op = "list"
    /\ call' = [call EXCEPT ![c].op = "clear", ![c].todo = OpenOffers]
    /\ UNCHANGED <<meta, offer, hold, elsewhere, session, pointer>>

ClearOffer(c, o) ==
    /\ call[c].op = "clear"
    /\ o \in call[c].todo
    /\ offer' = IF offer[o] = "OPEN" THEN [offer EXCEPT ![o] = call[c].to] ELSE offer
    /\ call' = [call EXCEPT ![c].todo = @ \ {o}]
    /\ UNCHANGED <<meta, hold, elsewhere, session, pointer>>

-----------------------------------------------------------------------------
(* The handover, and the end of an accepted request *)

StartTransfer ==
    /\ meta.status = "ACCEPTED"
    /\ HoldIsOpen
    /\ meta' = [meta EXCEPT !.status = "TRANSFER_PENDING"]
    /\ UNCHANGED <<offer, hold, call, elsewhere, session, pointer>>

\* [mutant] only a transfer that has not begun is ended
ReadAcceptedToEnd(c, to) ==
    /\ meta.status = "ACCEPTED"
    /\ HoldIsOpen
    /\ to = "EXPIRED" => meta.overdue
    /\ Begin(c, [Idle EXCEPT !.op = "end", !.from = meta.status, !.to = to, !.code = ActivePair])
    /\ UNCHANGED <<meta, offer, hold, elsewhere, session, pointer>>

ReadToEnd(c, to) ==
    /\ meta.status \in HeldStatuses
    /\ HoldIsOpen
    /\ to = "EXPIRED" => meta.overdue
    /\ Begin(c, [Idle EXCEPT !.op = "end", !.from = meta.status, !.to = to, !.code = ActivePair])
    /\ UNCHANGED <<meta, offer, hold, elsewhere, session, pointer>>

\* One transaction: META, the accepted offer, the hold and the code.
CommitEnd(c) ==
    /\ call[c].op = "end"
    /\ meta.status = call[c].from
    /\ HoldIsOpen
    /\ meta' = [meta EXCEPT !.status = call[c].to, !.overdue = FALSE]
    /\ offer' = [offer EXCEPT ![Winner] = call[c].to]
    /\ hold' = [hold EXCEPT ![Winner] = "RELEASED"]
    /\ RevokePair(call[c].code)
    /\ Finish(c)
    /\ UNCHANGED elsewhere

Complete ==
    /\ meta.status = "TRANSFER_PENDING"
    /\ HoldIsOpen
    /\ meta' = [meta EXCEPT !.status = "COMPLETED", !.overdue = FALSE]
    /\ hold' = [hold EXCEPT ![Winner] = "COMPLETED"]
    /\ UNCHANGED <<offer, elsewhere>>

\* confirm_handover without a code; a retry of a completed one writes nothing.
ReadToConfirm(c) ==
    /\ meta.status = "TRANSFER_PENDING"
    /\ HoldIsOpen
    /\ Begin(c, [Idle EXCEPT !.op = "confirm", !.code = ActivePair])
    /\ UNCHANGED <<meta, offer, hold, elsewhere, session, pointer>>

CommitConfirm(c) ==
    /\ call[c].op = "confirm"
    /\ Complete
    /\ RevokePair(call[c].code)
    /\ Finish(c)

\* confirm_qr: the handover transaction with the session consumed in it.
ConfirmByCode(s) ==
    /\ Complete
    /\ Terminal(s, "CONSUMED")
    /\ UNCHANGED call

ReadToIssue(c) ==
    /\ meta.status = "TRANSFER_PENDING"
    /\ ~meta.overdue
    /\ HoldIsOpen
    /\ pointer.version < IssueCap
    /\ Begin(c, [Idle EXCEPT !.op = "issue", !.code = ActivePair, !.version = pointer.version])
    /\ UNCHANGED <<meta, offer, hold, elsewhere, session, pointer>>

\* No condition on META: the exchange may have ended since it was read.
IssueCode(c, s) ==
    /\ call[c].op = "issue"
    /\ Mint(call[c].code, call[c].version, s)
    /\ Finish(c)
    /\ UNCHANGED <<meta, offer, hold, elsewhere>>

\* preview_qr and confirm_qr of a code after its time.
PresentLapsed(s) ==
    /\ MarkExpired(s)
    /\ UNCHANGED <<meta, offer, hold, call, elsewhere>>

GiveUp(c) ==
    /\ call[c].op # "idle"
    /\ Finish(c)
    /\ UNCHANGED <<meta, offer, hold, elsewhere, session, pointer>>

-----------------------------------------------------------------------------

\* A client's expires_at is stored as it is sent: one that does not parse may
\* be put into another exchange, or its row there may be closed.  A request
\* that carries one is such a row for good: no handler can read it.
StoreOrCloseElsewhere ==
    /\ elsewhere' = ~elsewhere
    /\ UNCHANGED <<meta, offer, hold, call, session, pointer>>

ExpireOpenOffer(c, o) == ReadToClose(c, o, "EXPIRED")

\* Every read of META but those for a response goes through _get_meta, which
\* ends a request that is due; offers past their own time wait for the worker.
apply_lazy_expiry(c) == EndOpen(c, "EXPIRED") \/ ReadToEnd(c, "EXPIRED")

GetMeta(c) == apply_lazy_expiry(c)

\* A run goes through the due rows in the order of their texts.  A row whose
\* expires_at does not parse raises and ends the run, every hour again, before
\* the rows that sort after it.
Jammed == elsewhere \/ OpenOffers \cap Malformed # {}

\* Of the rows that come before one that raises, the run takes up any.
run_expiry ==
    \/ EndOpen(Worker, "EXPIRED")
    \/ ReadToEnd(Worker, "EXPIRED")
    \/ \E o \in Offers \ Malformed : ExpireOpenOffer(Worker, o)

Write(c) ==
    \/ CloseOffer(c)
    \/ ListOffers(c)
    \/ \E o \in Offers : ClearOffer(c, o)
    \/ CommitEnd(c)

Handle(c) ==
    \/ ReadToOffer(c)
    \/ \E o \in Offers :
        \/ PutOffer(c, o)
        \/ ReadToClose(c, o, "REJECTED")
        \/ AcceptOffer(c, o)
        \/ Supersede(c, o)
    \/ RetryAccept(c)
    \/ EndOpen(c, "CANCELLED")
    \/ ReadToEnd(c, "CANCELLED")
    \/ ReadToConfirm(c)
    \/ CommitConfirm(c)
    \/ ReadToIssue(c)
    \/ \E s \in Sessions : IssueCode(c, s)

Next ==
    \/ CreateRequest
    \/ DeadlinePasses
    \/ StartTransfer
    \/ \E o \in Offers : WithdrawOffer(o)
    \/ \E s \in Sessions : ConfirmByCode(s) \/ PresentLapsed(s)
    \/ \E c \in Calls : Handle(c) \/ GetMeta(c)
    \/ run_expiry
    \/ StoreOrCloseElsewhere
    \/ \E c \in Invocations : Write(c) \/ GiveUp(c)

Spec == Init /\ [][Next]_vars

\* The worker runs every hour and, once no malformed row jams it, takes up every
\* row that is due in each run and ends each; a write of it that is possible is
\* not cut off every time.  Nobody else has to act.
Fairness ==
    /\ <>[]~Jammed => SF_vars(EndOpen(Worker, "EXPIRED") \/ ReadToEnd(Worker, "EXPIRED"))
    /\ WF_vars(Write(Worker) \/ GiveUp(Worker))
    /\ SF_vars(CommitEnd(Worker))

FairSpec == Spec /\ Fairness

-----------------------------------------------------------------------------
(* Properties *)

TypeOK ==
    /\ meta \in Metas
    /\ offer \in [Offers -> OfferStatuses]
    /\ hold \in [Offers -> HoldStatuses]
    /\ call \in [Invocations -> Memories]
    /\ elsewhere \in BOOLEAN
    /\ session \in [Sessions -> SessionStatuses]
    /\ pointer \in Pointers

\* The hold of an exchange is that of its accepted offer and lasts exactly as
\* long as the exchange is held: no other offer, late or accepted at the same
\* moment, ever gets an allocation (accept_offer, _cancel_with_hold_release).
HoldFollowsRequest ==
    \A o \in Offers :
        /\ hold[o] # "NONE" <=> Winner = o
        /\ hold[o] = "OPEN" <=> Winner = o /\ meta.status \in HeldStatuses
        /\ hold[o] = "COMPLETED" <=> Winner = o /\ meta.status = "COMPLETED"

\* An offer counts as accepted as long as the exchange it won stands, ends as
\* the exchange ends, and no losing offer ever shows as accepted, however
\* reject, withdraw, expiry and the sweep overlap with the accept.
OfferFollowsRequest ==
    \A o \in Offers :
        /\ Winner = o => offer[o] = IF meta.status \in EndStatuses THEN meta.status ELSE "ACCEPTED"
        /\ Winner # o => offer[o] # "ACCEPTED"

\* At most one code is active, it is the one the pointer names, and a code
\* that was used to hand over ended the exchange (issue_qr racing issue_qr,
\* cancel, expiry, preview and a manual handover).
OneCode ==
    /\ \A s \in Sessions : session[s] = "ACTIVE" => ActivePair = s
    /\ \A s \in Sessions : session[s] = "CONSUMED" =>
           meta.status = "COMPLETED" /\ pointer.session = s /\ pointer.status # "ACTIVE"

\* The deal the rows stand for, told from the holds rather than from META.
Deal ==
    CASE \E o \in Offers : hold[o] = "OPEN" -> "won"
      [] \E o \in Offers : hold[o] = "COMPLETED" -> "passed"
      [] OTHER -> CASE meta.status = "NONE" -> "none"
                    [] meta.status = "OPEN" -> "open"
                    [] OTHER -> "off"
HeldOffers == {o \in Offers : hold[o] # "NONE"}
UsedCodes == {s \in Sessions : session[s] = "CONSUMED"}
DealWinner == IF HeldOffers = {} THEN NoOffer ELSE CHOOSE o \in HeldOffers : TRUE
DealCode == IF Deal = "won" THEN ActivePair ELSE NoSession
DealUsed == IF UsedCodes = {} THEN NoSession ELSE CHOOSE s \in UsedCodes : TRUE
DealSpent == {s \in Sessions : session[s] \in {"REVOKED", "EXPIRED"}}

D == INSTANCE HandoverDeal WITH
        deal <- Deal, winner <- DealWinner, code <- DealCode, used <- DealUsed,
        spent <- DealSpent

\* The exchange with its codes implements HandoverDeal: one winner, one
\* handover, and never by a code that was rotated, revoked or marked expired.
ImplementsDeal == D!Spec

\* A request past its deadline ends, or is accepted at the last moment and gets
\* a new one; a held one ends although every code that is issued makes one
\* transaction of the worker fail: issue_qr stops when the deadline has passed.
\* Only a malformed row, of this exchange or of another, keeps it waiting.
OverdueRequestEnds == meta.overdue ~> ~meta.overdue \/ Jammed
=============================================================================
