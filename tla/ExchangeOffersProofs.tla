------------------------ MODULE ExchangeOffersProofs ------------------------
(* Theorems about ExchangeOffers, for any number of offers, codes and       *)
(* overlapping calls.                                                       *)
EXTENDS ExchangeOffers, TLAPS

-----------------------------------------------------------------------------
(* The parts of the inductive invariant                                    *)

\* An offer has won exactly while META is past OPEN and was not closed before.
WinnerKnown ==
    /\ meta.status \in {"NONE", "OPEN"} => Winner = NoOffer
    /\ meta.status \in HeldStatuses \cup {"COMPLETED"} => Winner \in Offers

\* A call about to end a held exchange knows which end it writes.
EndKnows(m) == m.op = "end" => m.from \in HeldStatuses /\ m.to \in EndStatuses

\* While the pointer has the version that a call about to issue has read, that
\* call knows of every active code, and of the code that was used if one was.
IssueKnows(m) ==
    /\ m.version <= pointer.version
    /\ m.version = pointer.version =>
           /\ \A t \in Sessions : session[t] = "ACTIVE" => t = m.code
           /\ (\E t \in Sessions : session[t] = "CONSUMED") =>
                  m.code \in Sessions /\ session[m.code] # "ACTIVE"

CallsKnow == \A c \in Invocations :
    /\ EndKnows(call[c])
    /\ call[c].op = "issue" => IssueKnows(call[c])

ExchangeInv ==
    /\ TypeOK
    /\ HoldFollowsRequest
    /\ OfferFollowsRequest
    /\ WinnerKnown
    /\ OneCode
    /\ CallsKnow

-----------------------------------------------------------------------------
(* What a step does to the rows                                            *)

\* An offer that has not won comes, is closed or goes.
OfferMoves == \E o \in Offers, new \in OfferStatuses \ {"ACCEPTED"} :
    /\ offer[o] \in {"NONE", "OPEN"}
    /\ offer' = [offer EXCEPT ![o] = new]

\* Nothing that concerns the hold or a code: a deadline passes, a transfer
\* starts, an offer moves, a call reads.
QuietStep ==
    /\ UNCHANGED <<hold, session, pointer>>
    /\ meta' \in Metas /\ meta'.accepted = meta.accepted
    /\ \/ meta'.status = meta.status
       \/ meta.status = "ACCEPTED" /\ meta'.status = "TRANSFER_PENDING"
    /\ UNCHANGED offer \/ OfferMoves

OpenStep ==
    /\ meta.status = "NONE" /\ meta' = build_meta_item
    /\ UNCHANGED <<offer, hold, session, pointer>>

AwardStep(o) ==
    /\ Acceptable(o)
    /\ meta' = [status |-> "ACCEPTED", accepted |-> o, overdue |-> FALSE]
    /\ offer' = [offer EXCEPT ![o] = "ACCEPTED"]
    /\ hold' = [hold EXCEPT ![o] = "OPEN"]
    /\ UNCHANGED <<session, pointer>>

CloseStep(to) ==
    /\ meta.status = "OPEN"
    /\ meta' = [meta EXCEPT !.status = to, !.overdue = FALSE]
    /\ UNCHANGED <<offer, hold, session, pointer>>

EndStep(to, s) ==
    /\ meta.status \in HeldStatuses /\ HoldIsOpen
    /\ meta' = [meta EXCEPT !.status = to, !.overdue = FALSE]
    /\ offer' = [offer EXCEPT ![Winner] = to]
    /\ hold' = [hold EXCEPT ![Winner] = "RELEASED"]
    /\ RevokePair(s)

PassStep(s) == Complete /\ RevokePair(s)

UseStep(s) == Complete /\ Terminal(s, "CONSUMED")

\* A code is put by a call that read the rows earlier, and the call is over.
IssueStep(c, s) ==
    /\ call[c].op = "issue"
    /\ Mint(call[c].code, call[c].version, s)
    /\ Finish(c)
    /\ UNCHANGED <<meta, offer, hold>>

LapseStep(s) == MarkExpired(s) /\ UNCHANGED <<meta, offer, hold>>

RowStep ==
    \/ QuietStep
    \/ OpenStep
    \/ \E o \in Offers : AwardStep(o)
    \/ \E to \in EndStatuses : CloseStep(to)
    \/ \E to \in EndStatuses, s \in Sessions \cup {NoSession} : EndStep(to, s)
    \/ \E s \in Sessions \cup {NoSession} : PassStep(s)
    \/ \E s \in Sessions : UseStep(s)
    \/ \E c \in Invocations, s \in Sessions : IssueStep(c, s)
    \/ \E s \in Sessions : LapseStep(s)

\* What a call that reads the codes remembers.
JustRead(m) ==
    /\ m.version = pointer.version /\ m.code = ActivePair
    /\ meta.status = "TRANSFER_PENDING"
    /\ UNCHANGED codeVars

\* At most one call changes, to a memory of its type.
CallStep ==
    \/ UNCHANGED call
    \/ \E c \in Invocations, m \in Memories :
        /\ call' = [call EXCEPT ![c] = m]
        /\ EndKnows(m)
        /\ m.op = "issue" => JustRead(m)

-----------------------------------------------------------------------------
(* Every action is such a step                                             *)

LEMMA IdleTyped == Idle \in Memories /\ Idle.op = "idle"
  BY CapAssumption DEF Idle, Memories

LEMMA IdleStep ==
    ASSUME NEW c \in Invocations, Finish(c)
    PROVE  CallStep
  BY IdleTyped DEF CallStep, Finish, EndKnows

\* A memory that is neither about an ending nor about a code.
LEMMA PlainStep ==
    ASSUME NEW c \in Invocations, NEW m \in Memories, Begin(c, m), m.op \notin {"end", "issue"}
    PROVE  CallStep
  BY DEF CallStep, Begin, EndKnows

LEMMA PairTyped ==
    ASSUME TypeOK
    PROVE  ActivePair \in Sessions \cup {NoSession}
  BY DEF ActivePair, TypeOK, Pointers

\* A row that is left as it is, or changes only its deadline.
LEMMA SameRows ==
    ASSUME TypeOK, UNCHANGED <<meta, offer, hold, session, pointer>>
    PROVE  RowStep
  <1>1. QuietStep
    BY DEF QuietStep, TypeOK
  <1> QED
    BY <1>1 DEF RowStep

LEMMA OfferStep ==
    ASSUME TypeOK, OfferMoves, UNCHANGED <<meta, hold, session, pointer>>
    PROVE  RowStep
  <1>1. QuietStep
    BY DEF QuietStep, TypeOK
  <1> QED
    BY <1>1 DEF RowStep

LEMMA SingleKinds ==
    ASSUME ExchangeInv,
           \/ CreateRequest \/ DeadlinePasses \/ StartTransfer
           \/ \E o \in Offers : WithdrawOffer(o)
           \/ \E s \in Sessions : ConfirmByCode(s) \/ PresentLapsed(s)
    PROVE  RowStep /\ CallStep
  <1>1. UNCHANGED call
    BY DEF CreateRequest, DeadlinePasses, StartTransfer, WithdrawOffer, ConfirmByCode, PresentLapsed
  <1>2. meta \in Metas
    BY DEF ExchangeInv, TypeOK
  <1>3. CASE CreateRequest
    <2>1. OpenStep
      BY <1>3 DEF CreateRequest, OpenStep
    <2> QED
      BY <1>1, <2>1 DEF RowStep, CallStep
  <1>4. CASE DeadlinePasses
    <2>1. meta' \in Metas /\ meta'.status = meta.status /\ meta'.accepted = meta.accepted
      BY <1>2, <1>4 DEF DeadlinePasses, Metas
    <2>2. QuietStep
      BY <1>4, <2>1 DEF DeadlinePasses, QuietStep
    <2> QED
      BY <1>1, <2>2 DEF RowStep, CallStep
  <1>5. CASE StartTransfer
    <2>1. meta' \in Metas /\ meta'.status = "TRANSFER_PENDING" /\ meta'.accepted = meta.accepted
      BY <1>2, <1>5 DEF StartTransfer, Metas, HeldStatuses
    <2>2. QuietStep
      BY <1>5, <2>1 DEF StartTransfer, QuietStep
    <2> QED
      BY <1>1, <2>2 DEF RowStep, CallStep
  <1>6. ASSUME NEW o \in Offers, WithdrawOffer(o) PROVE RowStep
    <2>1. OfferMoves
      BY <1>6 DEF WithdrawOffer, OfferMoves, OfferStatuses
    <2> QED
      BY <1>6, <2>1, OfferStep DEF WithdrawOffer, ExchangeInv
  <1>7. ASSUME NEW s \in Sessions, ConfirmByCode(s) \/ PresentLapsed(s) PROVE RowStep
    BY <1>7 DEF ConfirmByCode, UseStep, PresentLapsed, LapseStep, RowStep
  <1> QED
    BY <1>1, <1>3, <1>4, <1>5, <1>6, <1>7 DEF CallStep

LEMMA OfferKinds ==
    ASSUME ExchangeInv, NEW c \in Invocations, NEW o \in Offers,
           PutOffer(c, o) \/ AcceptOffer(c, o) \/ Supersede(c, o) \/ ClearOffer(c, o) \/ CloseOffer(c)
    PROVE  RowStep /\ CallStep
  <1>1. call \in [Invocations -> Memories] /\ call[c] \in Memories
    BY DEF ExchangeInv, TypeOK
  <1>2. CASE PutOffer(c, o)
    <2>1. OfferMoves
      BY <1>2 DEF PutOffer, OfferMoves, OfferStatuses, build_offer_item
    <2> QED
      BY <1>2, <2>1, OfferStep, IdleStep DEF PutOffer, ExchangeInv
  <1>3. CASE AcceptOffer(c, o)
    <2> DEFINE m == [Idle EXCEPT !.op = "sweep", !.offer = o]
    <2>1. Begin(c, m)
      BY <1>3 DEF AcceptOffer
    <2>2. m \in Memories
      BY IdleTyped DEF Memories
    <2>3. m.op = "sweep"
      BY <1>3 DEF AcceptOffer, Idle
    <2> HIDE DEF m
    <2>4. CallStep
      BY <2>1, <2>2, <2>3, PlainStep
    <2>5. AwardStep(o)
      BY <1>3 DEF AcceptOffer, AwardStep, codeVars
    <2> QED
      BY <2>4, <2>5 DEF RowStep
  <1>4. CASE Supersede(c, o)
    <2>1. OfferMoves
      BY <1>4 DEF Supersede, OpenOffers, OfferMoves, OfferStatuses
    <2> QED
      BY <1>4, <2>1, OfferStep DEF Supersede, ExchangeInv, CallStep
  <1>5. CASE ClearOffer(c, o)
    <2> DEFINE m == [call[c] EXCEPT !.todo = @ \ {o}]
    <2>1. m \in Memories /\ m.op = "clear"
      BY <1>1, <1>5 DEF ClearOffer, Memories
    <2>2. call' = [call EXCEPT ![c] = m]
      BY <1>1, <1>5 DEF ClearOffer
    <2> HIDE DEF m
    <2>3. CallStep
      BY <2>1, <2>2 DEF CallStep, EndKnows
    <2>4. call[c].to \in OfferStatuses \ {"ACCEPTED"}
      BY <1>1 DEF Memories, OfferStatuses, EndStatuses
    <2>5. OfferMoves \/ UNCHANGED offer
      BY <1>5, <2>4 DEF ClearOffer, OfferMoves
    <2> QED
      BY <1>5, <2>3, <2>5, OfferStep, SameRows DEF ClearOffer, ExchangeInv
  <1>6. CASE CloseOffer(c)
    <2>1. call[c].to \in OfferStatuses \ {"ACCEPTED"}
      BY <1>1 DEF Memories, OfferStatuses, EndStatuses
    <2>2. OfferMoves \/ UNCHANGED offer
      <3>1. CASE call[c].offer \in Offers
        BY <1>6, <2>1, <3>1 DEF CloseOffer, OfferMoves
      <3>2. CASE call[c].offer \notin Offers
        <4>1. offer \in [Offers -> OfferStatuses]
          BY DEF ExchangeInv, TypeOK
        <4> QED
          BY <1>6, <3>2, <4>1 DEF CloseOffer
      <3> QED
        BY <3>1, <3>2
    <2> QED
      BY <1>6, <2>2, OfferStep, SameRows, IdleStep DEF CloseOffer, ExchangeInv
  <1> QED
    BY <1>2, <1>3, <1>4, <1>5, <1>6

LEMMA ReadKinds ==
    ASSUME ExchangeInv, NEW c \in Invocations,
           \/ ReadToOffer(c) \/ RetryAccept(c) \/ ReadToConfirm(c) \/ ReadToIssue(c) \/ ListOffers(c)
           \/ GiveUp(c)
           \/ \E o \in Offers, to \in {"REJECTED", "EXPIRED"} : ReadToClose(c, o, to)
           \/ \E to \in EndStatuses : ReadToEnd(c, to)
    PROVE  RowStep /\ CallStep
  <1>1. RowStep
    BY SameRows DEF ExchangeInv, ReadToOffer, RetryAccept, ReadToConfirm, ReadToIssue, ListOffers, GiveUp,
       ReadToClose, ReadToEnd
  <1>2. /\ call \in [Invocations -> Memories] /\ call[c] \in Memories
        /\ ActivePair \in Sessions \cup {NoSession} /\ Winner \in Offers \cup {NoOffer}
        /\ pointer.version \in 0..IssueCap
    BY PairTyped DEF ExchangeInv, TypeOK, Metas, Winner, Pointers
  <1>3. CASE ReadToOffer(c)
    <2> DEFINE m == [Idle EXCEPT !.op = "offer"]
    <2>1. Begin(c, m)
      BY <1>3 DEF ReadToOffer
    <2>2. m \in Memories
      BY IdleTyped DEF Memories
    <2>3. m.op = "offer"
      BY <1>3 DEF ReadToOffer, Idle
    <2> HIDE DEF m
    <2> QED
      BY <1>1, <2>1, <2>2, <2>3, PlainStep
  <1>4. CASE RetryAccept(c)
    <2> DEFINE m == [Idle EXCEPT !.op = "sweep", !.offer = Winner]
    <2>1. Begin(c, m)
      BY <1>4 DEF RetryAccept
    <2>2. m \in Memories
      BY <1>2, IdleTyped DEF Memories
    <2>3. m.op = "sweep"
      BY <1>4 DEF RetryAccept, Idle
    <2> HIDE DEF m
    <2> QED
      BY <1>1, <2>1, <2>2, <2>3, PlainStep
  <1>5. CASE ReadToConfirm(c)
    <2> DEFINE m == [Idle EXCEPT !.op = "confirm", !.code = ActivePair]
    <2>1. Begin(c, m)
      BY <1>5 DEF ReadToConfirm
    <2>2. m \in Memories
      BY <1>2, IdleTyped DEF Memories
    <2>3. m.op = "confirm"
      BY <1>5 DEF ReadToConfirm, Idle
    <2> HIDE DEF m
    <2> QED
      BY <1>1, <2>1, <2>2, <2>3, PlainStep
  <1>6. CASE ReadToIssue(c)
    <2> DEFINE m == [Idle EXCEPT !.op = "issue", !.code = ActivePair, !.version = pointer.version]
    <2>1. Begin(c, m)
      BY <1>6 DEF ReadToIssue
    <2>2. m \in Memories
      BY <1>2, IdleTyped DEF Memories
    <2>3. m.op = "issue"
          /\ m.code = ActivePair /\ m.version = pointer.version
      BY <1>6 DEF ReadToIssue, Idle
    <2> HIDE DEF m
    <2>4. JustRead(m)
      BY <1>6, <2>3 DEF ReadToIssue, JustRead, codeVars
    <2> QED
      BY <1>1, <2>1, <2>2, <2>3, <2>4 DEF CallStep, Begin, EndKnows
  <1>7. CASE ListOffers(c)
    <2> DEFINE m == [call[c] EXCEPT !.op = "clear", !.todo = OpenOffers]
    <2>1. m \in Memories /\ m.op = "clear"
      BY <1>2 DEF Memories, OpenOffers
    <2>2. call' = [call EXCEPT ![c] = m]
      BY <1>2, <1>7 DEF ListOffers
    <2> HIDE DEF m
    <2> QED
      BY <1>1, <2>1, <2>2 DEF CallStep, EndKnows
  <1>8. CASE GiveUp(c)
    BY <1>1, <1>8, IdleStep DEF GiveUp
  <1>9. ASSUME NEW o \in Offers, NEW to \in {"REJECTED", "EXPIRED"}, ReadToClose(c, o, to)
        PROVE  CallStep
    <2> DEFINE m == [Idle EXCEPT !.op = "close", !.offer = o, !.to = to]
    <2>1. Begin(c, m)
      BY <1>9 DEF ReadToClose
    <2>2. m \in Memories
      BY IdleTyped DEF Memories, EndStatuses
    <2>3. m.op = "close"
      BY <1>9 DEF ReadToClose, Idle
    <2> HIDE DEF m
    <2> QED
      BY <2>1, <2>2, <2>3, PlainStep
  <1>10. ASSUME NEW to \in EndStatuses, ReadToEnd(c, to) PROVE CallStep
    <2> DEFINE m == [Idle EXCEPT !.op = "end", !.from = meta.status, !.to = to, !.code = ActivePair]
    <2>1. Begin(c, m)
      BY <1>10 DEF ReadToEnd
    <2>2. m \in Memories
      <3>1. meta.status \in HeldStatuses
        BY <1>10 DEF ReadToEnd
      <3> QED
        BY <1>2, <3>1, IdleTyped DEF Memories
    <2>3. m.op = "end" /\ m.from \in HeldStatuses /\ m.to = to
      BY <1>10 DEF ReadToEnd, Idle
    <2> HIDE DEF m
    <2> QED
      BY <2>1, <2>2, <2>3 DEF CallStep, Begin, EndKnows
  <1> QED
    BY <1>1, <1>3, <1>4, <1>5, <1>6, <1>7, <1>8, <1>9, <1>10

LEMMA WriteKinds ==
    ASSUME ExchangeInv, NEW c \in Invocations,
           \/ CommitEnd(c) \/ CommitConfirm(c)
           \/ \E to \in EndStatuses : EndOpen(c, to)
           \/ \E s \in Sessions : IssueCode(c, s)
    PROVE  RowStep /\ CallStep
  <1>1. call[c] \in Memories /\ call[c].code \in Sessions \cup {NoSession}
    BY DEF ExchangeInv, TypeOK, Memories
  <1>2. CASE CommitEnd(c)
    <2>1. call[c].from \in HeldStatuses /\ call[c].to \in EndStatuses
      BY <1>2 DEF CommitEnd, ExchangeInv, CallsKnow, EndKnows
    <2>2. EndStep(call[c].to, call[c].code)
      BY <1>2, <2>1 DEF CommitEnd, EndStep
    <2>3. RowStep
      BY <1>1, <2>1, <2>2 DEF RowStep
    <2> QED
      BY <1>2, <2>3, IdleStep DEF CommitEnd
  <1>3. CASE CommitConfirm(c)
    BY <1>1, <1>3, IdleStep DEF CommitConfirm, PassStep, RowStep
  <1>4. ASSUME NEW to \in EndStatuses, EndOpen(c, to) PROVE RowStep /\ CallStep
    <2> DEFINE m == [Idle EXCEPT !.op = "list", !.to = to]
    <2>1. Begin(c, m)
      BY <1>4 DEF EndOpen
    <2>2. m \in Memories
      BY IdleTyped DEF Memories
    <2>3. m.op = "list"
      BY <1>4 DEF EndOpen, Idle
    <2> HIDE DEF m
    <2>4. CallStep
      BY <2>1, <2>2, <2>3, PlainStep
    <2>5. CloseStep(to)
      BY <1>4 DEF EndOpen, CloseStep
    <2> QED
      BY <2>4, <2>5 DEF RowStep
  <1>5. ASSUME NEW s \in Sessions, IssueCode(c, s) PROVE RowStep /\ CallStep
    <2>1. IssueStep(c, s)
      BY <1>5 DEF IssueCode, IssueStep
    <2> QED
      BY <1>5, <2>1, IdleStep DEF IssueCode, RowStep
  <1> QED
    BY <1>2, <1>3, <1>4, <1>5

LEMMA StepKinds ==
    ASSUME ExchangeInv, [Next]_vars
    PROVE  RowStep /\ CallStep
  <1>1. CASE UNCHANGED vars
    BY <1>1, SameRows DEF vars, ExchangeInv, CallStep
  <1>2. CASE CreateRequest \/ DeadlinePasses \/ StartTransfer
             \/ (\E o \in Offers : WithdrawOffer(o))
             \/ (\E s \in Sessions : ConfirmByCode(s) \/ PresentLapsed(s))
    BY <1>2, SingleKinds
  <1>3. ASSUME NEW c \in Calls, Handle(c) PROVE RowStep /\ CallStep
    <2>1. c \in Invocations
      BY DEF Invocations
    <2>2. CASE \E o \in Offers : PutOffer(c, o) \/ AcceptOffer(c, o) \/ Supersede(c, o)
      BY <2>1, <2>2, OfferKinds
    <2>3. CASE EndOpen(c, "CANCELLED") \/ CommitConfirm(c) \/ \E s \in Sessions : IssueCode(c, s)
      BY <2>1, <2>3, WriteKinds DEF EndStatuses
    <2>4. CASE ReadToOffer(c) \/ RetryAccept(c) \/ ReadToConfirm(c) \/ ReadToIssue(c)
               \/ ReadToEnd(c, "CANCELLED") \/ \E o \in Offers : ReadToClose(c, o, "REJECTED")
      BY <2>1, <2>4, ReadKinds DEF EndStatuses
    <2> QED
      BY <1>3, <2>2, <2>3, <2>4 DEF Handle
  <1>4. ASSUME NEW c \in Invocations, EndOpen(c, "EXPIRED") \/ ReadToEnd(c, "EXPIRED")
        PROVE  RowStep /\ CallStep
    BY <1>4, WriteKinds, ReadKinds DEF EndStatuses
  <1>5. ASSUME NEW c \in Calls, GetMeta(c) PROVE RowStep /\ CallStep
    BY <1>4, <1>5 DEF GetMeta, apply_lazy_expiry, Invocations
  <1>6. CASE run_expiry
    <2>1. Worker \in Invocations
      BY DEF Invocations
    <2>2. CASE \E o \in Offers : ExpireOpenOffer(Worker, o)
      BY <2>1, <2>2, ReadKinds DEF ExpireOpenOffer
    <2> QED
      BY <1>4, <1>6, <2>1, <2>2 DEF run_expiry
  <1>7. ASSUME NEW c \in Invocations, Write(c) \/ GiveUp(c) PROVE RowStep /\ CallStep
    <2>1. CASE CloseOffer(c)
      <3>1. CASE Offers = {}
        <4>1. UNCHANGED offer
          BY <2>1, <3>1 DEF CloseOffer, ExchangeInv, TypeOK
        <4> QED
          BY <2>1, <4>1, SameRows, IdleStep DEF CloseOffer, ExchangeInv
      <3> QED
        BY <2>1, <3>1, OfferKinds
    <2>2. CASE \E o \in Offers : ClearOffer(c, o)
      BY <2>2, OfferKinds
    <2>3. CASE CommitEnd(c)
      BY <2>3, WriteKinds
    <2>4. CASE ListOffers(c) \/ GiveUp(c)
      BY <2>4, ReadKinds
    <2> QED
      BY <1>7, <2>1, <2>2, <2>3, <2>4 DEF Write
  <1>8. CASE StoreOrCloseElsewhere
    BY <1>8, SameRows DEF StoreOrCloseElsewhere, ExchangeInv, CallStep
  <1> QED
    BY <1>1, <1>2, <1>3, <1>5, <1>6, <1>7, <1>8 DEF Next

-----------------------------------------------------------------------------
(* The rows of the request, its offers and its hold                        *)

\* The rows that tell who has won.
Rows ==
    /\ meta \in Metas
    /\ offer \in [Offers -> OfferStatuses]
    /\ hold \in [Offers -> HoldStatuses]
    /\ HoldFollowsRequest
    /\ OfferFollowsRequest
    /\ WinnerKnown

LEMMA StatusesApart ==
    /\ \A st \in HeldStatuses : st \in {"ACCEPTED", "TRANSFER_PENDING"}
    /\ \A st \in EndStatuses : st \in {"CANCELLED", "EXPIRED"}
  BY DEF HeldStatuses, EndStatuses

LEMMA QuietRows ==
    ASSUME Rows, QuietStep
    PROVE  Rows'
  <1>1. meta' \in Metas /\ Winner' = Winner /\ hold' = hold
    BY DEF QuietStep, Winner
  <1>2. /\ meta'.status \in HeldStatuses <=> meta.status \in HeldStatuses
        /\ meta'.status \in EndStatuses <=> meta.status \in EndStatuses
        /\ meta'.status \in EndStatuses => meta'.status = meta.status
        /\ meta'.status = "COMPLETED" <=> meta.status = "COMPLETED"
        /\ meta'.status \in {"NONE", "OPEN"} <=> meta.status \in {"NONE", "OPEN"}
    BY DEF QuietStep, HeldStatuses, EndStatuses
  <1>3. /\ offer' \in [Offers -> OfferStatuses]
        /\ \A o \in Offers : \/ offer'[o] = offer[o]
                             \/ offer[o] \in {"NONE", "OPEN"} /\ offer'[o] # "ACCEPTED"
    <2>1. CASE UNCHANGED offer
      BY <2>1 DEF Rows
    <2>2. CASE OfferMoves
      <3>1. PICK o \in Offers, new \in OfferStatuses \ {"ACCEPTED"} :
                /\ offer[o] \in {"NONE", "OPEN"}
                /\ offer' = [offer EXCEPT ![o] = new]
        BY <2>2 DEF OfferMoves
      <3> QED
        BY <3>1 DEF Rows
    <2> QED
      BY <2>1, <2>2 DEF QuietStep
  <1>4. HoldFollowsRequest'
    BY <1>1, <1>2 DEF Rows, HoldFollowsRequest
  <1>5. OfferFollowsRequest'
    <2> SUFFICES ASSUME NEW o \in Offers
                 PROVE  /\ Winner' = o => offer'[o] = IF meta'.status \in EndStatuses
                                                     THEN meta'.status ELSE "ACCEPTED"
                        /\ Winner' # o => offer'[o] # "ACCEPTED"
      BY DEF OfferFollowsRequest
    <2>1. CASE Winner = o
      <3>1. offer[o] = IF meta.status \in EndStatuses THEN meta.status ELSE "ACCEPTED"
        BY <2>1 DEF Rows, OfferFollowsRequest
      <3>2. offer[o] \notin {"NONE", "OPEN"}
        BY <3>1 DEF EndStatuses
      <3> QED
        BY <1>1, <1>2, <1>3, <2>1, <3>1, <3>2
    <2>2. CASE Winner # o
      BY <1>1, <1>3, <2>2 DEF Rows, OfferFollowsRequest
    <2> QED
      BY <2>1, <2>2
  <1>6. WinnerKnown'
    BY <1>1, <1>2 DEF Rows, WinnerKnown
  <1> QED
    BY <1>1, <1>3, <1>4, <1>5, <1>6 DEF Rows

LEMMA OpenRows ==
    ASSUME Rows, OpenStep
    PROVE  Rows'
  <1>1. Winner = NoOffer /\ Winner' = NoOffer /\ meta.status = "NONE" /\ meta'.status = "OPEN"
    BY DEF Rows, OpenStep, WinnerKnown, Winner, build_meta_item
  <1>2. meta' \in Metas
    BY DEF OpenStep, Metas, build_meta_item
  <1> QED
    BY <1>1, <1>2, NoOfferAssumption
    DEF Rows, OpenStep, HoldFollowsRequest, OfferFollowsRequest, WinnerKnown, HeldStatuses, EndStatuses

LEMMA AwardRows ==
    ASSUME Rows, NEW o \in Offers, AwardStep(o)
    PROVE  Rows'
  <1>1. Winner = NoOffer /\ Winner' = o /\ meta.status = "OPEN" /\ meta'.status = "ACCEPTED"
    BY DEF Rows, AwardStep, Acceptable, WinnerKnown, Winner
  <1>2. meta' \in Metas
    BY DEF AwardStep, Metas, HeldStatuses
  <1>3. /\ offer' \in [Offers -> OfferStatuses] /\ hold' \in [Offers -> HoldStatuses]
        /\ offer'[o] = "ACCEPTED" /\ hold'[o] = "OPEN"
        /\ \A p \in Offers \ {o} : offer'[p] = offer[p] /\ hold'[p] = hold[p]
    BY DEF Rows, AwardStep, OfferStatuses, HoldStatuses
  <1>4. HoldFollowsRequest'
    BY <1>1, <1>3, NoOfferAssumption DEF Rows, HoldFollowsRequest, HeldStatuses
  <1>5. OfferFollowsRequest'
    BY <1>1, <1>3, NoOfferAssumption DEF Rows, OfferFollowsRequest, EndStatuses
  <1>6. WinnerKnown'
    BY <1>1 DEF WinnerKnown
  <1> QED
    BY <1>2, <1>3, <1>4, <1>5, <1>6 DEF Rows

LEMMA CloseRows ==
    ASSUME Rows, NEW to \in EndStatuses, CloseStep(to)
    PROVE  Rows'
  <1>1. meta' \in Metas
    BY DEF Rows, CloseStep, Metas
  <1>2. Winner = NoOffer /\ Winner' = NoOffer /\ meta.status = "OPEN" /\ meta'.status = to
    BY DEF Rows, CloseStep, WinnerKnown, Winner, Metas
  <1> QED
    BY <1>1, <1>2, NoOfferAssumption
    DEF Rows, CloseStep, HoldFollowsRequest, OfferFollowsRequest, WinnerKnown, HeldStatuses, EndStatuses

LEMMA EndRows ==
    ASSUME Rows, NEW to \in EndStatuses, NEW s \in Sessions \cup {NoSession}, EndStep(to, s)
    PROVE  Rows'
  <1>1. meta' \in Metas
    BY DEF Rows, EndStep, Metas
  <1>2. Winner \in Offers /\ Winner' = Winner /\ meta'.status = to /\ meta.status \in HeldStatuses
    BY DEF Rows, EndStep, HoldIsOpen, Winner, Metas
  <1>3. /\ offer' \in [Offers -> OfferStatuses] /\ hold' \in [Offers -> HoldStatuses]
        /\ offer'[Winner] = to /\ hold'[Winner] = "RELEASED"
        /\ \A p \in Offers \ {Winner} : offer'[p] = offer[p] /\ hold'[p] = hold[p]
    BY <1>2 DEF Rows, EndStep, OfferStatuses, HoldStatuses
  <1>4. HoldFollowsRequest'
    BY <1>2, <1>3 DEF Rows, HoldFollowsRequest, HeldStatuses, EndStatuses
  <1>5. OfferFollowsRequest'
    BY <1>2, <1>3 DEF Rows, OfferFollowsRequest
  <1>6. WinnerKnown'
    BY <1>2 DEF WinnerKnown, HeldStatuses, EndStatuses
  <1> QED
    BY <1>1, <1>3, <1>4, <1>5, <1>6 DEF Rows

LEMMA CompleteRows ==
    ASSUME Rows, Complete
    PROVE  Rows'
  <1>1. meta' \in Metas
    BY DEF Rows, Complete, Metas
  <1>2. Winner \in Offers /\ Winner' = Winner
        /\ meta.status = "TRANSFER_PENDING" /\ meta'.status = "COMPLETED"
    BY DEF Rows, Complete, HoldIsOpen, Winner, Metas
  <1>3. /\ hold' \in [Offers -> HoldStatuses] /\ offer' = offer
        /\ hold'[Winner] = "COMPLETED"
        /\ \A p \in Offers \ {Winner} : hold'[p] = hold[p]
    BY <1>2 DEF Rows, Complete, HoldStatuses
  <1>4. HoldFollowsRequest'
    BY <1>2, <1>3 DEF Rows, HoldFollowsRequest, HeldStatuses
  <1>5. OfferFollowsRequest'
    BY <1>2, <1>3 DEF Rows, OfferFollowsRequest, EndStatuses
  <1>6. WinnerKnown'
    BY <1>2 DEF WinnerKnown
  <1> QED
    BY <1>1, <1>3, <1>4, <1>5, <1>6 DEF Rows

LEMMA RowsStep ==
    ASSUME Rows, RowStep
    PROVE  Rows'
  <1>1. CASE UNCHANGED <<meta, offer, hold>>
    BY <1>1 DEF Rows, HoldFollowsRequest, OfferFollowsRequest, WinnerKnown, Winner
  <1>2. ASSUME NEW c \in Invocations, NEW s \in Sessions, IssueStep(c, s)
        PROVE  UNCHANGED <<meta, offer, hold>>
    BY <1>2 DEF IssueStep
  <1>3. ASSUME NEW s \in Sessions, LapseStep(s)
        PROVE  UNCHANGED <<meta, offer, hold>>
    BY <1>3 DEF LapseStep
  <1>4. ASSUME NEW s \in Sessions \cup {NoSession}, PassStep(s) \/ UseStep(s)
        PROVE  Complete
    BY <1>4 DEF PassStep, UseStep
  <1> QED
    BY <1>1, <1>2, <1>3, <1>4, QuietRows, OpenRows, AwardRows, CloseRows, EndRows, CompleteRows
    DEF RowStep

-----------------------------------------------------------------------------
(* The codes                                                               *)

\* The rows that tell which code is in force, and what the calls know of them.
Codes ==
    /\ session \in [Sessions -> SessionStatuses]
    /\ pointer \in Pointers
    /\ OneCode

LEMMA PairFacts ==
    ASSUME Codes
    PROVE  /\ ActivePair \in Sessions \cup {NoSession}
           /\ \A t \in Sessions :
                  session[t] = "ACTIVE" <=>
                      pointer.status = "ACTIVE" /\ pointer.session = t /\ session[t] = "ACTIVE"
  BY NoSessionAssumption DEF Codes, ActivePair, Pointers, OneCode

\* A code is given up for good.
LEMMA EndedCode ==
    ASSUME Codes, NEW s \in Sessions, NEW st \in {"REVOKED", "CONSUMED"}, Terminal(s, st)
    PROVE  /\ session' \in [Sessions -> SessionStatuses]
           /\ pointer' \in Pointers
           /\ session'[s] = st /\ session[s] = "ACTIVE"
           /\ \A t \in Sessions \ {s} : session'[t] = session[t] /\ session[t] # "ACTIVE"
           /\ pointer'.status = st /\ pointer'.version = pointer.version /\ pointer'.session = s
  <1>1. session' \in [Sessions -> SessionStatuses] /\ session'[s] = st
        /\ \A t \in Sessions \ {s} : session'[t] = session[t]
    BY DEF Codes, Terminal, SessionStatuses
  <1>2. pointer' \in Pointers /\ pointer'.status = st /\ pointer'.version = pointer.version
        /\ pointer'.session = s
    BY DEF Codes, Terminal, Pointers
  <1>3. \A t \in Sessions \ {s} : session[t] # "ACTIVE"
    BY PairFacts DEF Terminal
  <1> QED
    BY <1>1, <1>2, <1>3 DEF Terminal

\* What every step but an issue leaves of the codes: they end or stay.
CodesEnd ==
    /\ pointer'.version = pointer.version
    /\ \A t \in Sessions : session'[t] = "ACTIVE" => session[t] = "ACTIVE"
    /\ \A t \in Sessions : session'[t] = "CONSUMED" => session[t] \in {"CONSUMED", "ACTIVE"}

LEMMA CodesKept ==
    ASSUME Codes, UNCHANGED codeVars, meta.status = "COMPLETED" => meta'.status = "COMPLETED"
    PROVE  CodesEnd /\ Codes'
  BY DEF Codes, codeVars, OneCode, ActivePair, CodesEnd

LEMMA CodesRevoked ==
    ASSUME Codes, meta.status # "COMPLETED", NEW s \in Sessions, Terminal(s, "REVOKED")
    PROVE  CodesEnd /\ Codes'
  <1>1. \A t \in Sessions : session'[t] \notin {"ACTIVE", "CONSUMED"}
    BY EndedCode DEF Codes, OneCode
  <1> QED
    BY <1>1, EndedCode DEF Codes, OneCode, CodesEnd

LEMMA CodesUsed ==
    ASSUME Codes, meta.status # "COMPLETED", meta'.status = "COMPLETED",
           NEW s \in Sessions, Terminal(s, "CONSUMED")
    PROVE  CodesEnd /\ Codes'
  <1>1. \A t \in Sessions : session'[t] # "ACTIVE" /\ (session'[t] = "CONSUMED" => t = s)
    BY EndedCode DEF Codes, OneCode
  <1> QED
    BY <1>1, EndedCode DEF Codes, OneCode, CodesEnd

LEMMA CodesLapsed ==
    ASSUME Codes, NEW s \in Sessions, MarkExpired(s), UNCHANGED meta
    PROVE  CodesEnd /\ Codes'
  <1>1. /\ session' \in [Sessions -> SessionStatuses] /\ pointer' = pointer /\ meta' = meta
        /\ session'[s] = "EXPIRED" /\ session[s] = "ACTIVE"
        /\ \A t \in Sessions \ {s} : session'[t] = session[t]
    BY DEF Codes, MarkExpired, SessionStatuses
  <1>2. \A t \in Sessions : session'[t] # "ACTIVE"
    BY <1>1, PairFacts
  <1>3. \A t \in Sessions : session'[t] = "CONSUMED" => session[t] = "CONSUMED"
    BY <1>1
  <1> QED
    BY <1>1, <1>2, <1>3 DEF Codes, OneCode, CodesEnd

LEMMA CodesIssued ==
    ASSUME Codes, UNCHANGED meta, NEW m \in Memories, IssueKnows(m),
           NEW s \in Sessions, Mint(m.code, m.version, s)
    PROVE  Codes' /\ pointer'.version = pointer.version + 1
  <1>1. /\ pointer' = [status |-> "ACTIVE", session |-> s, version |-> m.version + 1]
        /\ m.version = pointer.version /\ m.version < IssueCap
        /\ session' = [t \in Sessions |-> CASE t = s -> "ACTIVE"
                                            [] t = m.code /\ t # s -> "REVOKED"
                                            [] OTHER -> session[t]]
        /\ m.code # NoSession => session[m.code] = "ACTIVE"
    BY DEF Mint
  <1>2. pointer' \in Pointers
    BY <1>1, CapAssumption DEF Codes, Pointers
  <1>3. session' \in [Sessions -> SessionStatuses]
    BY <1>1 DEF Codes, SessionStatuses
  <1>4. \A t \in Sessions : session[t] = "ACTIVE" => t = m.code
    BY <1>1 DEF IssueKnows
  <1>5. \A t \in Sessions : session[t] # "CONSUMED"
    BY <1>1, NoSessionAssumption DEF IssueKnows
  <1>6. session'[s] = "ACTIVE"
    BY <1>1
  <1>7. \A t \in Sessions \ {s} : session'[t] \notin {"ACTIVE", "CONSUMED"}
    BY <1>1, <1>4, <1>5
  <1>8. ActivePair' = s
    BY <1>1, <1>6 DEF ActivePair
  <1>9. OneCode'
    BY <1>6, <1>7, <1>8 DEF OneCode
  <1> QED
    BY <1>1, <1>2, <1>3, <1>9 DEF Codes

\* A step either ends codes or makes what every call has read too old.
LEMMA CodesStep ==
    ASSUME ExchangeInv, Rows, Codes, RowStep
    PROVE  Codes' /\ (CodesEnd \/ pointer'.version = pointer.version + 1)
  <1>1. CASE QuietStep
    BY <1>1, CodesKept DEF QuietStep, codeVars
  <1>2. CASE OpenStep
    BY <1>2, CodesKept DEF OpenStep, codeVars
  <1>3. ASSUME NEW o \in Offers, AwardStep(o)
        PROVE  CodesEnd /\ Codes'
    BY <1>3, CodesKept DEF AwardStep, Acceptable, codeVars
  <1>4. ASSUME NEW to \in EndStatuses, CloseStep(to)
        PROVE  CodesEnd /\ Codes'
    BY <1>4, CodesKept DEF CloseStep, codeVars
  <1>5. ASSUME NEW s \in Sessions \cup {NoSession}, RevokePair(s), meta.status # "COMPLETED"
        PROVE  CodesEnd /\ Codes'
    <2>1. CASE s = NoSession
      BY <1>5, <2>1, CodesKept DEF RevokePair
    <2>2. CASE s # NoSession
      BY <1>5, <2>2, CodesRevoked DEF RevokePair
    <2> QED
      BY <2>1, <2>2
  <1>6. ASSUME NEW to \in EndStatuses, NEW s \in Sessions \cup {NoSession}, EndStep(to, s)
        PROVE  CodesEnd /\ Codes'
    BY <1>5, <1>6 DEF EndStep, HeldStatuses
  <1>7. ASSUME NEW s \in Sessions \cup {NoSession}, PassStep(s)
        PROVE  CodesEnd /\ Codes'
    BY <1>5, <1>7 DEF PassStep, Complete
  <1>8. ASSUME NEW s \in Sessions, UseStep(s)
        PROVE  CodesEnd /\ Codes'
    <2>1. meta.status = "TRANSFER_PENDING" /\ meta'.status = "COMPLETED"
      BY <1>8 DEF UseStep, Complete, Rows, Metas
    <2> QED
      BY <1>8, <2>1, CodesUsed DEF UseStep
  <1>9. ASSUME NEW c \in Invocations, NEW s \in Sessions, IssueStep(c, s)
        PROVE  Codes' /\ pointer'.version = pointer.version + 1
    <2>1. call[c] \in Memories /\ IssueKnows(call[c])
      BY <1>9 DEF ExchangeInv, TypeOK, CallsKnow, IssueStep
    <2> QED
      BY <1>9, <2>1, CodesIssued DEF IssueStep
  <1>10. ASSUME NEW s \in Sessions, LapseStep(s)
         PROVE  CodesEnd /\ Codes'
    BY <1>10, CodesLapsed DEF LapseStep
  <1> QED
    BY <1>1, <1>2, <1>3, <1>4, <1>6, <1>7, <1>8, <1>9, <1>10 DEF RowStep

-----------------------------------------------------------------------------
(* What the calls know                                                     *)

\* What a call about to issue knows stays so, whatever others do.
LEMMA KnowledgeStays ==
    ASSUME Codes, Codes', CodesEnd \/ pointer'.version = pointer.version + 1,
           NEW m \in Memories, IssueKnows(m)
    PROVE  /\ m.version <= pointer'.version
           /\ m.version = pointer'.version =>
                  /\ \A t \in Sessions : session'[t] = "ACTIVE" => t = m.code
                  /\ (\E t \in Sessions : session'[t] = "CONSUMED") =>
                         m.code \in Sessions /\ session'[m.code] # "ACTIVE"
  <1>1. pointer.version \in Nat /\ m.version \in Nat
    BY CapAssumption DEF Codes, Pointers, Memories
  <1>2. CASE pointer'.version = pointer.version + 1
    BY <1>1, <1>2 DEF IssueKnows
  <1>3. CASE CodesEnd
    <2>1. m.version <= pointer'.version
      BY <1>3 DEF CodesEnd, IssueKnows
    <2> SUFFICES ASSUME m.version = pointer.version
                 PROVE  /\ \A t \in Sessions : session'[t] = "ACTIVE" => t = m.code
                        /\ (\E t \in Sessions : session'[t] = "CONSUMED") =>
                               m.code \in Sessions /\ session'[m.code] # "ACTIVE"
      BY <1>3, <2>1 DEF CodesEnd
    <2>2. \A t \in Sessions : session'[t] = "ACTIVE" => t = m.code
      BY <1>3 DEF CodesEnd, IssueKnows
    <2>3. ASSUME NEW t \in Sessions, session'[t] = "CONSUMED"
          PROVE  m.code \in Sessions /\ session'[m.code] # "ACTIVE"
      <3>1. CASE session[t] = "CONSUMED"
        BY <1>3, <3>1 DEF CodesEnd, IssueKnows
      <3>2. CASE session[t] = "ACTIVE"
        BY <2>3, <3>2 DEF IssueKnows
      <3> QED
        BY <1>3, <2>3, <3>1, <3>2 DEF CodesEnd
    <2> QED
      BY <2>2, <2>3
  <1> QED
    BY <1>2, <1>3

\* What a call has just read is so.
LEMMA KnowledgeNew ==
    ASSUME Codes, NEW m \in Memories, JustRead(m)
    PROVE  /\ m.version <= pointer'.version
           /\ \A t \in Sessions : session'[t] = "ACTIVE" => t = m.code
           /\ \A t \in Sessions : session'[t] # "CONSUMED"
  <1>1. m.version = pointer'.version /\ m.version \in Nat /\ session' = session
    BY CapAssumption DEF JustRead, codeVars, Memories
  <1> QED
    BY <1>1 DEF Codes, OneCode, JustRead

LEMMA CallsStep ==
    ASSUME ExchangeInv, Codes, Codes', CodesEnd \/ pointer'.version = pointer.version + 1, CallStep
    PROVE  call' \in [Invocations -> Memories] /\ CallsKnow'
  <1>1. call \in [Invocations -> Memories]
    BY DEF ExchangeInv, TypeOK
  <1>2. call' \in [Invocations -> Memories]
    BY <1>1 DEF CallStep
  <1>3. SUFFICES ASSUME NEW c \in Invocations
                 PROVE  EndKnows(call'[c]) /\ (call'[c].op = "issue" => IssueKnows(call[c])')
    BY <1>2 DEF CallsKnow, EndKnows
  <1>4. CASE call'[c] = call[c]
    <2>1. EndKnows(call'[c])
      BY <1>4 DEF ExchangeInv, CallsKnow
    <2>2. ASSUME call'[c].op = "issue" PROVE IssueKnows(call[c])'
      <3> DEFINE m == call[c]
      <3>1. m \in Memories /\ IssueKnows(m) /\ call'[c] = m
        BY <1>1, <1>4, <2>2 DEF ExchangeInv, CallsKnow
      <3> HIDE DEF m
      <3>2. /\ m.version <= pointer'.version
            /\ m.version = pointer'.version =>
                   /\ \A t \in Sessions : session'[t] = "ACTIVE" => t = m.code
                   /\ (\E t \in Sessions : session'[t] = "CONSUMED") =>
                          m.code \in Sessions /\ session'[m.code] # "ACTIVE"
        BY <3>1, KnowledgeStays
      <3> QED
        BY <3>1, <3>2 DEF IssueKnows
    <2> QED
      BY <2>1, <2>2
  <1>5. CASE call'[c] # call[c]
    <2>1. PICK m \in Memories : call'[c] = m /\ EndKnows(m) /\ (m.op = "issue" => JustRead(m))
      BY <1>1, <1>5 DEF CallStep
    <2>2. ASSUME m.op = "issue" PROVE IssueKnows(call[c])'
      <3>1. /\ m.version <= pointer'.version
            /\ \A t \in Sessions : session'[t] = "ACTIVE" => t = m.code
            /\ \A t \in Sessions : session'[t] # "CONSUMED"
        BY <2>1, <2>2, KnowledgeNew
      <3> QED
        BY <2>1, <3>1 DEF IssueKnows
    <2> QED
      BY <2>1, <2>2
  <1> QED
    BY <1>4, <1>5

-----------------------------------------------------------------------------
(* The theorems                                                            *)

LEMMA InvParts ==
    ExchangeInv <=> /\ Rows /\ Codes
                    /\ call \in [Invocations -> Memories] /\ elsewhere \in BOOLEAN
                    /\ CallsKnow
  BY DEF ExchangeInv, TypeOK, Rows, Codes

\* No handler of the exchange touches the rows of another.
LEMMA ElsewhereStep == elsewhere \in BOOLEAN /\ [Next]_vars => elsewhere' \in BOOLEAN
  <1>1. CASE UNCHANGED vars
    BY <1>1 DEF vars
  <1>2. ASSUME NEW c, Handle(c) PROVE elsewhere' = elsewhere
    BY <1>2 DEF Handle, ReadToOffer, PutOffer, ReadToClose, AcceptOffer, Supersede, RetryAccept,
                EndOpen, ReadToEnd, ReadToConfirm, CommitConfirm, Complete, ReadToIssue, IssueCode
  <1>3. ASSUME NEW c, Write(c) \/ GiveUp(c) PROVE elsewhere' = elsewhere
    BY <1>3 DEF Write, CloseOffer, ListOffers, ClearOffer, CommitEnd, GiveUp
  <1>4. ASSUME NEW c, GetMeta(c) PROVE elsewhere' = elsewhere
    BY <1>4 DEF GetMeta, apply_lazy_expiry, EndOpen, ReadToEnd
  <1>5. CASE run_expiry
    BY <1>5 DEF run_expiry, EndOpen, ReadToEnd, ExpireOpenOffer, ReadToClose
  <1>6. CASE CreateRequest \/ DeadlinePasses \/ StartTransfer
             \/ (\E o \in Offers : WithdrawOffer(o))
             \/ (\E s \in Sessions : ConfirmByCode(s) \/ PresentLapsed(s))
    BY <1>6 DEF CreateRequest, DeadlinePasses, StartTransfer, WithdrawOffer, ConfirmByCode,
                Complete, PresentLapsed
  <1>7. CASE StoreOrCloseElsewhere
    BY <1>7 DEF StoreOrCloseElsewhere
  <1> QED
    BY <1>1, <1>2, <1>3, <1>4, <1>5, <1>6, <1>7 DEF Next

LEMMA InitInv == Init => ExchangeInv
  <1> SUFFICES ASSUME Init PROVE ExchangeInv
    OBVIOUS
  <1>1. meta.status = "NONE" /\ Winner = NoOffer /\ meta \in Metas
    BY DEF Init, Winner, Metas
  <1>2. Rows
    BY <1>1, NoOfferAssumption DEF Init, Rows, OfferStatuses, HoldStatuses, HoldFollowsRequest,
       OfferFollowsRequest, WinnerKnown, HeldStatuses, EndStatuses
  <1>3. Codes
    BY CapAssumption DEF Init, CodeInit, Codes, SessionStatuses, Pointers, OneCode
  <1>4. call \in [Invocations -> Memories] /\ CallsKnow
    BY IdleTyped DEF Init, CallsKnow, EndKnows
  <1>5. elsewhere \in BOOLEAN
    BY ZenonT(30) DEF Init
  <1> QED
    BY <1>2, <1>3, <1>4, <1>5, InvParts

LEMMA NextInv == ExchangeInv /\ [Next]_vars => ExchangeInv'
  <1> SUFFICES ASSUME ExchangeInv, [Next]_vars PROVE ExchangeInv'
    OBVIOUS
  <1>1. RowStep /\ CallStep
    BY StepKinds
  <1>2. Rows /\ Codes
    BY InvParts
  <1>3. Rows'
    BY <1>1, <1>2, RowsStep
  <1>4. Codes' /\ (CodesEnd \/ pointer'.version = pointer.version + 1)
    BY <1>1, <1>2, CodesStep
  <1>5. call' \in [Invocations -> Memories] /\ CallsKnow'
    BY <1>1, <1>2, <1>4, CallsStep
  <1>6. elsewhere' \in BOOLEAN
    BY ElsewhereStep DEF ExchangeInv, TypeOK
  <1> QED
    BY <1>3, <1>4, <1>5, <1>6 DEF ExchangeInv, TypeOK, Rows, Codes

THEOREM InvCorrect == Spec => []ExchangeInv
  BY InitInv, NextInv, PTL DEF Spec

\* The rows and what the overlapping calls remember keep their types.
THEOREM TypeCorrect == Spec => []TypeOK
  BY InvCorrect, PTL DEF ExchangeInv

\* Only the accepted offer ever has an allocation, and it lasts as long as the
\* exchange is held (accept_offer, _cancel_with_hold_release, confirm_handover).
THEOREM HoldCorrect == Spec => []HoldFollowsRequest
  BY InvCorrect, PTL DEF ExchangeInv

\* The accepted offer ends as its exchange ends, and no other one ever shows as
\* accepted (reject_offer, withdraw_offer, the expiry and the sweep).
THEOREM OfferCorrect == Spec => []OfferFollowsRequest
  BY InvCorrect, PTL DEF ExchangeInv

\* At most one code is active and the pointer names it; a code that was used
\* ended the exchange (issue_qr, confirm_qr and the revocations).
THEOREM CodeCorrect == Spec => []OneCode
  BY InvCorrect, PTL DEF ExchangeInv

-----------------------------------------------------------------------------
(* The exchange implements HandoverDeal                                    *)

\* No code is issued, or about to be, before an offer has won.
CodesComeLate ==
    meta.status \in {"NONE", "OPEN"} =>
        /\ \A s \in Sessions : session[s] = "NONE"
        /\ \A c \in Invocations : call[c].op # "issue"

LEMMA InitLate == Init => CodesComeLate
  BY IdleTyped DEF Init, CodeInit, CodesComeLate

LEMMA NextLate == ExchangeInv /\ CodesComeLate /\ [Next]_vars => CodesComeLate'
  <1> SUFFICES ASSUME ExchangeInv, CodesComeLate, [Next]_vars, meta'.status \in {"NONE", "OPEN"}
               PROVE  /\ \A s \in Sessions : session'[s] = "NONE"
                      /\ \A c \in Invocations : call'[c].op # "issue"
    BY DEF CodesComeLate
  <1>1. RowStep /\ CallStep
    BY StepKinds
  <1>2. meta \in Metas /\ call \in [Invocations -> Memories]
    BY DEF ExchangeInv, TypeOK
  <1>3. ~(\E o \in Offers : AwardStep(o))
    BY DEF AwardStep
  <1>4. ~(\E to \in EndStatuses : CloseStep(to))
    BY <1>2 DEF CloseStep, Metas, EndStatuses
  <1>5. ~(\E to \in EndStatuses, s \in Sessions \cup {NoSession} : EndStep(to, s))
    BY <1>2 DEF EndStep, Metas, EndStatuses
  <1>6. ~Complete
    BY <1>2 DEF Complete, Metas
  <1>7. meta.status \in {"NONE", "OPEN"} /\ UNCHANGED session
    <2>1. CASE QuietStep \/ OpenStep
      BY <2>1 DEF QuietStep, OpenStep
    <2>2. ASSUME NEW c \in Invocations, NEW s \in Sessions, IssueStep(c, s) PROVE FALSE
      BY <2>2 DEF IssueStep, CodesComeLate
    <2>3. ASSUME NEW s \in Sessions, LapseStep(s) PROVE FALSE
      BY <2>3 DEF LapseStep, MarkExpired, CodesComeLate
    <2> QED
      BY <1>1, <1>3, <1>4, <1>5, <1>6, <2>1, <2>2, <2>3 DEF RowStep, PassStep, UseStep
  <1>8. \A c \in Invocations : call'[c].op # "issue"
    BY <1>1, <1>2, <1>7 DEF CallStep, JustRead, CodesComeLate
  <1> QED
    BY <1>7, <1>8 DEF CodesComeLate

\* The deal, told from META: what the holds tell as well.
StatusDeal ==
    CASE meta.status = "NONE" -> "none"
      [] meta.status = "OPEN" -> "open"
      [] meta.status \in HeldStatuses -> "won"
      [] meta.status = "COMPLETED" -> "passed"
      [] OTHER -> "off"

DealFacts ==
    /\ meta \in Metas
    /\ Deal = StatusDeal
    /\ DealWinner = Winner
    /\ DealCode = IF meta.status \in HeldStatuses THEN ActivePair ELSE NoSession
    /\ \A s \in Sessions : session[s] = "CONSUMED" => DealUsed = s
    /\ (\A s \in Sessions : session[s] # "CONSUMED") => DealUsed = NoSession

LEMMA Mapping == ExchangeInv => DealFacts
  <1> SUFFICES ASSUME ExchangeInv PROVE DealFacts
    OBVIOUS
  <1>1. meta \in Metas /\ Winner \in Offers \cup {NoOffer}
    BY DEF ExchangeInv, TypeOK, Metas, Winner
  <1>2. \A o \in Offers :
            /\ hold[o] # "NONE" <=> Winner = o
            /\ hold[o] = "OPEN" <=> Winner = o /\ meta.status \in HeldStatuses
            /\ hold[o] = "COMPLETED" <=> Winner = o /\ meta.status = "COMPLETED"
    BY DEF ExchangeInv, HoldFollowsRequest
  <1>3. meta.status \in HeldStatuses \cup {"COMPLETED"} => Winner \in Offers
    BY DEF ExchangeInv, WinnerKnown
  <1>4. /\ (\E o \in Offers : hold[o] = "OPEN") <=> meta.status \in HeldStatuses
        /\ (\E o \in Offers : hold[o] = "COMPLETED") <=> meta.status = "COMPLETED"
    BY <1>2, <1>3
  <1>5. Deal = StatusDeal
    BY <1>1, <1>4 DEF Deal, StatusDeal, HeldStatuses
  <1>6. DealWinner = Winner
    <2>1. CASE Winner \in Offers
      <3>1. HeldOffers = {Winner}
        BY <1>2, <2>1 DEF HeldOffers
      <3> QED
        BY <3>1 DEF DealWinner
    <2>2. CASE Winner = NoOffer
      <3>1. HeldOffers = {}
        BY <1>2, <2>2, NoOfferAssumption DEF HeldOffers
      <3> QED
        BY <2>2, <3>1 DEF DealWinner
    <2> QED
      BY <1>1, <2>1, <2>2
  <1>7. DealCode = IF meta.status \in HeldStatuses THEN ActivePair ELSE NoSession
    BY <1>5 DEF DealCode, StatusDeal, HeldStatuses
  <1>8. ASSUME NEW s \in Sessions, session[s] = "CONSUMED" PROVE DealUsed = s
    <2>1. UsedCodes = {s}
      BY <1>8 DEF ExchangeInv, OneCode, UsedCodes
    <2> QED
      BY <2>1 DEF DealUsed
  <1>9. ASSUME \A s \in Sessions : session[s] # "CONSUMED" PROVE DealUsed = NoSession
    <2>1. UsedCodes = {}
      BY <1>9 DEF UsedCodes
    <2> QED
      BY <2>1 DEF DealUsed
  <1> QED
    BY <1>1, <1>5, <1>6, <1>7, <1>8, <1>9 DEF DealFacts

LEMMA DealInit ==
    ASSUME Init, DealFacts
    PROVE  D!Init
  <1>1. DealSpent = {} /\ meta.status = "NONE" /\ Winner = NoOffer
        /\ \A s \in Sessions : session[s] = "NONE"
    BY DEF Init, CodeInit, DealSpent, Winner
  <1> QED
    BY <1>1 DEF D!Init, DealFacts, StatusDeal, HeldStatuses

\* No code was used as long as the exchange is not completed.
LEMMA NoneUsed ==
    ASSUME ExchangeInv, DealFacts, meta.status # "COMPLETED"
    PROVE  DealUsed = NoSession /\ \A s \in Sessions : session[s] # "CONSUMED"
  BY DEF ExchangeInv, OneCode, DealFacts

LEMMA SameCodes ==
    ASSUME UNCHANGED codeVars
    PROVE  UNCHANGED <<ActivePair, DealUsed, DealSpent>>
  BY DEF codeVars, ActivePair, DealUsed, UsedCodes, DealSpent

\* What the transactions that end the code in force make of it.
LEMMA SpentCode ==
    ASSUME ExchangeInv, NEW s \in Sessions, NEW st \in {"REVOKED", "CONSUMED"}, Terminal(s, st)
    PROVE  /\ ActivePair = s
           /\ st = "REVOKED" => DealSpent' = DealSpent \cup {s}
           /\ st = "CONSUMED" => DealSpent' = DealSpent
           /\ \A t \in Sessions \ {s} : session'[t] = session[t]
           /\ session'[s] = st
  <1>1. Codes
    BY InvParts
  <1>2. /\ session[s] = "ACTIVE" /\ session'[s] = st
        /\ \A t \in Sessions \ {s} : session'[t] = session[t]
    BY <1>1, EndedCode
  <1>3. ActivePair = s
    BY DEF Terminal, ActivePair
  <1> QED
    BY <1>2, <1>3 DEF DealSpent

LEMMA DealOpens ==
    ASSUME ExchangeInv, DealFacts, DealFacts', OpenStep
    PROVE  D!Next
  <1>1. /\ meta.status = "NONE" /\ meta'.status = "OPEN"
        /\ UNCHANGED <<DealUsed, DealSpent>>
    BY SameCodes DEF OpenStep, build_meta_item, codeVars
  <1>2. Winner = NoOffer /\ Winner' = NoOffer
    BY <1>1 DEF ExchangeInv, WinnerKnown, OpenStep, build_meta_item, Winner
  <1>3. D!Open
    BY <1>1, <1>2 DEF D!Open, DealFacts, StatusDeal, HeldStatuses
  <1> QED
    BY <1>3 DEF D!Next

LEMMA DealAwarded ==
    ASSUME ExchangeInv, CodesComeLate, DealFacts, DealFacts', NEW o \in Offers, AwardStep(o)
    PROVE  D!Next
  <1>1. /\ meta.status = "OPEN" /\ meta'.status = "ACCEPTED" /\ Winner' = o
        /\ UNCHANGED <<ActivePair, DealUsed, DealSpent>>
    BY SameCodes DEF AwardStep, Acceptable, codeVars, Winner
  <1>2. ActivePair = NoSession
    <2>1. \A s \in Sessions : session[s] # "ACTIVE"
      BY <1>1 DEF CodesComeLate
    <2> QED
      BY <2>1 DEF ActivePair, ExchangeInv, TypeOK, OneCode, Pointers
  <1>3. D!Award(o)
    BY <1>1, <1>2 DEF D!Award, DealFacts, StatusDeal, HeldStatuses
  <1> QED
    BY <1>3 DEF D!Next

LEMMA DealClosed ==
    ASSUME ExchangeInv, DealFacts, DealFacts', NEW to \in EndStatuses, CloseStep(to)
    PROVE  D!Next
  <1>1. /\ meta.status = "OPEN" /\ meta'.status = to /\ Winner' = Winner
        /\ UNCHANGED <<DealUsed, DealSpent>>
    BY SameCodes DEF CloseStep, codeVars, Winner, DealFacts, Metas
  <1>2. D!CallOff
    BY <1>1 DEF D!CallOff, DealFacts, StatusDeal, HeldStatuses, EndStatuses
  <1> QED
    BY <1>2 DEF D!Next

LEMMA DealEnded ==
    ASSUME ExchangeInv, ExchangeInv', DealFacts, DealFacts', NEW to \in EndStatuses,
           NEW s \in Sessions \cup {NoSession}, EndStep(to, s)
    PROVE  D!Next
  <1>1. meta.status \in HeldStatuses /\ meta'.status = to /\ Winner' = Winner
    BY DEF EndStep, Winner, DealFacts, Metas
  <1>2. Deal = "won" /\ Deal' = "off" /\ DealWinner' = DealWinner /\ DealCode' = NoSession
    BY <1>1 DEF DealFacts, StatusDeal, HeldStatuses, EndStatuses
  <1>3. DealUsed' = DealUsed
    <2>1. DealUsed = NoSession
      BY <1>1, NoneUsed DEF HeldStatuses
    <2>2. \A t \in Sessions : session'[t] # "CONSUMED"
      BY <1>1 DEF ExchangeInv, OneCode, EndStatuses
    <2> QED
      BY <2>1, <2>2 DEF DealFacts
  <1>4. DealSpent' \in {DealSpent, DealSpent \cup ({DealCode} \ {NoSession})}
    <2>1. CASE s = NoSession
      BY <2>1, SameCodes DEF EndStep, RevokePair
    <2>2. CASE s # NoSession
      <3>1. ActivePair = s /\ DealSpent' = DealSpent \cup {s}
        BY <2>2, SpentCode DEF EndStep, RevokePair
      <3> QED
        BY <1>1, <2>2, <3>1 DEF DealFacts
    <2> QED
      BY <2>1, <2>2
  <1>5. D!CallOff
    BY <1>2, <1>3, <1>4 DEF D!CallOff
  <1> QED
    BY <1>5 DEF D!Next

LEMMA DealPassed ==
    ASSUME ExchangeInv, DealFacts, DealFacts', NEW s \in Sessions \cup {NoSession},
           PassStep(s) \/ (s \in Sessions /\ UseStep(s))
    PROVE  D!Next
  <1>1. /\ meta.status = "TRANSFER_PENDING" /\ meta'.status = "COMPLETED" /\ Winner' = Winner
    BY DEF PassStep, UseStep, Complete, Winner, DealFacts, Metas
  <1>2. Deal = "won" /\ Deal' = "passed" /\ DealWinner' = DealWinner /\ DealCode' = NoSession
        /\ DealCode = ActivePair
    BY <1>1 DEF DealFacts, StatusDeal, HeldStatuses
  <1>3. \A t \in Sessions : session[t] # "CONSUMED"
    BY <1>1, NoneUsed
  <1>4. CASE PassStep(s) /\ s = NoSession
    <2>1. UNCHANGED <<session, DealSpent>>
      BY <1>4, SameCodes DEF PassStep, RevokePair, codeVars
    <2>2. DealUsed' = NoSession
      BY <1>3, <2>1 DEF DealFacts
    <2>3. D!Pass(NoSession)
      BY <1>2, <2>1, <2>2 DEF D!Pass
    <2> QED
      BY <2>3 DEF D!Next
  <1>5. CASE PassStep(s) /\ s \in Sessions
    <2>1. ActivePair = s /\ DealSpent' = DealSpent \cup {s}
          /\ \A t \in Sessions : session'[t] # "CONSUMED"
      <3>1. Terminal(s, "REVOKED")
        BY <1>5, NoSessionAssumption DEF PassStep, RevokePair
      <3> QED
        BY <1>3, <1>5, <3>1, SpentCode
    <2>2. DealUsed' = NoSession
      BY <2>1 DEF DealFacts
    <2>3. D!Pass(NoSession)
      BY <1>2, <1>5, <2>1, <2>2, NoSessionAssumption DEF D!Pass
    <2> QED
      BY <2>3 DEF D!Next
  <1>6. CASE UseStep(s) /\ s \in Sessions
    <2>1. ActivePair = s /\ DealSpent' = DealSpent /\ session'[s] = "CONSUMED"
      BY <1>6, SpentCode DEF UseStep
    <2>2. DealUsed' = s
      BY <1>6, <2>1 DEF DealFacts
    <2>3. D!Pass(s)
      BY <1>2, <2>1, <2>2 DEF D!Pass
    <2> QED
      BY <1>6, <2>3 DEF D!Next
  <1> QED
    BY <1>4, <1>5, <1>6

LEMMA DealLapses ==
    ASSUME ExchangeInv, DealFacts, DealFacts', NEW s \in Sessions, LapseStep(s)
    PROVE  D!Next
  <1>1. /\ UNCHANGED <<meta, pointer>> /\ Winner' = Winner
        /\ session[s] = "ACTIVE" /\ session'[s] = "EXPIRED"
        /\ \A t \in Sessions \ {s} : session'[t] = session[t]
    BY DEF ExchangeInv, TypeOK, LapseStep, MarkExpired, Winner
  <1>2. ActivePair = s /\ ActivePair' = NoSession
    <2>1. ActivePair = s
      BY <1>1 DEF ExchangeInv, OneCode
    <2>2. pointer.session = s
      BY <2>1, NoSessionAssumption DEF ActivePair
    <2> QED
      BY <1>1, <2>1, <2>2 DEF ActivePair
  <1>3. DealSpent' = DealSpent \cup {s}
    BY <1>1 DEF DealSpent
  <1>4. DealUsed' = DealUsed
    <2>1. UsedCodes' = UsedCodes
      BY <1>1 DEF UsedCodes
    <2> QED
      BY <2>1 DEF DealUsed
  <1>5. Deal' = Deal /\ DealWinner' = DealWinner
        /\ DealCode' = IF DealCode \in {s} THEN NoSession ELSE DealCode
    BY <1>1, <1>2 DEF DealFacts, StatusDeal
  <1>6. D!Retire({s})
    BY <1>3, <1>4, <1>5 DEF D!Retire
  <1> QED
    BY <1>6 DEF D!Next

LEMMA DealIssues ==
    ASSUME ExchangeInv, DealFacts, DealFacts', NEW c \in Invocations, NEW s \in Sessions, IssueStep(c, s)
    PROVE  D!Next
  <1> DEFINE m == call[c]
  <1>1. m \in Memories /\ IssueKnows(m) /\ Mint(m.code, m.version, s)
        /\ UNCHANGED meta /\ Winner' = Winner
    BY DEF ExchangeInv, TypeOK, CallsKnow, IssueStep, Winner
  <1> HIDE DEF m
  <1>2. /\ pointer' = [status |-> "ACTIVE", session |-> s, version |-> m.version + 1]
        /\ m.version = pointer.version /\ session[s] = "NONE"
        /\ session' = [t \in Sessions |-> CASE t = s -> "ACTIVE"
                                            [] t = m.code /\ t # s -> "REVOKED"
                                            [] OTHER -> session[t]]
        /\ m.code # NoSession => session[m.code] = "ACTIVE"
        /\ m.code \in Sessions \cup {NoSession}
    BY <1>1 DEF Mint, Memories
  <1>3. session'[s] = "ACTIVE" /\ ActivePair' = s
    BY <1>2 DEF ActivePair
  <1>4. ActivePair = m.code
    <2>1. CASE m.code = NoSession
      <3>1. \A t \in Sessions : session[t] # "ACTIVE"
        BY <1>1, <1>2, <2>1, NoSessionAssumption DEF IssueKnows
      <3> QED
        BY <2>1, <3>1 DEF ActivePair, ExchangeInv, TypeOK, OneCode, Pointers
    <2>2. CASE m.code \in Sessions
      BY <1>2, <2>2, NoSessionAssumption DEF ExchangeInv, OneCode
    <2> QED
      BY <1>2, <2>1, <2>2
  <1>5. DealSpent' = DealSpent \cup ({m.code} \ {NoSession}) /\ s \notin DealSpent \cup {m.code}
    <2>1. s # m.code
      BY <1>2, NoSessionAssumption
    <2> QED
      BY <1>2, <2>1, NoSessionAssumption DEF DealSpent
  <1>6. DealUsed' = DealUsed
    <2>1. \A t \in Sessions : session[t] # "CONSUMED" /\ session'[t] # "CONSUMED"
      BY <1>1, <1>2, NoSessionAssumption DEF IssueKnows
    <2> QED
      BY <2>1 DEF DealFacts
  <1>7. Deal' = Deal /\ DealWinner' = DealWinner /\ (Deal = "won" <=> meta.status \in HeldStatuses)
    BY <1>1 DEF DealFacts, StatusDeal, HeldStatuses
  <1>8. CASE Deal = "won"
    <2>1. DealCode = m.code /\ DealCode' = s
      BY <1>1, <1>3, <1>4, <1>7, <1>8 DEF DealFacts
    <2>2. D!Issue(s)
      BY <1>5, <1>6, <1>7, <1>8, <2>1 DEF D!Issue
    <2> QED
      BY <2>2 DEF D!Next
  <1>9. CASE Deal # "won"
    <2> DEFINE S == {m.code} \ {NoSession}
    <2>1. DealCode = NoSession /\ DealCode' = NoSession /\ S \in SUBSET Sessions
      BY <1>1, <1>2, <1>7, <1>9 DEF DealFacts
    <2>2. D!Retire(S)
      BY <1>5, <1>6, <1>7, <2>1 DEF D!Retire
    <2> QED
      BY <2>1, <2>2 DEF D!Next
  <1> QED
    BY <1>8, <1>9

LEMMA DealStep ==
    ASSUME ExchangeInv, ExchangeInv', CodesComeLate, DealFacts, DealFacts', RowStep
    PROVE  D!Next \/ UNCHANGED D!vars
  <1>1. CASE QuietStep
    <2>1. UNCHANGED <<ActivePair, DealUsed, DealSpent, Winner>>
      BY <1>1, SameCodes DEF QuietStep, codeVars, Winner
    <2>2. meta'.status \in HeldStatuses <=> meta.status \in HeldStatuses
      BY <1>1 DEF QuietStep, HeldStatuses
    <2>3. Deal' = Deal
      BY <1>1 DEF QuietStep, DealFacts, StatusDeal, HeldStatuses
    <2> QED
      BY <2>1, <2>2, <2>3 DEF DealFacts, D!vars
  <1>2. CASE OpenStep
    BY <1>2, DealOpens
  <1>3. CASE \E o \in Offers : AwardStep(o)
    BY <1>3, DealAwarded
  <1>4. CASE \E to \in EndStatuses : CloseStep(to)
    BY <1>4, DealClosed
  <1>5. CASE \E to \in EndStatuses, s \in Sessions \cup {NoSession} : EndStep(to, s)
    BY <1>5, DealEnded
  <1>6. CASE (\E s \in Sessions \cup {NoSession} : PassStep(s)) \/ (\E s \in Sessions : UseStep(s))
    BY <1>6, DealPassed
  <1>7. CASE \E c \in Invocations, s \in Sessions : IssueStep(c, s)
    BY <1>7, DealIssues
  <1>8. CASE \E s \in Sessions : LapseStep(s)
    BY <1>8, DealLapses
  <1> QED
    BY <1>1, <1>2, <1>3, <1>4, <1>5, <1>6, <1>7, <1>8 DEF RowStep

\* One winner, one handover, and never by a code that was rotated, revoked or
\* marked expired: every step of the exchange is a step of HandoverDeal or
\* changes nothing of it.
THEOREM DealCorrect == Spec => ImplementsDeal
  <1>1. ExchangeInv /\ Init => D!Init
    BY Mapping, DealInit
  <1>2. ExchangeInv' => DealFacts'
    BY Mapping, PTL
  <1>3. ExchangeInv /\ ExchangeInv' /\ CodesComeLate /\ [Next]_vars => [D!Next]_(D!vars)
    BY <1>2, Mapping, StepKinds, DealStep
  <1> QED
    BY <1>1, <1>3, InitInv, InvCorrect, InitLate, NextLate, PTL DEF Spec, ImplementsDeal, D!Spec
=============================================================================
