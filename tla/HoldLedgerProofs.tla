-------------------------- MODULE HoldLedgerProofs --------------------------
(* Proofs about HoldLedger, for any sets of resources, holds and calls.     *)
EXTENDS HoldLedger, TLAPS

-----------------------------------------------------------------------------
(* What the three row helpers return.                                      *)

\* SetStatus changes status and Available together and nothing else.
LEMMA SetStatusRow ==
    ASSUME NEW row \in Row, NEW s \in Status
    PROVE  /\ SetStatus(row, s) \in Row
           /\ SetStatus(row, s).status = s
           /\ SetStatus(row, s).org = row.org
  BY DEF SetStatus, Row

\* Unreserved removes the reservation attributes and nothing else.
LEMMA UnreservedRow ==
    ASSUME NEW row \in Row
    PROVE  /\ Unreserved(row) \in Row
           /\ Unreserved(row).status = row.status
           /\ Unreserved(row).org = row.org
  BY DEF Unreserved, Row

\* The placeholder for "no row read" is itself a row.
LEMMA NoRowType == NoRow \in Row
  BY OrgOfType, BoundsType DEF NoRow, Row

-----------------------------------------------------------------------------
(* Type correctness.                                                       *)

\* Every allocation keeps its shape when only its status is overwritten.
LEMMA AllocationStatus ==
    ASSUME TypeOK, NEW h \in Holds, alloc[h] # NoAllocation,
           NEW s \in {"RELEASED", "RETURNED"}
    PROVE  [alloc EXCEPT ![h].status = s] \in [Holds -> {NoAllocation} \cup Allocation]
  BY DEF TypeOK, Allocation, NoAllocation

LEMMA InitType == Init => TypeOK
<1> SUFFICES ASSUME Init PROVE TypeOK
  OBVIOUS
<1>1. malformed \in BOOLEAN
  BY ZenonT(30) DEF Init
<1> QED
  BY <1>1, NoRowType DEF Init, TypeOK, Row

LEMMA EverydayType == TypeOK /\ Everyday => TypeOK'
<1> SUFFICES ASSUME TypeOK, Everyday PROVE TypeOK'
  OBVIOUS
<1>1. ASSUME NEW r \in Resources, NEW o \in Orgs, Register(r, o) PROVE TypeOK'
  BY <1>1, BoundsType DEF Register, TypeOK, Row, Status
<1>2. ASSUME NEW r \in Resources, NEW u \in Users, Reserve(r, u) PROVE TypeOK'
  <2>1. Reserved(resource[r], u) \in Row
    BY <1>2, BoundsType DEF Reserve, TypeOK, Row, Status, Reserved
  <2> QED
    BY <1>2, <2>1 DEF Reserve, TypeOK
<1>3. ASSUME NEW r \in Resources, NEW u \in Users, ReleaseReservation(r, u) PROVE TypeOK'
  <2>1. Unreserved(SetStatus(resource[r], "AVAILABLE")) \in Row
    BY SetStatusRow, UnreservedRow DEF TypeOK, Status
  <2> QED
    BY <1>3, <2>1 DEF ReleaseReservation, TypeOK
<1>4. ASSUME NEW r \in Resources, NEW t \in Tickets, EverydayAllocate(r, t) PROVE TypeOK'
  <2>1. Unreserved(SetStatus(resource[r], "ALLOCATED")) \in Row
    BY SetStatusRow, UnreservedRow DEF TypeOK, Status
  <2>2. [status |-> "OPEN", resource |-> r, org |-> resource[r].org] \in Allocation
    BY DEF TypeOK, Row, Allocation
  <2> QED
    BY <1>4, <2>1, <2>2 DEF EverydayAllocate, AllocationItems, TypeOK
<1>5. ASSUME NEW r \in Resources, NEW t \in Tickets, EverydayReturn(r, t) PROVE TypeOK'
  <2>1. SetStatus(resource[r], "AVAILABLE") \in Row
    BY SetStatusRow DEF TypeOK, Status
  <2>2. t \in Holds /\ alloc[t] # NoAllocation
    BY <1>5 DEF EverydayReturn, ReturnItems, NoAllocation, Holds
  <2>3. alloc' \in [Holds -> {NoAllocation} \cup Allocation]
    BY <1>5, <2>2, AllocationStatus DEF EverydayReturn, ReturnItems
  <2> QED
    BY <1>5, <2>1, <2>3 DEF EverydayReturn, ReturnItems, TypeOK
<1> QED
  BY <1>1, <1>2, <1>3, <1>4, <1>5 DEF Everyday

LEMMA EmergencyType == TypeOK /\ Emergency => TypeOK'
<1> SUFFICES ASSUME TypeOK, NEW q \in Requests,
                    \/ CloseUnallocated(q)
                    \/ CompleteRequest(q)
                    \/ LookupHolders(q)
                    \/ \E r \in Resources :
                          EmergencyClaim(q, r) \/ ReleaseResource(q, r) \/ AutoRelease(q, r)
             PROVE  TypeOK'
  BY DEF Emergency
<1>0. q \in Holds
  BY DEF Holds
<1>1. ASSUME NEW r \in Resources, NEW free \in BOOLEAN,
             CanRelease(q, r, free), CommitRelease(q, r, free)
      PROVE  /\ resource' \in [Resources -> Row]
             /\ alloc' \in [Holds -> {NoAllocation} \cup Allocation]
             /\ request' \in [Requests -> {"PENDING", "ALLOCATED", "RELEASED",
                                           "COMPLETED", "CANCELLED", "REJECTED"}]
  <2>1. SetStatus(resource[r], "AVAILABLE") \in Row
    BY SetStatusRow DEF TypeOK, Status
  <2>2. alloc[q] # NoAllocation
    BY <1>1 DEF CanRelease, NoAllocation
  <2>3. alloc' \in [Holds -> {NoAllocation} \cup Allocation]
    BY <1>0, <1>1, <2>2, AllocationStatus DEF CommitRelease
  <2> QED
    BY <1>1, <2>1, <2>3 DEF CommitRelease, TypeOK
<1>2. CASE CloseUnallocated(q)
  BY <1>2 DEF CloseUnallocated, TypeOK
<1>3. CASE CompleteRequest(q)
  BY <1>3 DEF CompleteRequest, TypeOK
<1>4. CASE LookupHolders(q)
  BY <1>4 DEF LookupHolders, TypeOK
<1>5. ASSUME NEW r \in Resources, EmergencyClaim(q, r) PROVE TypeOK'
  <2>1. SetStatus(resource[r], "ALLOCATED") \in Row
    BY SetStatusRow DEF TypeOK, Status
  <2>2. [status |-> "ALLOCATED", resource |-> r, org |-> OrgOf[q]] \in Allocation
    BY OrgOfType DEF Allocation
  <2> QED
    BY <1>5, <2>1, <2>2 DEF EmergencyClaim, TypeOK
<1>6. ASSUME NEW r \in Resources, ReleaseResource(q, r) PROVE TypeOK'
  BY <1>1, <1>6 DEF ReleaseResource, TypeOK
<1>7. ASSUME NEW r \in Resources, AutoRelease(q, r) PROVE TypeOK'
  <2>1. (decision[q] = "free") \in BOOLEAN
    OBVIOUS
  <2>2. CASE CanRelease(q, r, decision[q] = "free")
    BY <1>1, <1>7, <2>1, <2>2 DEF AutoRelease, TypeOK
  <2>3. CASE ~CanRelease(q, r, decision[q] = "free")
    BY <1>7, <2>3 DEF AutoRelease, TypeOK
  <2> QED
    BY <2>2, <2>3
<1> QED
  BY <1>2, <1>3, <1>4, <1>5, <1>6, <1>7

LEMMA ExchangeType == TypeOK /\ Exchange => TypeOK'
<1> SUFFICES ASSUME TypeOK, NEW x \in Exchanges,
                    \/ StartTransferCommit(x)
                    \/ CancelExchange(x)
                    \/ ExpireExchange(x)
                    \/ \E r \in Resources :
                          AcceptOffer(x, r) \/ StartTransferRead(x, r) \/ ConfirmHandover(x, r)
             PROVE  TypeOK'
  BY DEF Exchange
<1>0. x \in Holds
  BY DEF Holds
<1>1. ASSUME NEW terminal \in {"CANCELLED", "EXPIRED"}, EndExchange(x, terminal)
      PROVE  /\ resource' \in [Resources -> Row]
             /\ alloc' \in [Holds -> {NoAllocation} \cup Allocation]
             /\ meta' \in [Exchanges -> {"OPEN", "ACCEPTED", "TRANSFER_PENDING",
                                         "COMPLETED", "CANCELLED", "EXPIRED"}]
  <2>1. CASE meta[x] = "OPEN"
    BY <1>1, <2>1 DEF EndExchange, Held, TypeOK
  <2>2. CASE Held(x)
    <3>1. alloc[x] # NoAllocation
      BY <1>1, <2>2 DEF EndExchange, Held, NoAllocation
    <3>2. alloc[x].resource \in Resources
      BY <1>0, <3>1 DEF TypeOK, Allocation
    <3>3. SetStatus(resource[alloc[x].resource], "AVAILABLE") \in Row
      BY <3>2, SetStatusRow DEF TypeOK, Status
    <3>4. alloc' \in [Holds -> {NoAllocation} \cup Allocation]
      BY <1>0, <1>1, <2>2, <3>1, AllocationStatus DEF EndExchange, Held
    <3> QED
      BY <1>1, <2>2, <3>3, <3>4 DEF EndExchange, Held, TypeOK
  <2> QED
    BY <1>1, <2>1, <2>2 DEF EndExchange
<1>2. CASE StartTransferCommit(x)
  BY <1>2 DEF StartTransferCommit, TypeOK
<1>3. CASE CancelExchange(x)
  BY <1>1, <1>3 DEF CancelExchange, TypeOK
<1>4. CASE ExpireExchange(x)
  BY <1>1, <1>4 DEF ExpireExchange, TypeOK
<1>5. ASSUME NEW r \in Resources, AcceptOffer(x, r) PROVE TypeOK'
  <2>1. SetStatus(resource[r], "ALLOCATED") \in Row
    BY SetStatusRow DEF TypeOK, Status
  <2>2. [status |-> "OPEN", resource |-> r, org |-> resource[r].org] \in Allocation
    BY DEF TypeOK, Row, Allocation
  <2> QED
    BY <1>5, <2>1, <2>2 DEF AcceptOffer, TypeOK
<1>6. ASSUME NEW r \in Resources, StartTransferRead(x, r) PROVE TypeOK'
  BY <1>6 DEF StartTransferRead, TypeOK
<1>7. ASSUME NEW r \in Resources, ConfirmHandover(x, r) PROVE TypeOK'
  <2>1. SetStatus(resource[r], "AVAILABLE") \in Row
    BY SetStatusRow DEF TypeOK, Status
  <2>2. HandedTo(SetStatus(resource[r], "AVAILABLE"), OrgOf[x]) \in Row
    BY <2>1, OrgOfType DEF HandedTo, Row
  <2>3. alloc[x] # NoAllocation
    BY <1>7 DEF ConfirmHandover, NoAllocation
  <2>4. alloc' \in [Holds -> {NoAllocation} \cup Allocation]
    BY <1>0, <1>7, <2>3, AllocationStatus DEF ConfirmHandover
  <2> QED
    BY <1>7, <2>2, <2>4 DEF ConfirmHandover, TypeOK
<1> QED
  BY <1>2, <1>3, <1>4, <1>5, <1>6, <1>7

\* What the step of a call says about the rest of its record.
LEMMA CallType ==
    ASSUME TypeOK, NEW c \in Calls, call[c].step # "idle"
    PROVE  call[c] \in LifecycleCall
  BY DEF TypeOK, Idle

LEMMA LifecycleType == TypeOK /\ Lifecycle => TypeOK'
<1> SUFFICES ASSUME TypeOK, NEW c \in Calls,
                    \/ CheckHolds(c)
                    \/ Crash(c)
                    \/ \E h \in Holds : CloseHold(c, h)
                    \/ \E r \in Resources :
                          \/ TransitionResource(c, r)
                          \/ \E op \in Endpoints, target \in Status : ReadRow(c, r, op, target)
             PROVE  TypeOK'
  BY DEF Lifecycle
<1>1. CASE CheckHolds(c)
  <2>1. call[c] \in LifecycleCall
    BY <1>1, CallType DEF CheckHolds
  <2>2. SeenHolds(c) \in SUBSET Holds
    BY DEF SeenHolds, HoldsOn
  <2>3. [call[c] EXCEPT !.step = "checked", !.open = SeenHolds(c)] \in LifecycleCall
    BY <2>1, <2>2 DEF LifecycleCall
  <2> QED
    BY <1>1, <2>3 DEF CheckHolds, TypeOK
<1>2. CASE Crash(c)
  BY <1>2 DEF Crash, TypeOK
<1>3. ASSUME NEW h \in Holds, CloseHold(c, h) PROVE TypeOK'
  <2>1. call[c] \in LifecycleCall
    BY <1>3, CallType DEF CloseHold
  <2>2. [call[c] EXCEPT !.open = call[c].open \ {h}] \in LifecycleCall
    BY <2>1 DEF LifecycleCall
  <2>3. alloc' \in [Holds -> {NoAllocation} \cup Allocation]
    <3>1. CASE alloc[h].status = "OPEN"
      <4>1. alloc[h] # NoAllocation
        BY <3>1 DEF NoAllocation
      <4> QED
        BY <1>3, <4>1, AllocationStatus DEF CloseHold, TypeOK
    <3>2. CASE alloc[h].status # "OPEN"
      BY <1>3, <3>2 DEF CloseHold, TypeOK
    <3> QED
      BY <3>1, <3>2
  <2> QED
    BY <1>3, <2>2, <2>3 DEF CloseHold, TypeOK
<1>4. ASSUME NEW r \in Resources, TransitionResource(c, r) PROVE TypeOK'
  <2>1. call[c] \in LifecycleCall
    BY <1>4, CallType DEF TransitionResource
  <2>2. Unreserved(SetStatus(resource[r], call[c].target)) \in Row
    BY <2>1, SetStatusRow, UnreservedRow DEF TypeOK, LifecycleCall
  <2>3. [call[c] EXCEPT !.step = "closing"] \in LifecycleCall
    BY <2>1 DEF LifecycleCall
  <2> QED
    BY <1>4, <2>2, <2>3 DEF TransitionResource, TypeOK
<1>5. ASSUME NEW r \in Resources, NEW op \in Endpoints, NEW target \in Status,
             ReadRow(c, r, op, target)
      PROVE  TypeOK'
  <2>1. resource[r].org \in Orgs /\ resource[r].status \in Status
    BY <1>5 DEF ReadRow, TypeOK, Row
  <2>2. [step |-> IF op \in HoldChecked THEN "row" ELSE "checked",
         op |-> op, target |-> target, resource |-> r,
         org |-> resource[r].org, seen |-> resource[r].status,
         open |-> {}] \in LifecycleCall
    BY <2>1 DEF LifecycleCall
  <2> QED
    BY <1>5, <2>2 DEF ReadRow, TypeOK
<1> QED
  BY <1>1, <1>2, <1>3, <1>4, <1>5

LEMMA ExpiryType == TypeOK /\ Expiry => TypeOK'
<1> SUFFICES ASSUME TypeOK, NEW r \in Resources,
                    QueryDueReservation(r) \/ ExpireReservation(r) \/ LapseReservation(r)
             PROVE  TypeOK'
  BY DEF Expiry
<1>1. CASE QueryDueReservation(r)
  BY <1>1 DEF QueryDueReservation, TypeOK
<1>2. CASE ExpireReservation(r)
  <2>1. Unreserved(SetStatus(resource[r], "AVAILABLE")) \in Row
    BY SetStatusRow, UnreservedRow DEF TypeOK, Status
  <2>2. CASE SameReservation(resource[r], dueItem[r])
    BY <1>2, <2>1, <2>2, NoRowType DEF ExpireReservation, TypeOK
  <2>3. CASE ~SameReservation(resource[r], dueItem[r])
    BY <1>2, <2>3, NoRowType DEF ExpireReservation, TypeOK
  <2> QED
    BY <2>2, <2>3
<1>3. CASE LapseReservation(r)
  <2>1. [resource[r] EXCEPT !.due = "lapsed"] \in Row
    <3>1. resource[r] \in Row
      BY DEF TypeOK
    <3> QED
      BY <3>1 DEF Row
  <2>2. resource' = [resource EXCEPT ![r] = [resource[r] EXCEPT !.due = "lapsed"]]
    BY <1>3 DEF LapseReservation
  <2> QED
    BY <1>3, <2>1, <2>2 DEF LapseReservation, TypeOK
<1> QED
  BY <1>1, <1>2, <1>3

LEMMA NextType == TypeOK /\ [Next]_vars => TypeOK'
<1> SUFFICES ASSUME TypeOK, [Next]_vars PROVE TypeOK'
  OBVIOUS
<1>1. CASE UNCHANGED vars
  BY <1>1 DEF vars, TypeOK
<1>2. ASSUME NEW h \in Requests \cup Exchanges, PassDeadline(h) PROVE TypeOK'
  BY <1>2 DEF PassDeadline, TypeOK
<1>3. CASE StoreOrCloseMalformed
  BY <1>3 DEF StoreOrCloseMalformed, TypeOK
<1> QED
  BY <1>1, <1>2, <1>3, EverydayType, EmergencyType, ExchangeType, LifecycleType, ExpiryType
  DEF Next

\* Whatever operators do, every row keeps the shape its handlers rely on.
THEOREM TypeCorrect == Spec => []TypeOK
  BY InitType, NextType, PTL DEF Spec

-----------------------------------------------------------------------------
(* The two availability fields and the reservation attributes of a row.    *)

FlagsOf(row) ==
    /\ row.available <=> row.status = "AVAILABLE"
    /\ row.status = "RESERVED" <=> row.by # Nobody
    /\ row.status = "RESERVED" <=> row.due # "none"

\* No lifecycle endpoint asks for RESERVED.
CallTargets == \A c \in Calls : call[c].step # "idle" => call[c].target # "RESERVED"

FlagsInv == TypeOK /\ FlagsAgree /\ CallTargets

LEMMA SetStatusFlags ==
    ASSUME NEW row \in Row, FlagsOf(row), row.status # "RESERVED",
           NEW s \in Status, s # "RESERVED"
    PROVE  FlagsOf(SetStatus(row, s))
  BY DEF FlagsOf, SetStatus, Row

LEMMA UnreservedFlags ==
    ASSUME NEW row \in Row, NEW s \in Status, s # "RESERVED"
    PROVE  FlagsOf(Unreserved(SetStatus(row, s)))
  BY DEF FlagsOf, SetStatus, Unreserved, Row

\* Writing one row whose own flags agree keeps the table right.
LEMMA RowFlags ==
    ASSUME TypeOK, FlagsAgree, NEW r \in Resources, NEW row, FlagsOf(row),
           resource' = [resource EXCEPT ![r] = row]
    PROVE  FlagsAgree'
  BY DEF FlagsAgree, FlagsOf, TypeOK

LEMMA SameFlags == ASSUME FlagsAgree, resource' = resource PROVE FlagsAgree'
  BY DEF FlagsAgree

LEMMA FlagsStep == FlagsInv /\ Next => FlagsAgree'
<1> SUFFICES ASSUME FlagsInv, Next PROVE FlagsAgree'
  OBVIOUS
<1>0. /\ TypeOK /\ FlagsAgree
      /\ \A r \in Resources : resource[r] \in Row /\ FlagsOf(resource[r])
  BY DEF FlagsInv, TypeOK, FlagsAgree, FlagsOf
<1>1. ASSUME NEW r \in Resources, resource[r].status # "RESERVED",
             NEW s \in {"AVAILABLE", "ALLOCATED"},
             resource' = [resource EXCEPT ![r] = SetStatus(resource[r], s)]
      PROVE  FlagsAgree'
  <2>1. FlagsOf(SetStatus(resource[r], s))
    BY <1>0, <1>1, SetStatusFlags DEF Status
  <2> QED
    BY <1>0, <1>1, <2>1, RowFlags
<1>2. ASSUME NEW r \in Resources, NEW s \in Status \ {"RESERVED"},
             resource' = [resource EXCEPT ![r] = Unreserved(SetStatus(resource[r], s))]
      PROVE  FlagsAgree'
  <2>1. FlagsOf(Unreserved(SetStatus(resource[r], s)))
    BY <1>0, UnreservedFlags
  <2> QED
    BY <1>0, <1>2, <2>1, RowFlags
<1>3. CASE Everyday
  <2>1. ASSUME NEW r \in Resources, NEW o \in Orgs, Register(r, o) PROVE FlagsAgree'
    <3> DEFINE row == [status |-> "AVAILABLE", available |-> TRUE, org |-> o,
                       by |-> Nobody, stamp |-> 0, due |-> "none"]
    <3>1. FlagsOf(row)
      BY DEF FlagsOf
    <3>2. resource' = [resource EXCEPT ![r] = row]
      BY <2>1 DEF Register
    <3> HIDE DEF row
    <3> QED
      BY <1>0, <3>1, <3>2, RowFlags
  <2>2. ASSUME NEW r \in Resources, NEW u \in Users, Reserve(r, u) PROVE FlagsAgree'
    <3>1. FlagsOf(Reserved(resource[r], u))
      BY BoundsType DEF FlagsOf, Reserved
    <3> QED
      BY <1>0, <2>2, <3>1, RowFlags DEF Reserve
  <2>3. ASSUME NEW r \in Resources, NEW u \in Users, ReleaseReservation(r, u) PROVE FlagsAgree'
    BY <1>2, <2>3 DEF ReleaseReservation, Status
  <2>4. ASSUME NEW r \in Resources, NEW t \in Tickets, EverydayAllocate(r, t) PROVE FlagsAgree'
    BY <1>2, <2>4 DEF EverydayAllocate, AllocationItems, Status
  <2>5. ASSUME NEW r \in Resources, NEW t \in Tickets, EverydayReturn(r, t) PROVE FlagsAgree'
    BY <1>1, <2>5 DEF EverydayReturn, ReturnItems
  <2> QED
    BY <1>3, <2>1, <2>2, <2>3, <2>4, <2>5 DEF Everyday
<1>4. CASE Emergency
  <2> SUFFICES ASSUME NEW q \in Requests,
                      \/ CloseUnallocated(q)
                      \/ CompleteRequest(q)
                      \/ LookupHolders(q)
                      \/ \E r \in Resources :
                            EmergencyClaim(q, r) \/ ReleaseResource(q, r) \/ AutoRelease(q, r)
               PROVE  FlagsAgree'
    BY <1>4 DEF Emergency
  <2>1. ASSUME NEW r \in Resources, NEW free \in BOOLEAN,
               CanRelease(q, r, free), CommitRelease(q, r, free)
        PROVE  FlagsAgree'
    BY <1>0, <1>1, <2>1, SameFlags DEF CanRelease, CommitRelease, StillHeld
  <2>2. CASE CloseUnallocated(q) \/ CompleteRequest(q) \/ LookupHolders(q)
    BY <1>0, <2>2, SameFlags DEF CloseUnallocated, CompleteRequest, LookupHolders
  <2>3. ASSUME NEW r \in Resources, EmergencyClaim(q, r) PROVE FlagsAgree'
    BY <1>1, <2>3 DEF EmergencyClaim, Claimable
  <2>4. ASSUME NEW r \in Resources, ReleaseResource(q, r) PROVE FlagsAgree'
    BY <2>1, <2>4 DEF ReleaseResource
  <2>5. ASSUME NEW r \in Resources, AutoRelease(q, r) PROVE FlagsAgree'
    <3>1. CASE CanRelease(q, r, decision[q] = "free")
      BY <2>1, <2>5, <3>1 DEF AutoRelease
    <3>2. CASE ~CanRelease(q, r, decision[q] = "free")
      BY <1>0, <2>5, <3>2, SameFlags DEF AutoRelease
    <3> QED
      BY <3>1, <3>2
  <2> QED
    BY <2>2, <2>3, <2>4, <2>5
<1>5. CASE Exchange
  <2> SUFFICES ASSUME NEW x \in Exchanges,
                      \/ StartTransferCommit(x)
                      \/ CancelExchange(x)
                      \/ ExpireExchange(x)
                      \/ \E r \in Resources :
                            AcceptOffer(x, r) \/ StartTransferRead(x, r) \/ ConfirmHandover(x, r)
               PROVE  FlagsAgree'
    BY <1>5 DEF Exchange
  <2>1. ASSUME NEW terminal, EndExchange(x, terminal) PROVE FlagsAgree'
    <3>1. CASE meta[x] = "OPEN"
      BY <1>0, <2>1, <3>1, SameFlags DEF EndExchange, Held
    <3>2. CASE Held(x)
      <4>1. alloc[x].resource \in Resources
        BY <1>0, <2>1, <3>2 DEF EndExchange, Held, TypeOK, Holds, Allocation, NoAllocation
      <4> QED
        BY <1>1, <2>1, <3>2, <4>1 DEF EndExchange, Held, StillHeld
    <3> QED
      BY <2>1, <3>1, <3>2 DEF EndExchange
  <2>2. CASE StartTransferCommit(x)
    BY <1>0, <2>2, SameFlags DEF StartTransferCommit
  <2>3. CASE CancelExchange(x) \/ ExpireExchange(x)
    BY <2>1, <2>3 DEF CancelExchange, ExpireExchange
  <2>4. ASSUME NEW r \in Resources, AcceptOffer(x, r) PROVE FlagsAgree'
    BY <1>1, <2>4 DEF AcceptOffer, Claimable
  <2>5. ASSUME NEW r \in Resources, StartTransferRead(x, r) PROVE FlagsAgree'
    BY <1>0, <2>5, SameFlags DEF StartTransferRead
  <2>6. ASSUME NEW r \in Resources, ConfirmHandover(x, r) PROVE FlagsAgree'
    <3>1. SetStatus(resource[r], "AVAILABLE") \in Row /\ FlagsOf(SetStatus(resource[r], "AVAILABLE"))
      BY <1>0, <2>6, SetStatusRow, SetStatusFlags DEF ConfirmHandover, StillHeld, Status
    <3>2. FlagsOf(HandedTo(SetStatus(resource[r], "AVAILABLE"), OrgOf[x]))
      BY <3>1 DEF FlagsOf, HandedTo, Row
    <3> QED
      BY <1>0, <2>6, <3>2, RowFlags DEF ConfirmHandover
  <2> QED
    BY <2>2, <2>3, <2>4, <2>5, <2>6
<1>6. CASE Lifecycle
  <2>1. ASSUME NEW c \in Calls, NEW r \in Resources, TransitionResource(c, r) PROVE FlagsAgree'
    <3>1. call[c].target \in Status \ {"RESERVED"}
      BY <1>0, <2>1, CallType DEF TransitionResource, FlagsInv, CallTargets, LifecycleCall
    <3>2. CASE StatusCondition(resource[r], call[c].org, call[c].seen)
      BY <1>2, <2>1, <3>1, <3>2 DEF TransitionResource
    <3>3. CASE ~StatusCondition(resource[r], call[c].org, call[c].seen)
      BY <1>0, <2>1, <3>3, SameFlags DEF TransitionResource
    <3> QED
      BY <3>2, <3>3
  <2> QED
    BY <1>0, <1>6, <2>1, SameFlags DEF Lifecycle, CheckHolds, Crash, CloseHold, ReadRow
<1>7. CASE Expiry
  <2> SUFFICES ASSUME NEW r \in Resources,
                      QueryDueReservation(r) \/ ExpireReservation(r) \/ LapseReservation(r)
               PROVE  FlagsAgree'
    BY <1>7 DEF Expiry
  <2>1. CASE QueryDueReservation(r)
    BY <1>0, <2>1, SameFlags DEF QueryDueReservation
  <2>2. CASE ExpireReservation(r)
    <3>1. CASE SameReservation(resource[r], dueItem[r])
      BY <1>2, <2>2, <3>1 DEF ExpireReservation, Status
    <3>2. CASE ~SameReservation(resource[r], dueItem[r])
      BY <1>0, <2>2, <3>2, SameFlags DEF ExpireReservation
    <3> QED
      BY <3>1, <3>2
  <2>3. CASE LapseReservation(r)
    <3>1. FlagsOf([resource[r] EXCEPT !.due = "lapsed"])
      BY <1>0, <2>3 DEF LapseReservation, FlagsOf, Row
    <3>2. resource' = [resource EXCEPT ![r] = [resource[r] EXCEPT !.due = "lapsed"]]
      BY <2>3 DEF LapseReservation
    <3> QED
      BY <1>0, <3>1, <3>2, RowFlags
  <2> QED
    BY <2>1, <2>2, <2>3
<1>8. ASSUME NEW h \in Requests \cup Exchanges, PassDeadline(h) PROVE FlagsAgree'
  BY <1>0, <1>8, SameFlags DEF PassDeadline
<1>9. CASE StoreOrCloseMalformed
  BY <1>0, <1>9, SameFlags DEF StoreOrCloseMalformed
<1> QED
  BY <1>3, <1>4, <1>5, <1>6, <1>7, <1>8, <1>9 DEF Next

LEMMA TargetsStep == FlagsInv /\ Next => CallTargets'
<1> SUFFICES ASSUME FlagsInv, Next PROVE CallTargets'
  OBVIOUS
<1>0. TypeOK /\ CallTargets /\ Idle.step = "idle"
  BY DEF FlagsInv, Idle
<1>1. ASSUME call' = call PROVE CallTargets'
  BY <1>0, <1>1 DEF CallTargets
<1>2. ASSUME NEW c \in Calls, NEW new, call' = [call EXCEPT ![c] = new],
             new.step # "idle" => new.target # "RESERVED"
      PROVE  CallTargets'
  BY <1>0, <1>2 DEF CallTargets, TypeOK
<1>3. CASE Lifecycle
  <2> SUFFICES ASSUME NEW c \in Calls,
                      \/ CheckHolds(c)
                      \/ Crash(c)
                      \/ \E h \in Holds : CloseHold(c, h)
                      \/ \E r \in Resources :
                            \/ TransitionResource(c, r)
                            \/ \E op \in Endpoints, target \in Status : ReadRow(c, r, op, target)
               PROVE  CallTargets'
    BY <1>3 DEF Lifecycle
  <2>1. ASSUME NEW k \in {"checked", "closing"}, NEW open, call[c].step # "idle",
               call' = [call EXCEPT ![c] = [call[c] EXCEPT !.step = k, !.open = open]]
        PROVE  CallTargets'
    <3>1. call[c] \in LifecycleCall /\ call[c].target # "RESERVED"
      BY <1>0, <2>1, CallType DEF CallTargets
    <3>2. [call[c] EXCEPT !.step = k, !.open = open].target = call[c].target
      BY <3>1 DEF LifecycleCall
    <3> QED
      BY <1>2, <2>1, <3>1, <3>2
  <2>2. CASE CheckHolds(c)
    <3>1. CASE Refused(c)
      BY <1>0, <1>2, <2>2, <3>1 DEF CheckHolds
    <3>2. CASE ~Refused(c)
      BY <2>1, <2>2, <3>2 DEF CheckHolds
    <3> QED
      BY <3>1, <3>2
  <2>3. CASE Crash(c)
    BY <1>0, <1>2, <2>3 DEF Crash
  <2>4. ASSUME NEW h \in Holds, CloseHold(c, h) PROVE CallTargets'
    <3>1. CASE call[c].open = {h}
      BY <1>0, <1>2, <2>4, <3>1 DEF CloseHold
    <3>2. CASE call[c].open # {h}
      <4>1. call' = [call EXCEPT ![c] = [call[c] EXCEPT !.open = call[c].open \ {h}]]
        BY <2>4, <3>2 DEF CloseHold
      <4>2. call[c] \in LifecycleCall /\ call[c].target # "RESERVED"
        BY <1>0, <2>4, CallType DEF CallTargets, CloseHold
      <4>3. [call[c] EXCEPT !.open = call[c].open \ {h}].target = call[c].target
        BY <4>2 DEF LifecycleCall
      <4> QED
        BY <1>2, <4>1, <4>2, <4>3
    <3> QED
      BY <3>1, <3>2
  <2>5. ASSUME NEW r \in Resources, TransitionResource(c, r) PROVE CallTargets'
    <3>1. CASE call' = [call EXCEPT ![c] = Idle]
      BY <1>0, <1>2, <3>1
    <3>2. CASE call' = [call EXCEPT ![c] = [call[c] EXCEPT !.step = "closing"]]
      <4>1. call[c] \in LifecycleCall /\ call[c].target # "RESERVED"
        BY <1>0, <2>5, CallType DEF CallTargets, TransitionResource
      <4>2. [call[c] EXCEPT !.step = "closing"].target = call[c].target
        BY <4>1 DEF LifecycleCall
      <4> QED
        BY <1>2, <3>2, <4>1, <4>2
    <3> QED
      BY <2>5, <3>1, <3>2 DEF TransitionResource
  <2>6. ASSUME NEW r \in Resources, NEW op \in Endpoints, NEW target \in Status,
               ReadRow(c, r, op, target)
        PROVE  CallTargets'
    <3> DEFINE new == [step |-> IF op \in HoldChecked THEN "row" ELSE "checked",
                       op |-> op, target |-> target, resource |-> r,
                       org |-> resource[r].org, seen |-> resource[r].status,
                       open |-> {}]
    <3>1. new.target # "RESERVED"
      BY <2>6 DEF ReadRow, Targets, Endpoints
    <3>2. call' = [call EXCEPT ![c] = new]
      BY <2>6 DEF ReadRow
    <3> HIDE DEF new
    <3> QED
      BY <1>2, <3>1, <3>2
  <2> QED
    BY <2>2, <2>3, <2>4, <2>5, <2>6
<1>4. ASSUME NEW h \in Requests \cup Exchanges, PassDeadline(h) PROVE CallTargets'
  BY <1>1, <1>4 DEF PassDeadline
<1>5. CASE Everyday
  BY <1>1, <1>5 DEF Everyday, Register, Reserve, ReleaseReservation, EverydayAllocate,
     AllocationItems,
                    EverydayReturn, ReturnItems
<1>6. CASE Emergency
  BY <1>1, <1>6 DEF Emergency, CloseUnallocated, CompleteRequest, LookupHolders,
                    EmergencyClaim, ReleaseResource, AutoRelease
<1>7. CASE Exchange
  BY <1>1, <1>7 DEF Exchange, StartTransferCommit, CancelExchange, ExpireExchange,
                    AcceptOffer, StartTransferRead, ConfirmHandover
<1>8. CASE Expiry
  BY <1>1, <1>8 DEF Expiry, QueryDueReservation, ExpireReservation, LapseReservation
<1>9. CASE StoreOrCloseMalformed
  BY <1>1, <1>9 DEF StoreOrCloseMalformed
<1> QED
  BY <1>3, <1>4, <1>5, <1>6, <1>7, <1>8, <1>9 DEF Next

LEMMA FlagsInit == Init => FlagsAgree /\ CallTargets
<1>1. NoRow.status = "ABSENT" /\ ~NoRow.available /\ NoRow.by = Nobody /\ NoRow.due = "none"
  BY DEF NoRow
<1> QED
  BY <1>1 DEF Init, FlagsAgree, CallTargets, Idle

LEMMA FlagsNext == FlagsInv /\ [Next]_vars => FlagsInv'
<1> SUFFICES ASSUME FlagsInv, [Next]_vars PROVE FlagsInv'
  OBVIOUS
<1>1. TypeOK'
  BY NextType DEF FlagsInv
<1>2. CASE Next
  BY <1>1, <1>2, FlagsStep, TargetsStep DEF FlagsInv
<1>3. CASE UNCHANGED vars
  BY <1>1, <1>3, SameFlags DEF FlagsInv, CallTargets, vars
<1> QED
  BY <1>2, <1>3

\* Whatever endpoints operators call on held items, and however calls crash or
\* overlap, Available, operational_status and the reservation attributes of a
\* row agree: no writer updates one of them alone.
THEOREM FlagsCorrect == Spec => []FlagsAgree
<1>1. Init => FlagsInv
  BY InitType, FlagsInit DEF FlagsInv
<1>2. FlagsInv => FlagsAgree
  BY DEF FlagsInv
<1> QED
  BY <1>1, <1>2, FlagsNext, PTL DEF Spec

-----------------------------------------------------------------------------
(* The ledger when no lifecycle endpoint is called on an ALLOCATED item.   *)
(* The inductive invariant says that live holds and ALLOCATED rows match   *)
(* one to one, and that what the calls in flight remember cannot break it. *)

Disciplined == HeldItemEndpoints = {}

OneHold == \A h, k \in Holds :
    Live(h) /\ Live(k) /\ alloc[h].resource = alloc[k].resource => h = k

HeldRow == \A h \in Holds :
    Live(h) => /\ resource[alloc[h].resource].status = "ALLOCATED"
               /\ resource[alloc[h].resource].org = alloc[h].org

AllocatedRow == \A r \in Resources :
    resource[r].status = "ALLOCATED" => \E h \in Holds : Live(h) /\ alloc[h].resource = r

NotInUse == \A r \in Resources : resource[r].status # "IN_USE"

Ledger == OneHold /\ HeldRow /\ AllocatedRow /\ NotInUse

\* No call in flight saw a held row, or will write a held status.
CalmCalls == \A c \in Calls :
    call[c].step # "idle" =>
        /\ call[c].step # "closing"
        /\ call[c].op # "return_to_available"
        /\ call[c].seen \notin {"ALLOCATED", "IN_USE"}
        /\ call[c].target \notin {"ALLOCATED", "IN_USE"}
        /\ call[c].open = {}

\* Auto release always finds itself the only holder.
SoleHolder == \A q \in Requests : decision[q] # "keep"

IInv == FlagsInv /\ Ledger /\ CalmCalls /\ SoleHolder

\* The four ways a step may treat the two tables.
Untouched == resource' = resource /\ alloc' = alloc

RowOnly(r) ==
    /\ alloc' = alloc
    /\ resource[r].status # "ALLOCATED"
    /\ resource'[r].status \notin {"ALLOCATED", "IN_USE"}
    /\ \A s \in Resources \ {r} : resource'[s] = resource[s]

Takes(r, h) ==
    /\ resource[r].status \in {"AVAILABLE", "RESERVED"}
    /\ resource'[r].status = "ALLOCATED"
    /\ resource'[r].org = resource[r].org
    /\ \A s \in Resources \ {r} : resource'[s] = resource[s]
    /\ alloc[h] = NoAllocation
    /\ alloc'[h].status \in {"ALLOCATED", "OPEN"}
    /\ alloc'[h].resource = r
    /\ alloc'[h].org = resource[r].org
    /\ \A k \in Holds \ {h} : alloc'[k] = alloc[k]

Gives(r, h) ==
    /\ Live(h)
    /\ alloc[h].resource = r
    /\ resource'[r].status = "AVAILABLE"
    /\ \A s \in Resources \ {r} : resource'[s] = resource[s]
    /\ alloc'[h].status \in {"RELEASED", "RETURNED"}
    /\ \A k \in Holds \ {h} : alloc'[k] = alloc[k]

LedgerStep ==
    \/ Untouched
    \/ \E r \in Resources : RowOnly(r) \/ \E h \in Holds : Takes(r, h) \/ Gives(r, h)

\* The four keep holds and rows matched.
LEMMA LedgerKept == TypeOK /\ TypeOK' /\ Ledger /\ LedgerStep => Ledger'
<1> SUFFICES ASSUME TypeOK, TypeOK', Ledger, LedgerStep PROVE Ledger'
  OBVIOUS
<1>0. \A h \in Holds : Live(h) => alloc[h].resource \in Resources
  BY DEF TypeOK, Allocation, NoAllocation, Live
<1>1. CASE Untouched
  BY <1>1 DEF Untouched, Ledger, OneHold, HeldRow, AllocatedRow, NotInUse, Live
<1>2. ASSUME NEW r \in Resources, RowOnly(r) PROVE Ledger'
  <2>1. OneHold' /\ AllocatedRow' /\ NotInUse'
    BY <1>2 DEF RowOnly, Ledger, OneHold, AllocatedRow, NotInUse, Live
  <2>2. HeldRow'
    BY <1>0, <1>2 DEF RowOnly, Ledger, HeldRow, Live
  <2> QED
    BY <2>1, <2>2 DEF Ledger
<1>3. ASSUME NEW r \in Resources, NEW h \in Holds, Takes(r, h) PROVE Ledger'
  <2>1. \A k \in Holds : Live(k) => alloc[k].resource # r
    BY <1>3 DEF Takes, Ledger, HeldRow
  <2>2. \A k \in Holds \ {h} : Live(k)' <=> Live(k)
    BY <1>3 DEF Takes, Live
  <2>3. OneHold'
    BY <1>3, <2>1, <2>2 DEF Takes, Ledger, OneHold
  <2>4. HeldRow'
    BY <1>0, <1>3, <2>1, <2>2 DEF Takes, Ledger, HeldRow
  <2>5. AllocatedRow'
    <3> SUFFICES ASSUME NEW s \in Resources, resource'[s].status = "ALLOCATED"
                 PROVE  \E k \in Holds : Live(k)' /\ alloc'[k].resource = s
      BY DEF AllocatedRow
    <3>1. CASE s = r
      BY <1>3, <3>1 DEF Takes, Live
    <3>2. CASE s # r
      <4>1. PICK k \in Holds : Live(k) /\ alloc[k].resource = s
        BY <1>3, <3>2 DEF Takes, Ledger, AllocatedRow
      <4>2. k # h
        BY <1>3, <4>1 DEF Takes, Live, NoAllocation
      <4> QED
        BY <1>3, <2>2, <4>1, <4>2 DEF Takes
    <3> QED
      BY <3>1, <3>2
  <2>6. NotInUse'
    BY <1>3 DEF Takes, Ledger, NotInUse
  <2> QED
    BY <2>3, <2>4, <2>5, <2>6 DEF Ledger
<1>4. ASSUME NEW r \in Resources, NEW h \in Holds, Gives(r, h) PROVE Ledger'
  <2>1. ~Live(h)'
    BY <1>4 DEF Gives, Live
  <2>2. \A k \in Holds \ {h} : Live(k)' <=> Live(k)
    BY <1>4 DEF Gives, Live
  <2>3. \A k \in Holds \ {h} : Live(k) => alloc[k].resource # r
    BY <1>4 DEF Gives, Ledger, OneHold
  <2>4. OneHold'
    BY <1>4, <2>1, <2>2 DEF Gives, Ledger, OneHold
  <2>5. HeldRow'
    BY <1>0, <1>4, <2>1, <2>2, <2>3 DEF Gives, Ledger, HeldRow
  <2>6. AllocatedRow'
    <3> SUFFICES ASSUME NEW s \in Resources, resource'[s].status = "ALLOCATED"
                 PROVE  \E k \in Holds : Live(k)' /\ alloc'[k].resource = s
      BY DEF AllocatedRow
    <3>1. s # r
      BY <1>4 DEF Gives
    <3>2. PICK k \in Holds : Live(k) /\ alloc[k].resource = s
      BY <1>4, <3>1 DEF Gives, Ledger, AllocatedRow
    <3>3. k # h
      BY <1>4, <3>1, <3>2 DEF Gives
    <3> QED
      BY <1>4, <2>2, <3>2, <3>3 DEF Gives
  <2>7. NotInUse'
    BY <1>4 DEF Gives, Ledger, NotInUse
  <2> QED
    BY <2>4, <2>5, <2>6, <2>7 DEF Ledger
<1> QED
  BY <1>1, <1>2, <1>3, <1>4 DEF LedgerStep

\* The two ways a hold is taken and the one way it is given back, as the
\* actions write them.
LEMMA TakeStep ==
    ASSUME TypeOK, NEW r \in Resources, NEW h \in Holds,
           alloc[h] = NoAllocation,
           resource[r].status \in {"AVAILABLE", "RESERVED"},
           NEW row \in Row, row.status = "ALLOCATED", row.org = resource[r].org,
           NEW s \in {"ALLOCATED", "OPEN"},
           resource' = [resource EXCEPT ![r] = row],
           alloc' = [alloc EXCEPT ![h] =
                        [status |-> s, resource |-> r, org |-> resource[r].org]]
    PROVE  LedgerStep
<1>1. Takes(r, h)
  BY DEF Takes, TypeOK
<1> QED
  BY <1>1 DEF LedgerStep

LEMMA GiveStep ==
    ASSUME TypeOK, NEW r \in Resources, NEW h \in Holds,
           Live(h), alloc[h].resource = r,
           NEW row \in Row, row.status = "AVAILABLE",
           NEW s \in {"RELEASED", "RETURNED"},
           resource' = [resource EXCEPT ![r] = row],
           alloc' = [alloc EXCEPT ![h].status = s]
    PROVE  LedgerStep
<1>1. alloc[h] \in Allocation
  BY DEF Live, TypeOK, NoAllocation
<1>2. alloc'[h].status = s
  BY <1>1 DEF TypeOK, Allocation
<1>3. Gives(r, h)
  BY <1>2 DEF Gives, TypeOK
<1> QED
  BY <1>3 DEF LedgerStep

LEMMA RowStep ==
    ASSUME TypeOK, NEW r \in Resources, resource[r].status # "ALLOCATED",
           NEW row \in Row, row.status \notin {"ALLOCATED", "IN_USE"},
           resource' = [resource EXCEPT ![r] = row],
           alloc' = alloc
    PROVE  LedgerStep
<1>1. RowOnly(r)
  BY DEF RowOnly, TypeOK
<1> QED
  BY <1>1 DEF LedgerStep

LEMMA EverydayStep == IInv /\ Everyday => LedgerStep
<1> SUFFICES ASSUME IInv, Everyday PROVE LedgerStep
  OBVIOUS
<1>0. TypeOK /\ \A r \in Resources : resource[r] \in Row
  BY DEF IInv, FlagsInv, TypeOK
<1>1. ASSUME NEW r \in Resources, NEW o \in Orgs, Register(r, o) PROVE LedgerStep
  <2> DEFINE row == [status |-> "AVAILABLE", available |-> TRUE, org |-> o,
                     by |-> Nobody, stamp |-> 0, due |-> "none"]
  <2>1. row \in Row /\ row.status = "AVAILABLE"
    BY BoundsType DEF Row, Status
  <2>2. resource' = [resource EXCEPT ![r] = row] /\ alloc' = alloc
        /\ resource[r].status # "ALLOCATED"
    BY <1>1 DEF Register
  <2> HIDE DEF row
  <2> QED
    BY <1>0, <2>1, <2>2, RowStep
<1>2. ASSUME NEW r \in Resources, NEW u \in Users, Reserve(r, u) PROVE LedgerStep
  <2>1. Reserved(resource[r], u) \in Row /\ Reserved(resource[r], u).status = "RESERVED"
    BY <1>0, <1>2, BoundsType DEF Reserve, Reserved, Row, Status
  <2>2. /\ resource' = [resource EXCEPT ![r] = Reserved(resource[r], u)]
        /\ alloc' = alloc
        /\ resource[r].status # "ALLOCATED"
    BY <1>2 DEF Reserve, Claimable
  <2> QED
    BY <1>0, <2>1, <2>2, RowStep
<1>3. ASSUME NEW r \in Resources, NEW u \in Users, ReleaseReservation(r, u) PROVE LedgerStep
  <2> DEFINE row == Unreserved(SetStatus(resource[r], "AVAILABLE"))
  <2>1. row \in Row /\ row.status = "AVAILABLE"
    BY <1>0, SetStatusRow, UnreservedRow DEF Status
  <2>2. /\ resource' = [resource EXCEPT ![r] = row]
        /\ alloc' = alloc
        /\ resource[r].status # "ALLOCATED"
    BY <1>3 DEF ReleaseReservation
  <2> HIDE DEF row
  <2> QED
    BY <1>0, <2>1, <2>2, RowStep
<1>4. ASSUME NEW r \in Resources, NEW t \in Tickets, EverydayAllocate(r, t) PROVE LedgerStep
  <2> DEFINE row == Unreserved(SetStatus(resource[r], "ALLOCATED"))
  <2>1. row \in Row /\ row.status = "ALLOCATED" /\ row.org = resource[r].org
    BY <1>0, SetStatusRow, UnreservedRow DEF Status
  <2>2. t \in Holds
    BY DEF Holds
  <2>3. /\ alloc[t] = NoAllocation
        /\ resource[r].status \in {"AVAILABLE", "RESERVED"}
        /\ resource' = [resource EXCEPT ![r] = row]
        /\ alloc' = [alloc EXCEPT ![t] =
                        [status |-> "OPEN", resource |-> r, org |-> resource[r].org]]
    BY <1>4 DEF EverydayAllocate, AllocationItems, Claimable
  <2> HIDE DEF row
  <2> QED
    BY <1>0, <2>1, <2>2, <2>3, TakeStep
<1>5. ASSUME NEW r \in Resources, NEW t \in Tickets, EverydayReturn(r, t) PROVE LedgerStep
  <2> DEFINE row == SetStatus(resource[r], "AVAILABLE")
  <2>1. row \in Row /\ row.status = "AVAILABLE"
    BY <1>0, SetStatusRow DEF Status
  <2>2. t \in Holds /\ Live(t) /\ alloc[t].resource = r
    BY <1>5 DEF Holds, Live, EverydayReturn, ReturnItems
  <2>3. /\ resource' = [resource EXCEPT ![r] = row]
        /\ alloc' = [alloc EXCEPT ![t].status = "RETURNED"]
    BY <1>5 DEF EverydayReturn, ReturnItems
  <2> HIDE DEF row
  <2> QED
    BY <1>0, <2>1, <2>2, <2>3, GiveStep
<1> QED
  BY <1>1, <1>2, <1>3, <1>4, <1>5 DEF Everyday

LEMMA EmergencyStep == IInv /\ Emergency => LedgerStep
<1> SUFFICES ASSUME IInv, NEW q \in Requests,
                    \/ CloseUnallocated(q)
                    \/ CompleteRequest(q)
                    \/ LookupHolders(q)
                    \/ \E r \in Resources :
                          EmergencyClaim(q, r) \/ ReleaseResource(q, r) \/ AutoRelease(q, r)
             PROVE  LedgerStep
  BY DEF Emergency
<1>0. TypeOK /\ q \in Holds /\ \A r \in Resources : resource[r] \in Row
  BY DEF IInv, FlagsInv, TypeOK, Holds
<1>1. ASSUME NEW r \in Resources, CanRelease(q, r, TRUE), CommitRelease(q, r, TRUE)
      PROVE  LedgerStep
  <2> DEFINE row == SetStatus(resource[r], "AVAILABLE")
  <2>1. row \in Row /\ row.status = "AVAILABLE"
    BY <1>0, SetStatusRow DEF Status
  <2>2. /\ Live(q)
        /\ alloc[q].resource = r
        /\ resource' = [resource EXCEPT ![r] = row]
        /\ alloc' = [alloc EXCEPT ![q].status = "RELEASED"]
    BY <1>1 DEF CanRelease, CommitRelease, Live
  <2> HIDE DEF row
  <2> QED
    BY <1>0, <2>1, <2>2, GiveStep
<1>2. CASE CloseUnallocated(q)
  BY <1>2 DEF CloseUnallocated, LedgerStep, Untouched
<1>3. CASE CompleteRequest(q)
  BY <1>3 DEF CompleteRequest, LedgerStep, Untouched
<1>4. CASE LookupHolders(q)
  BY <1>4 DEF LookupHolders, LedgerStep, Untouched
<1>5. ASSUME NEW r \in Resources, EmergencyClaim(q, r) PROVE LedgerStep
  <2> DEFINE row == SetStatus(resource[r], "ALLOCATED")
  <2>1. row \in Row /\ row.status = "ALLOCATED" /\ row.org = resource[r].org
    BY <1>0, SetStatusRow DEF Status
  <2>2. /\ alloc[q] = NoAllocation
        /\ resource[r].status \in {"AVAILABLE", "RESERVED"}
        /\ resource' = [resource EXCEPT ![r] = row]
        /\ alloc' = [alloc EXCEPT ![q] =
                        [status |-> "ALLOCATED", resource |-> r, org |-> resource[r].org]]
    BY <1>5 DEF EmergencyClaim, Claimable
  <2> HIDE DEF row
  <2> QED
    BY <1>0, <2>1, <2>2, TakeStep
<1>6. ASSUME NEW r \in Resources, ReleaseResource(q, r) PROVE LedgerStep
  BY <1>1, <1>6 DEF ReleaseResource
<1>7. ASSUME NEW r \in Resources, AutoRelease(q, r) PROVE LedgerStep
  <2>1. decision[q] = "free"
    BY <1>7 DEF AutoRelease, IInv, SoleHolder, FlagsInv, TypeOK
  <2>2. CASE CanRelease(q, r, TRUE)
    BY <1>1, <1>7, <2>1, <2>2 DEF AutoRelease
  <2>3. CASE ~CanRelease(q, r, TRUE)
    BY <1>7, <2>1, <2>3 DEF AutoRelease, LedgerStep, Untouched
  <2> QED
    BY <2>2, <2>3
<1> QED
  BY <1>2, <1>3, <1>4, <1>5, <1>6, <1>7

LEMMA ExchangeStep == IInv /\ Exchange => LedgerStep
<1> SUFFICES ASSUME IInv, NEW x \in Exchanges,
                    \/ StartTransferCommit(x)
                    \/ CancelExchange(x)
                    \/ ExpireExchange(x)
                    \/ \E r \in Resources :
                          AcceptOffer(x, r) \/ StartTransferRead(x, r) \/ ConfirmHandover(x, r)
             PROVE  LedgerStep
  BY DEF Exchange
<1>0. TypeOK /\ x \in Holds /\ \A r \in Resources : resource[r] \in Row
  BY DEF IInv, FlagsInv, TypeOK, Holds
<1>1. ASSUME NEW terminal, EndExchange(x, terminal) PROVE LedgerStep
  <2>1. CASE meta[x] = "OPEN"
    BY <1>1, <2>1 DEF EndExchange, Held, LedgerStep, Untouched
  <2>2. CASE Held(x)
    <3> DEFINE r == alloc[x].resource
    <3> DEFINE row == SetStatus(resource[r], "AVAILABLE")
    <3>1. Live(x)
      BY <1>1, <2>2 DEF EndExchange, Held, Live
    <3>2. r \in Resources
      BY <1>0, <3>1 DEF Live, TypeOK, Allocation, NoAllocation
    <3>3. row \in Row /\ row.status = "AVAILABLE"
      BY <1>0, <3>2, SetStatusRow DEF Status
    <3>4. /\ resource' = [resource EXCEPT ![r] = row]
          /\ alloc' = [alloc EXCEPT ![x].status = "RELEASED"]
          /\ alloc[x].resource = r
      BY <1>1, <2>2 DEF EndExchange, Held
    <3> HIDE DEF r, row
    <3> QED
      BY <1>0, <3>1, <3>2, <3>3, <3>4, GiveStep
  <2> QED
    BY <1>1, <2>1, <2>2 DEF EndExchange
<1>2. CASE StartTransferCommit(x)
  BY <1>2 DEF StartTransferCommit, LedgerStep, Untouched
<1>3. CASE CancelExchange(x)
  BY <1>1, <1>3 DEF CancelExchange
<1>4. CASE ExpireExchange(x)
  BY <1>1, <1>4 DEF ExpireExchange
<1>5. ASSUME NEW r \in Resources, AcceptOffer(x, r) PROVE LedgerStep
  <2> DEFINE row == SetStatus(resource[r], "ALLOCATED")
  <2>1. row \in Row /\ row.status = "ALLOCATED" /\ row.org = resource[r].org
    BY <1>0, SetStatusRow DEF Status
  <2>2. /\ alloc[x] = NoAllocation
        /\ resource[r].status \in {"AVAILABLE", "RESERVED"}
        /\ resource' = [resource EXCEPT ![r] = row]
        /\ alloc' = [alloc EXCEPT ![x] =
                        [status |-> "OPEN", resource |-> r, org |-> resource[r].org]]
    BY <1>5 DEF AcceptOffer, Claimable
  <2> HIDE DEF row
  <2> QED
    BY <1>0, <2>1, <2>2, TakeStep
<1>6. ASSUME NEW r \in Resources, StartTransferRead(x, r) PROVE LedgerStep
  BY <1>6 DEF StartTransferRead, LedgerStep, Untouched
<1>7. ASSUME NEW r \in Resources, ConfirmHandover(x, r) PROVE LedgerStep
  <2> DEFINE row == HandedTo(SetStatus(resource[r], "AVAILABLE"), OrgOf[x])
  <2>1. SetStatus(resource[r], "AVAILABLE") \in Row
        /\ SetStatus(resource[r], "AVAILABLE").status = "AVAILABLE"
    BY <1>0, SetStatusRow DEF Status
  <2>2. row \in Row /\ row.status = "AVAILABLE"
    BY <2>1, OrgOfType DEF HandedTo, Row
  <2>3. /\ Live(x)
        /\ alloc[x].resource = r
        /\ resource' = [resource EXCEPT ![r] = row]
        /\ alloc' = [alloc EXCEPT ![x].status = "RELEASED"]
    BY <1>7 DEF ConfirmHandover, Live
  <2> HIDE DEF row
  <2> QED
    BY <1>0, <2>2, <2>3, GiveStep
<1> QED
  BY <1>2, <1>3, <1>4, <1>5, <1>6, <1>7

\* A calm call can only write a row that nothing holds.
LEMMA LifecycleStep == IInv /\ Lifecycle => LedgerStep
<1> SUFFICES ASSUME IInv, NEW c \in Calls,
                    \/ CheckHolds(c)
                    \/ Crash(c)
                    \/ \E h \in Holds : CloseHold(c, h)
                    \/ \E r \in Resources :
                          \/ TransitionResource(c, r)
                          \/ \E op \in Endpoints, target \in Status : ReadRow(c, r, op, target)
             PROVE  LedgerStep
  BY DEF Lifecycle
<1>0. TypeOK /\ \A r \in Resources : resource[r] \in Row
  BY DEF IInv, FlagsInv, TypeOK
<1>1. CASE CheckHolds(c)
  BY <1>1 DEF CheckHolds, LedgerStep, Untouched
<1>2. CASE Crash(c)
  BY <1>2 DEF Crash, LedgerStep, Untouched
<1>3. ASSUME NEW h \in Holds, CloseHold(c, h) PROVE LedgerStep
  BY <1>3 DEF CloseHold, IInv, CalmCalls
<1>4. ASSUME NEW r \in Resources, TransitionResource(c, r) PROVE LedgerStep
  <2> DEFINE row == Unreserved(SetStatus(resource[r], call[c].target))
  <2>1. call[c] \in LifecycleCall
    BY <1>0, <1>4, CallType DEF TransitionResource
  <2>2. call[c].seen \notin {"ALLOCATED", "IN_USE"} /\ call[c].target \notin {"ALLOCATED", "IN_USE"}
    BY <1>4 DEF TransitionResource, IInv, CalmCalls
  <2>3. row \in Row /\ row.status \notin {"ALLOCATED", "IN_USE"}
    <3>1. call[c].target \in Status
      BY <2>1 DEF LifecycleCall
    <3>2. /\ SetStatus(resource[r], call[c].target) \in Row
          /\ SetStatus(resource[r], call[c].target).status = call[c].target
      BY <1>0, <3>1, SetStatusRow
    <3> QED
      BY <2>2, <3>2, UnreservedRow
  <2>4. CASE StatusCondition(resource[r], call[c].org, call[c].seen)
    <3>1. /\ resource' = [resource EXCEPT ![r] = row]
          /\ alloc' = alloc
          /\ resource[r].status # "ALLOCATED"
      BY <1>4, <2>2, <2>4 DEF TransitionResource, StatusCondition
    <3> HIDE DEF row
    <3> QED
      BY <1>0, <2>3, <3>1, RowStep
  <2>5. CASE ~StatusCondition(resource[r], call[c].org, call[c].seen)
    BY <1>4, <2>5 DEF TransitionResource, LedgerStep, Untouched
  <2> QED
    BY <2>4, <2>5
<1>5. ASSUME NEW r \in Resources, NEW op \in Endpoints, NEW target \in Status,
             ReadRow(c, r, op, target)
      PROVE  LedgerStep
  BY <1>5 DEF ReadRow, LedgerStep, Untouched
<1> QED
  BY <1>1, <1>2, <1>3, <1>4, <1>5

LEMMA ExpiryStep == IInv /\ Expiry => LedgerStep
<1> SUFFICES ASSUME IInv, NEW r \in Resources,
                    QueryDueReservation(r) \/ ExpireReservation(r) \/ LapseReservation(r)
             PROVE  LedgerStep
  BY DEF Expiry
<1>0. TypeOK /\ resource[r] \in Row
  BY DEF IInv, FlagsInv, TypeOK
<1>1. CASE QueryDueReservation(r)
  BY <1>1 DEF QueryDueReservation, LedgerStep, Untouched
<1>2. CASE ExpireReservation(r)
  <2> DEFINE row == Unreserved(SetStatus(resource[r], "AVAILABLE"))
  <2>1. row \in Row /\ row.status = "AVAILABLE"
    BY <1>0, SetStatusRow, UnreservedRow DEF Status
  <2>2. CASE SameReservation(resource[r], dueItem[r])
    <3>1. /\ resource' = [resource EXCEPT ![r] = row]
          /\ alloc' = alloc
          /\ resource[r].status # "ALLOCATED"
      BY <1>2, <2>2 DEF ExpireReservation, SameReservation
    <3> HIDE DEF row
    <3> QED
      BY <1>0, <2>1, <3>1, RowStep
  <2>3. CASE ~SameReservation(resource[r], dueItem[r])
    BY <1>2, <2>3 DEF ExpireReservation, LedgerStep, Untouched
  <2> QED
    BY <2>2, <2>3
<1>3. CASE LapseReservation(r)
  <2> DEFINE row == [resource[r] EXCEPT !.due = "lapsed"]
  <2>1. resource[r].status = "RESERVED"
    BY <1>3 DEF LapseReservation, IInv, FlagsInv, FlagsAgree
  <2>2. row \in Row /\ row.status = "RESERVED"
    BY <1>0, <2>1 DEF Row
  <2>3. resource' = [resource EXCEPT ![r] = row] /\ alloc' = alloc
    BY <1>3 DEF LapseReservation
  <2> HIDE DEF row
  <2> QED
    BY <1>0, <2>1, <2>2, <2>3, RowStep
<1> QED
  BY <1>1, <1>2, <1>3

\* A call that passes its checks saw a row nobody holds.
LEMMA CalmStep == Disciplined /\ IInv /\ Lifecycle => CalmCalls'
<1> SUFFICES ASSUME Disciplined, IInv, NEW c \in Calls,
                    \/ CheckHolds(c)
                    \/ Crash(c)
                    \/ \E h \in Holds : CloseHold(c, h)
                    \/ \E r \in Resources :
                          \/ TransitionResource(c, r)
                          \/ \E op \in Endpoints, target \in Status : ReadRow(c, r, op, target)
             PROVE  CalmCalls'
  BY DEF Lifecycle
<1> DEFINE Calm(k) == k.step # "idle" =>
                         /\ k.step # "closing"
                         /\ k.op # "return_to_available"
                         /\ k.seen \notin {"ALLOCATED", "IN_USE"}
                         /\ k.target \notin {"ALLOCATED", "IN_USE"}
                         /\ k.open = {}
<1>0. TypeOK /\ (\A k \in Calls : Calm(call[k])) /\ Calm(Idle)
  BY DEF IInv, FlagsInv, CalmCalls, Idle
<1>1. ASSUME NEW new, Calm(new), call' = [call EXCEPT ![c] = new] PROVE CalmCalls'
  BY <1>0, <1>1 DEF CalmCalls, TypeOK
<1>2. CASE CheckHolds(c)
  <2>1. CASE Refused(c)
    BY <1>0, <1>1, <1>2, <2>1 DEF CheckHolds
  <2>2. CASE ~Refused(c)
    <3> DEFINE new == [call[c] EXCEPT !.step = "checked", !.open = SeenHolds(c)]
    <3>1. call[c] \in LifecycleCall
      BY <1>0, <1>2, CallType DEF CheckHolds
    <3>2. SeenHolds(c) = {}
      BY <1>0, <1>2, <2>2 DEF CheckHolds, Refused
    <3>3. /\ new.step = "checked" /\ new.open = {}
          /\ new.op = call[c].op /\ new.seen = call[c].seen /\ new.target = call[c].target
      BY <3>1, <3>2 DEF LifecycleCall
    <3>4. Calm(call[c]) /\ call[c].step = "row"
      BY <1>0, <1>2 DEF CheckHolds
    <3>5. Calm(new)
      BY <3>3, <3>4
    <3>6. call' = [call EXCEPT ![c] = new]
      BY <1>2, <2>2 DEF CheckHolds
    <3> HIDE DEF new, Calm
    <3> QED
      BY <1>1, <3>5, <3>6
  <2> QED
    BY <2>1, <2>2
<1>3. CASE Crash(c)
  BY <1>0, <1>1, <1>3 DEF Crash
<1>4. ASSUME NEW h \in Holds, CloseHold(c, h) PROVE CalmCalls'
  BY <1>0, <1>4 DEF CloseHold
<1>5. ASSUME NEW r \in Resources, TransitionResource(c, r) PROVE CalmCalls'
  <2>1. call[c].open = {}
    BY <1>0, <1>5 DEF TransitionResource
  <2>2. call' = [call EXCEPT ![c] = Idle]
    BY <1>5, <2>1 DEF TransitionResource
  <2> QED
    BY <1>0, <1>1, <2>2
<1>6. ASSUME NEW r \in Resources, NEW op \in Endpoints, NEW target \in Status,
             ReadRow(c, r, op, target)
      PROVE  CalmCalls'
  <2> DEFINE new == [step |-> IF op \in HoldChecked THEN "row" ELSE "checked",
                     op |-> op, target |-> target, resource |-> r,
                     org |-> resource[r].org, seen |-> resource[r].status,
                     open |-> {}]
  <2>1. resource[r].status \in Status \ {"ALLOCATED", "IN_USE"}
    BY <1>0, <1>6 DEF ReadRow, Disciplined, IInv, Ledger, NotInUse, TypeOK, Row
  <2>2. op # "return_to_available"
    BY <1>6, <2>1 DEF ReadRow
  <2>3. target \in Targets[op]
    BY <1>6 DEF ReadRow
  <2>4. target # "ALLOCATED"
    BY <2>3 DEF Targets, Endpoints
  <2>5. target # "IN_USE"
    BY <1>6, <2>1 DEF ReadRow, AllowedTransitions, Status
  <2>6. Calm(new)
    BY <2>1, <2>2, <2>4, <2>5
  <2>7. call' = [call EXCEPT ![c] = new]
    BY <1>6 DEF ReadRow
  <2> HIDE DEF new, Calm
  <2> QED
    BY <1>1, <2>6, <2>7
<1> QED
  BY <1>2, <1>3, <1>4, <1>5, <1>6

\* The four ways a step may treat the two tables are all there are.
LEMMA NextLedger == IInv /\ Next => LedgerStep
<1>1. ASSUME NEW h \in Requests \cup Exchanges, PassDeadline(h) PROVE LedgerStep
  BY <1>1 DEF PassDeadline, LedgerStep, Untouched
<1>2. CASE StoreOrCloseMalformed
  BY <1>2 DEF StoreOrCloseMalformed, LedgerStep, Untouched
<1> QED
  BY <1>1, <1>2, EverydayStep, EmergencyStep, ExchangeStep, LifecycleStep, ExpiryStep DEF Next

LEMMA SoleHolderStep == IInv /\ Next => SoleHolder'
<1> SUFFICES ASSUME IInv, Next PROVE SoleHolder'
  OBVIOUS
<1>0. TypeOK /\ SoleHolder /\ OneHold /\ Requests \subseteq Holds
  BY DEF IInv, FlagsInv, Ledger, Holds
<1>1. ASSUME decision' = decision PROVE SoleHolder'
  BY <1>0, <1>1 DEF SoleHolder
<1>2. CASE Emergency
  <2> SUFFICES ASSUME NEW q \in Requests,
                      \/ CloseUnallocated(q)
                      \/ CompleteRequest(q)
                      \/ LookupHolders(q)
                      \/ \E r \in Resources :
                            EmergencyClaim(q, r) \/ ReleaseResource(q, r) \/ AutoRelease(q, r)
               PROVE  SoleHolder'
    BY <1>2 DEF Emergency
  <2>1. CASE LookupHolders(q)
    <3>1. ~\E p \in Requests \ {q} :
              /\ alloc[p].status = "ALLOCATED"
              /\ alloc[p].resource = alloc[q].resource
              /\ alloc[p].org = alloc[q].org
      BY <1>0, <2>1 DEF LookupHolders, OneHold, Live
    <3>2. decision' = [decision EXCEPT ![q] = "free"]
      BY <2>1, <3>1 DEF LookupHolders, OtherHolder
    <3> QED
      BY <1>0, <3>2 DEF SoleHolder, TypeOK
  <2>2. ASSUME NEW r \in Resources, AutoRelease(q, r) PROVE SoleHolder'
    BY <1>0, <2>2 DEF AutoRelease, SoleHolder, TypeOK
  <2> QED
    BY <1>1, <2>1, <2>2 DEF CloseUnallocated, CompleteRequest, EmergencyClaim,
       ReleaseResource
<1>3. CASE Everyday
  BY <1>1, <1>3 DEF Everyday, Register, Reserve, ReleaseReservation, EverydayAllocate,
     AllocationItems,
                    EverydayReturn, ReturnItems
<1>4. CASE Exchange
  BY <1>1, <1>4 DEF Exchange, StartTransferCommit, CancelExchange, ExpireExchange,
                    AcceptOffer, StartTransferRead, ConfirmHandover
<1>5. CASE Lifecycle
  BY <1>1, <1>5 DEF Lifecycle, CheckHolds, Crash, CloseHold, TransitionResource, ReadRow
<1>6. CASE Expiry
  BY <1>1, <1>6 DEF Expiry, QueryDueReservation, ExpireReservation, LapseReservation
<1>7. ASSUME NEW h \in Requests \cup Exchanges, PassDeadline(h) PROVE SoleHolder'
  BY <1>1, <1>7 DEF PassDeadline
<1>8. CASE StoreOrCloseMalformed
  BY <1>1, <1>8 DEF StoreOrCloseMalformed
<1> QED
  BY <1>2, <1>3, <1>4, <1>5, <1>6, <1>7, <1>8 DEF Next

LEMMA CalmNext == Disciplined /\ IInv /\ Next => CalmCalls'
<1> SUFFICES ASSUME Disciplined, IInv, Next PROVE CalmCalls'
  OBVIOUS
<1>1. ASSUME call' = call PROVE CalmCalls'
  BY <1>1 DEF IInv, CalmCalls
<1>2. CASE Everyday
  BY <1>1, <1>2 DEF Everyday, Register, Reserve, ReleaseReservation, EverydayAllocate,
     AllocationItems,
                    EverydayReturn, ReturnItems
<1>3. CASE Emergency
  BY <1>1, <1>3 DEF Emergency, CloseUnallocated, CompleteRequest, LookupHolders,
                    EmergencyClaim, ReleaseResource, AutoRelease
<1>4. CASE Exchange
  BY <1>1, <1>4 DEF Exchange, StartTransferCommit, CancelExchange, ExpireExchange,
                    AcceptOffer, StartTransferRead, ConfirmHandover
<1>5. CASE Expiry
  BY <1>1, <1>5 DEF Expiry, QueryDueReservation, ExpireReservation, LapseReservation
<1>6. ASSUME NEW h \in Requests \cup Exchanges, PassDeadline(h) PROVE CalmCalls'
  BY <1>1, <1>6 DEF PassDeadline
<1>7. CASE StoreOrCloseMalformed
  BY <1>1, <1>7 DEF StoreOrCloseMalformed
<1> QED
  BY <1>2, <1>3, <1>4, <1>5, <1>6, <1>7, CalmStep DEF Next

LEMMA IInvInit == Init => IInv
<1> SUFFICES ASSUME Init PROVE IInv
  OBVIOUS
<1>1. FlagsInv
  BY InitType, FlagsInit DEF FlagsInv
<1>2. (\A h \in Holds : ~Live(h)) /\ \A r \in Resources : resource[r].status = "ABSENT"
  BY DEF Init, Live, NoAllocation, NoRow
<1>3. Ledger
  BY <1>2 DEF Ledger, OneHold, HeldRow, AllocatedRow, NotInUse
<1>4. CalmCalls /\ SoleHolder
  BY DEF Init, CalmCalls, SoleHolder, Idle
<1> QED
  BY <1>1, <1>3, <1>4 DEF IInv

LEMMA IInvNext == Disciplined /\ IInv /\ [Next]_vars => IInv'
<1> SUFFICES ASSUME Disciplined, IInv, [Next]_vars PROVE IInv'
  OBVIOUS
<1>1. FlagsInv'
  BY FlagsNext DEF IInv
<1>2. CASE Next
  <2>1. Ledger'
    BY <1>1, <1>2, NextLedger, LedgerKept DEF IInv, FlagsInv
  <2> QED
    BY <1>1, <1>2, <2>1, CalmNext, SoleHolderStep DEF IInv
<1>3. CASE UNCHANGED vars
  BY <1>1, <1>3 DEF vars, IInv, Ledger, OneHold, HeldRow, AllocatedRow, NotInUse, Live,
                    CalmCalls, SoleHolder
<1> QED
  BY <1>2, <1>3

LEMMA IInvImplies == IInv => HoldExclusive /\ HoldOwner
<1> SUFFICES ASSUME IInv PROVE HoldExclusive /\ HoldOwner
  OBVIOUS
<1>1. HoldOwner
  BY DEF IInv, Ledger, HeldRow, HoldOwner
<1>2. ASSUME NEW r \in Resources, resource[r].status \in {"ALLOCATED", "IN_USE"}
      PROVE  \E h \in Holds : HoldsOn(r) = {h}
  <2>1. PICK h \in Holds : Live(h) /\ alloc[h].resource = r
    BY <1>2 DEF IInv, Ledger, AllocatedRow, NotInUse
  <2>2. \A k \in HoldsOn(r) : k = h
    BY <2>1 DEF HoldsOn, IInv, Ledger, OneHold
  <2> QED
    BY <2>1, <2>2 DEF HoldsOn
<1>3. ASSUME NEW r \in Resources, resource[r].status \notin {"ALLOCATED", "IN_USE"}
      PROVE  HoldsOn(r) = {}
  BY <1>3 DEF HoldsOn, IInv, Ledger, HeldRow
<1> QED
  BY <1>1, <1>2, <1>3 DEF HoldExclusive

LEMMA IInvCorrect == Disciplined /\ Spec => []IInv
<1> SUFFICES ASSUME Disciplined PROVE Spec => []IInv
  OBVIOUS
<1>1. IInv /\ [Next]_vars => IInv'
  BY IInvNext
<1> QED
  BY <1>1, IInvInit, PTL DEF Spec

\* While operators leave held items to the workflow that holds them, no two of
\* claims, everyday allocations and exchange holds are ever on one resource.
THEOREM ExclusiveCorrect == Disciplined /\ Spec => []HoldExclusive
<1>1. IInv => HoldExclusive
  BY IInvImplies
<1> QED
  BY <1>1, IInvCorrect, PTL

\* Under the same assumption a hold always belongs to the owner of its resource.
THEOREM OwnerCorrect == Disciplined /\ Spec => []HoldOwner
<1>1. IInv => HoldOwner
  BY IInvImplies
<1> QED
  BY <1>1, IInvCorrect, PTL
-----------------------------------------------------------------------------
(* The two tables implement the abstract lock.                             *)

HoldsMap == [r \in Resources |-> HoldsOn(r)]

UsedHolds == {h \in Holds : alloc[h] # NoAllocation}

\* A step that leaves the Allocations table alone leaves the lock alone.
LEMMA SameAlloc == alloc' = alloc => HoldsMap' = HoldsMap /\ UsedHolds' = UsedHolds
  BY DEF HoldsMap, UsedHolds, HoldsOn, Live

LEMMA LockTake ==
    ASSUME TypeOK, TypeOK', Ledger, NEW r \in Resources, NEW h \in Holds, Takes(r, h)
    PROVE  /\ HoldsMap[r] = {}
           /\ h \notin UsedHolds
           /\ HoldsMap' = [HoldsMap EXCEPT ![r] = {h}]
           /\ UsedHolds' = UsedHolds \cup {h}
<1>1. \A k \in Holds : Live(k) => alloc[k].resource # r
  BY DEF Takes, Ledger, HeldRow
<1>2. \A k \in Holds \ {h} : Live(k)' <=> Live(k)
  BY DEF Takes, Live
<1>3. ~Live(h) /\ Live(h)' /\ alloc'[h].resource = r /\ alloc'[h] # NoAllocation
  BY DEF Takes, Live, NoAllocation
<1>4. HoldsOn(r) = {}
  BY <1>1 DEF HoldsOn
<1>5. HoldsOn(r)' = {h}
  BY <1>1, <1>2, <1>3 DEF HoldsOn, Takes
<1>6. \A s \in Resources \ {r} : HoldsOn(s)' = HoldsOn(s)
  BY <1>2, <1>3 DEF HoldsOn, Takes
<1>7. HoldsMap' = [HoldsMap EXCEPT ![r] = {h}]
  BY <1>5, <1>6 DEF HoldsMap
<1>8. h \notin UsedHolds /\ UsedHolds' = UsedHolds \cup {h}
  BY <1>3 DEF UsedHolds, Takes
<1> QED
  BY <1>4, <1>7, <1>8 DEF HoldsMap

LEMMA LockGive ==
    ASSUME TypeOK, TypeOK', Ledger, NEW r \in Resources, NEW h \in Holds, Gives(r, h)
    PROVE  /\ HoldsMap[r] # {}
           /\ HoldsMap' = [HoldsMap EXCEPT ![r] = {}]
           /\ UsedHolds' = UsedHolds
<1>1. \A k \in Holds \ {h} : Live(k) => alloc[k].resource # r
  BY DEF Gives, Ledger, OneHold
<1>2. \A k \in Holds \ {h} : Live(k)' <=> Live(k)
  BY DEF Gives, Live
<1>3. Live(h) /\ ~Live(h)' /\ alloc[h].resource = r
  BY DEF Gives, Live
<1>4. alloc[h] # NoAllocation /\ alloc'[h] # NoAllocation
  BY DEF Gives, Live, NoAllocation
<1>5. h \in HoldsOn(r)
  BY <1>3 DEF HoldsOn
<1>6. HoldsOn(r)' = {}
  BY <1>1, <1>2, <1>3 DEF HoldsOn, Gives
<1>7. \A s \in Resources \ {r} : HoldsOn(s)' = HoldsOn(s)
  BY <1>2, <1>3 DEF HoldsOn, Gives
<1>8. HoldsMap' = [HoldsMap EXCEPT ![r] = {}]
  BY <1>6, <1>7 DEF HoldsMap
<1>9. UsedHolds' = UsedHolds
  BY <1>4 DEF UsedHolds, Gives
<1> QED
  BY <1>5, <1>8, <1>9 DEF HoldsMap

LEMMA LockStep ==
    TypeOK /\ TypeOK' /\ Ledger /\ LedgerStep => [Lock!Next]_(Lock!lockVars)
<1> SUFFICES ASSUME TypeOK, TypeOK', Ledger, LedgerStep
             PROVE  [Lock!Next]_(Lock!lockVars)
  OBVIOUS
<1> USE DEF HoldsMap, UsedHolds
<1>1. CASE alloc' = alloc
  BY <1>1, SameAlloc DEF Lock!lockVars
<1>2. ASSUME NEW r \in Resources, NEW h \in Holds, Takes(r, h) PROVE Lock!Next
  BY <1>2, LockTake DEF Lock!Next, Lock!Take
<1>3. ASSUME NEW r \in Resources, NEW h \in Holds, Gives(r, h) PROVE Lock!Next
  BY <1>3, LockGive DEF Lock!Next, Lock!GiveBack
<1> QED
  BY <1>1, <1>2, <1>3 DEF LedgerStep, Untouched, RowOnly

\* While operators leave held items to the workflow that holds them, the rows
\* and transactions of the three workflows together are one lock per resource.
THEOREM LockCorrect == Disciplined /\ Spec => ImplementsLock
<1> SUFFICES ASSUME Disciplined PROVE Spec => ImplementsLock
  OBVIOUS
<1>1. Init => Lock!Init
  BY DEF Init, Lock!Init, HoldsOn, Live, NoAllocation
<1>2. IInv /\ IInv' /\ [Next]_vars => [Lock!Next]_(Lock!lockVars)
  <2>1. CASE UNCHANGED vars
    BY <2>1, SameAlloc DEF vars, HoldsMap, UsedHolds, Lock!lockVars
  <2> QED
    BY <2>1, NextLedger, LockStep DEF IInv, FlagsInv
<1> QED
  BY <1>1, <1>2, IInvCorrect, PTL DEF Spec, ImplementsLock, Lock!Spec
-----------------------------------------------------------------------------
(* The story of a hold: its allocation and the request or exchange row that *)
(* commits with it, whatever operators do to held items.                   *)

RequestTells(q) ==
    /\ request[q] \in {"ALLOCATED", "COMPLETED"} => alloc[q].status = "ALLOCATED"
    /\ request[q] = "RELEASED" => alloc[q].status = "RELEASED"
    /\ request[q] \in {"PENDING", "CANCELLED", "REJECTED"} => alloc[q] = NoAllocation

\* An exchange that was never accepted has no allocation: without this part an
\* OPEN exchange that ends could leave one behind.
ExchangeTells(x) ==
    /\ meta[x] = "OPEN" => alloc[x] = NoAllocation
    /\ alloc[x].status = "OPEN" => Held(x)
    /\ meta[x] = "COMPLETED" => alloc[x].status = "RELEASED"
    /\ meta[x] \in {"CANCELLED", "EXPIRED"} => alloc[x].status \in {"NONE", "RELEASED"}

Tells ==
    /\ \A q \in Requests : RequestTells(q)
    /\ \A x \in Exchanges : ExchangeTells(x)

\* What a step may do to a request and its allocation together.
RequestMoves(q) ==
    \/ /\ request[q] = "PENDING" /\ request'[q] \in {"CANCELLED", "REJECTED"}
       /\ alloc'[q] = alloc[q]
    \/ /\ request[q] = "PENDING" /\ request'[q] = "ALLOCATED"
       /\ alloc'[q].status = "ALLOCATED"
    \/ /\ request[q] = "ALLOCATED" /\ request'[q] = "COMPLETED"
       /\ alloc'[q] = alloc[q]
    \/ /\ request'[q] = "RELEASED"
       /\ alloc'[q].status = "RELEASED"

\* What a step may do to an exchange and its allocation together.
ExchangeMoves(x) ==
    \/ /\ meta[x] = "OPEN" /\ meta'[x] = "ACCEPTED"
       /\ alloc'[x].status = "OPEN"
    \/ /\ meta[x] = "ACCEPTED" /\ meta'[x] = "TRANSFER_PENDING"
       /\ alloc'[x] = alloc[x]
    \/ /\ meta'[x] \in {"COMPLETED", "CANCELLED", "EXPIRED"}
       /\ alloc'[x].status = "RELEASED"
    \/ /\ meta[x] = "OPEN" /\ meta'[x] \in {"CANCELLED", "EXPIRED"}
       /\ alloc'[x] = alloc[x]

\* A lifecycle call closes a hold behind the back of its workflow.
Closes(h) ==
    /\ alloc[h].status = "OPEN" /\ alloc'[h].status = "RETURNED"
    /\ UNCHANGED <<request, meta>>
    /\ \E c \in Calls : call[c].step = "closing"

OnlyOf(h) ==
    /\ \A k \in Holds \ {h} : alloc'[k] = alloc[k]
    /\ \A q \in Requests \ {h} : request'[q] = request[q]
    /\ \A x \in Exchanges \ {h} : meta'[x] = meta[x]

HoldMoves(h) ==
    /\ OnlyOf(h)
    /\ \/ h \in Tickets
       \/ h \in Requests /\ RequestMoves(h)
       \/ h \in Exchanges /\ ExchangeMoves(h)
       \/ Closes(h)

StoryStep == UNCHANGED <<alloc, request, meta>> \/ \E h \in Holds : HoldMoves(h)

\* A write of one allocation's status, and of no other allocation.
LEMMA StatusWrite ==
    ASSUME TypeOK, NEW h \in Holds, NEW s, alloc' = [alloc EXCEPT ![h].status = s]
    PROVE  /\ \A k \in Holds \ {h} : alloc'[k] = alloc[k]
           /\ alloc'[h].status = s
  BY DEF TypeOK, Allocation, NoAllocation

LEMMA EverydayStory == TypeOK /\ Everyday => StoryStep
<1> SUFFICES ASSUME TypeOK, Everyday PROVE StoryStep
  OBVIOUS
<1>1. ASSUME NEW r \in Resources, NEW t \in Tickets, EverydayAllocate(r, t) \/ EverydayReturn(r, t)
      PROVE  StoryStep
  <2>1. \A k \in Holds \ {t} : alloc'[k] = alloc[k]
    BY <1>1, StatusWrite DEF EverydayAllocate, AllocationItems, EverydayReturn, ReturnItems, TypeOK, Holds
  <2>2. UNCHANGED <<request, meta>>
    BY <1>1 DEF EverydayAllocate, EverydayReturn
  <2> QED
    BY <2>1, <2>2 DEF StoryStep, HoldMoves, OnlyOf, Holds
<1>2. ASSUME NEW r \in Resources,
             \/ \E o \in Orgs : Register(r, o)
             \/ \E u \in Users : Reserve(r, u) \/ ReleaseReservation(r, u)
      PROVE  StoryStep
  BY <1>2 DEF Register, Reserve, ReleaseReservation, StoryStep
<1> QED
  BY <1>1, <1>2 DEF Everyday

LEMMA EmergencyStory == TypeOK /\ Emergency => StoryStep
<1> SUFFICES ASSUME TypeOK, NEW q \in Requests,
                    \/ CloseUnallocated(q)
                    \/ CompleteRequest(q)
                    \/ LookupHolders(q)
                    \/ \E r \in Resources :
                          EmergencyClaim(q, r) \/ ReleaseResource(q, r) \/ AutoRelease(q, r)
             PROVE  StoryStep
  BY DEF Emergency
<1>0. q \in Holds /\ request \in [Requests -> {"PENDING", "ALLOCATED", "RELEASED", "COMPLETED",
                                               "CANCELLED", "REJECTED"}]
  BY DEF Holds, TypeOK
<1>1. ASSUME RequestMoves(q), OnlyOf(q) PROVE StoryStep
  BY <1>0, <1>1 DEF StoryStep, HoldMoves
<1>2. ASSUME NEW r \in Resources, NEW free \in BOOLEAN, CommitRelease(q, r, free), meta' = meta
      PROVE  StoryStep
  <2>1. (\A k \in Holds \ {q} : alloc'[k] = alloc[k]) /\ alloc'[q].status = "RELEASED"
    BY <1>0, <1>2, StatusWrite DEF CommitRelease
  <2>2. OnlyOf(q) /\ request'[q] = "RELEASED"
    BY <1>0, <1>2, <2>1 DEF CommitRelease, OnlyOf
  <2> QED
    BY <1>1, <2>1, <2>2 DEF RequestMoves
<1>3. CASE CloseUnallocated(q)
  <2>1. PICK s \in {"CANCELLED", "REJECTED"} : request' = [request EXCEPT ![q] = s]
    BY <1>3 DEF CloseUnallocated
  <2> QED
    BY <1>0, <1>1, <1>3, <2>1 DEF CloseUnallocated, RequestMoves, OnlyOf
<1>4. CASE CompleteRequest(q)
  BY <1>0, <1>1, <1>4 DEF CompleteRequest, RequestMoves, OnlyOf
<1>5. CASE LookupHolders(q)
  BY <1>5 DEF LookupHolders, StoryStep
<1>6. ASSUME NEW r \in Resources, EmergencyClaim(q, r) PROVE StoryStep
  <2>1. (\A k \in Holds \ {q} : alloc'[k] = alloc[k]) /\ alloc'[q].status = "ALLOCATED"
    BY <1>0, <1>6 DEF EmergencyClaim, TypeOK
  <2> QED
    BY <1>0, <1>1, <1>6, <2>1 DEF EmergencyClaim, RequestMoves, OnlyOf
<1>7. ASSUME NEW r \in Resources, ReleaseResource(q, r) PROVE StoryStep
  BY <1>2, <1>7 DEF ReleaseResource
<1>8. ASSUME NEW r \in Resources, AutoRelease(q, r) PROVE StoryStep
  <2>1. CASE CanRelease(q, r, decision[q] = "free")
    <3>1. (decision[q] = "free") \in BOOLEAN
      OBVIOUS
    <3>2. CommitRelease(q, r, decision[q] = "free") /\ meta' = meta
      BY <1>8, <2>1 DEF AutoRelease
    <3> QED
      BY <1>2, <3>1, <3>2
  <2>2. CASE ~CanRelease(q, r, decision[q] = "free")
    BY <1>8, <2>2 DEF AutoRelease, StoryStep
  <2> QED
    BY <2>1, <2>2
<1> QED
  BY <1>3, <1>4, <1>5, <1>6, <1>7, <1>8

LEMMA ExchangeStory == TypeOK /\ Exchange => StoryStep
<1> SUFFICES ASSUME TypeOK, NEW x \in Exchanges,
                    \/ StartTransferCommit(x)
                    \/ CancelExchange(x)
                    \/ ExpireExchange(x)
                    \/ \E r \in Resources :
                          AcceptOffer(x, r) \/ StartTransferRead(x, r) \/ ConfirmHandover(x, r)
             PROVE  StoryStep
  BY DEF Exchange
<1>0. x \in Holds /\ meta \in [Exchanges -> {"OPEN", "ACCEPTED", "TRANSFER_PENDING", "COMPLETED",
                                             "CANCELLED", "EXPIRED"}]
  BY DEF Holds, TypeOK
<1>1. ASSUME ExchangeMoves(x), OnlyOf(x) PROVE StoryStep
  BY <1>0, <1>1 DEF StoryStep, HoldMoves
<1>2. ASSUME NEW terminal \in {"CANCELLED", "EXPIRED"}, EndExchange(x, terminal), request' = request
      PROVE  StoryStep
  <2>1. CASE meta[x] = "OPEN" /\ UNCHANGED <<resource, alloc>>
    BY <1>0, <1>1, <1>2, <2>1 DEF EndExchange, ExchangeMoves, OnlyOf
  <2>2. CASE alloc' = [alloc EXCEPT ![x].status = "RELEASED"]
    <3>1. (\A k \in Holds \ {x} : alloc'[k] = alloc[k]) /\ alloc'[x].status = "RELEASED"
      BY <1>0, <2>2, StatusWrite
    <3> QED
      BY <1>0, <1>1, <1>2, <3>1 DEF EndExchange, ExchangeMoves, OnlyOf
  <2> QED
    BY <1>2, <2>1, <2>2 DEF EndExchange
<1>3. CASE StartTransferCommit(x)
  BY <1>0, <1>1, <1>3 DEF StartTransferCommit, StoryStep, ExchangeMoves, OnlyOf
<1>4. CASE CancelExchange(x) \/ ExpireExchange(x)
  BY <1>2, <1>4 DEF CancelExchange, ExpireExchange
<1>5. ASSUME NEW r \in Resources, AcceptOffer(x, r) PROVE StoryStep
  <2>1. (\A k \in Holds \ {x} : alloc'[k] = alloc[k]) /\ alloc'[x].status = "OPEN"
    BY <1>0, <1>5 DEF AcceptOffer, TypeOK
  <2> QED
    BY <1>0, <1>1, <1>5, <2>1 DEF AcceptOffer, ExchangeMoves, OnlyOf
<1>6. ASSUME NEW r \in Resources, StartTransferRead(x, r) PROVE StoryStep
  BY <1>6 DEF StartTransferRead, StoryStep
<1>7. ASSUME NEW r \in Resources, ConfirmHandover(x, r) PROVE StoryStep
  <2>1. (\A k \in Holds \ {x} : alloc'[k] = alloc[k]) /\ alloc'[x].status = "RELEASED"
    BY <1>0, <1>7, StatusWrite DEF ConfirmHandover
  <2> QED
    BY <1>0, <1>1, <1>7, <2>1 DEF ConfirmHandover, ExchangeMoves, OnlyOf
<1> QED
  BY <1>3, <1>4, <1>5, <1>6, <1>7

LEMMA LifecycleStory == TypeOK /\ Lifecycle => StoryStep
<1> SUFFICES ASSUME TypeOK, NEW c \in Calls,
                    \/ CheckHolds(c)
                    \/ Crash(c)
                    \/ \E h \in Holds : CloseHold(c, h)
                    \/ \E r \in Resources :
                          \/ TransitionResource(c, r)
                          \/ \E op \in Endpoints, target \in Status : ReadRow(c, r, op, target)
             PROVE  StoryStep
  BY DEF Lifecycle
<1>1. ASSUME NEW h \in Holds, CloseHold(c, h) PROVE StoryStep
  <2>1. CASE alloc' = alloc
    BY <1>1, <2>1 DEF CloseHold, StoryStep
  <2>2. CASE alloc' # alloc
    <3>1. alloc' = [alloc EXCEPT ![h].status = "RETURNED"] /\ alloc[h].status = "OPEN"
      BY <1>1, <2>2 DEF CloseHold
    <3>2. (\A k \in Holds \ {h} : alloc'[k] = alloc[k]) /\ alloc'[h].status = "RETURNED"
      BY <3>1, StatusWrite
    <3> QED
      BY <1>1, <3>1, <3>2 DEF CloseHold, StoryStep, HoldMoves, OnlyOf, Closes
  <2> QED
    BY <2>1, <2>2
<1>2. CASE CheckHolds(c) \/ Crash(c)
  BY <1>2 DEF CheckHolds, Crash, StoryStep
<1>3. ASSUME NEW r \in Resources,
             \/ TransitionResource(c, r)
             \/ \E op \in Endpoints, target \in Status : ReadRow(c, r, op, target)
      PROVE  StoryStep
  BY <1>3 DEF TransitionResource, ReadRow, StoryStep
<1> QED
  BY <1>1, <1>2, <1>3

\* Every step tells one story at most.
LEMMA NextStory == TypeOK /\ [Next]_vars => StoryStep
<1>1. Expiry => StoryStep
  BY DEF Expiry, QueryDueReservation, ExpireReservation, LapseReservation, StoryStep
<1>2. (\E h \in Requests \cup Exchanges : PassDeadline(h)) => StoryStep
  BY DEF PassDeadline, StoryStep
<1>3. UNCHANGED vars => StoryStep
  BY DEF vars, StoryStep
<1>4. StoreOrCloseMalformed => StoryStep
  BY DEF StoreOrCloseMalformed, StoryStep
<1> QED
  BY <1>1, <1>2, <1>3, <1>4, EverydayStory, EmergencyStory, ExchangeStory, LifecycleStory DEF Next

LEMMA TellsStep == TypeOK /\ Tells /\ StoryStep => Tells'
<1> SUFFICES ASSUME TypeOK, Tells, StoryStep PROVE Tells'
  OBVIOUS
<1>1. CASE UNCHANGED <<alloc, request, meta>>
  BY <1>1 DEF Tells, RequestTells, ExchangeTells, Held
<1>2. ASSUME NEW h \in Holds, HoldMoves(h) PROVE Tells'
  <2>1. OnlyOf(h)
    BY <1>2 DEF HoldMoves
  <2>2. ASSUME NEW q \in Requests \ {h} PROVE RequestTells(q)'
    BY <2>1 DEF OnlyOf, Tells, RequestTells, Holds
  <2>3. ASSUME NEW x \in Exchanges \ {h} PROVE ExchangeTells(x)'
    BY <2>1 DEF OnlyOf, Tells, ExchangeTells, Held, Holds
  <2>4. ASSUME h \in Requests PROVE RequestTells(h)'
    <3>1. RequestTells(h) /\ h \notin Tickets /\ h \notin Exchanges
          /\ request[h] \in {"PENDING", "ALLOCATED", "RELEASED", "COMPLETED", "CANCELLED", "REJECTED"}
      BY <2>4, HoldsDisjoint DEF Tells, TypeOK
    <3>2. CASE RequestMoves(h)
      BY <3>1, <3>2 DEF RequestMoves, RequestTells
    <3>3. CASE Closes(h)
      BY <3>1, <3>3 DEF Closes, RequestTells, NoAllocation
    <3> QED
      BY <1>2, <3>1, <3>2, <3>3 DEF HoldMoves
  <2>5. ASSUME h \in Exchanges PROVE ExchangeTells(h)'
    <3>1. ExchangeTells(h) /\ h \notin Tickets /\ h \notin Requests
          /\ meta[h] \in {"OPEN", "ACCEPTED", "TRANSFER_PENDING", "COMPLETED", "CANCELLED", "EXPIRED"}
      BY <2>5, HoldsDisjoint DEF Tells, TypeOK
    <3>2. CASE ExchangeMoves(h)
      BY <3>1, <3>2 DEF ExchangeMoves, ExchangeTells, Held, NoAllocation
    <3>3. CASE Closes(h)
      BY <3>1, <3>3 DEF Closes, ExchangeTells, Held, NoAllocation
    <3> QED
      BY <1>2, <3>1, <3>2, <3>3 DEF HoldMoves
  <2> QED
    BY <2>2, <2>3, <2>4, <2>5 DEF Tells
<1> QED
  BY <1>1, <1>2 DEF StoryStep

LEMMA TellsCorrect == Spec => [](TypeOK /\ Tells)
<1>1. Init => TypeOK /\ Tells
  BY InitType DEF Init, Tells, RequestTells, ExchangeTells, Held, NoAllocation, Holds
<1>2. TypeOK /\ Tells /\ [Next]_vars => (TypeOK /\ Tells)'
  BY NextType, NextStory, TellsStep
<1> QED
  BY <1>1, <1>2, PTL DEF Spec

\* Whatever operators and crashes do, an emergency request and its allocation
\* tell the same story: no step writes one of them alone.
THEOREM RequestsCorrect == Spec => []RequestAgrees
<1>1. TypeOK /\ Tells => RequestAgrees
  BY DEF Tells, RequestTells, RequestAgrees, TypeOK
<1> QED
  BY <1>1, TellsCorrect, PTL

\* Whatever operators and crashes do, a hold never outlives its exchange, and
\* an exchange that ended gave back the hold it had.
THEOREM HoldEndsCorrect == Spec => []ExchangeHoldEnds
<1>1. TypeOK /\ Tells => ExchangeHoldEnds
  BY DEF Tells, ExchangeTells, ExchangeHoldEnds
<1> QED
  BY <1>1, TellsCorrect, PTL

-----------------------------------------------------------------------------
(* The hold of an exchange when no lifecycle endpoint is called on it.      *)

\* Nothing but the end of an exchange takes its hold.
LEMMA HoldKeptStep == IInv /\ ExchangeHoldKept /\ StoryStep => ExchangeHoldKept'
<1> SUFFICES ASSUME IInv, ExchangeHoldKept, StoryStep PROVE ExchangeHoldKept'
  OBVIOUS
<1>1. CASE UNCHANGED <<alloc, request, meta>>
  BY <1>1 DEF ExchangeHoldKept, Held
<1>2. ASSUME NEW h \in Holds, HoldMoves(h), NEW x \in Exchanges, Held(x)'
      PROVE  alloc'[x].status = "OPEN"
  <2>1. CASE x # h
    <3>1. alloc'[x] = alloc[x] /\ meta'[x] = meta[x]
      BY <1>2, <2>1 DEF HoldMoves, OnlyOf, Holds
    <3> QED
      BY <1>2, <3>1 DEF ExchangeHoldKept, Held
  <2>2. CASE x = h
    <3>1. h \notin Tickets /\ h \notin Requests
      BY <2>2, HoldsDisjoint
    <3>2. ~Closes(h)
      BY DEF Closes, IInv, CalmCalls
    <3>3. ExchangeMoves(h)
      BY <1>2, <3>1, <3>2 DEF HoldMoves
    <3> QED
      BY <1>2, <2>2, <3>3 DEF ExchangeMoves, ExchangeHoldKept, Held
  <2> QED
    BY <2>1, <2>2
<1> QED
  BY <1>1, <1>2 DEF StoryStep, ExchangeHoldKept

\* While operators leave held items to the workflow that holds them, an
\* exchange awaits its handover exactly as long as it has its hold.
THEOREM ExchangesCorrect == Disciplined /\ Spec => []ExchangeAgrees
<1> SUFFICES ASSUME Disciplined PROVE Spec => []ExchangeAgrees
  OBVIOUS
<1>1. Init => ExchangeHoldKept
  BY DEF Init, ExchangeHoldKept, Held
<1>2. IInv /\ ExchangeHoldKept /\ [Next]_vars => ExchangeHoldKept'
  <2>1. IInv => TypeOK
    BY DEF IInv, FlagsInv
  <2> QED
    BY <2>1, NextStory, HoldKeptStep
<1>3. ExchangeHoldKept /\ TypeOK /\ Tells => ExchangeAgrees
  BY DEF ExchangeHoldKept, Tells, ExchangeTells, ExchangeAgrees
<1>4. Spec => []IInv
  BY IInvCorrect
<1> QED
  BY <1>1, <1>2, <1>3, <1>4, TellsCorrect, PTL DEF Spec

-----------------------------------------------------------------------------
(* A reservation whose two hours are not over.                             *)

\* The ways a step may end a running reservation of r.
EndsRunning(r) ==
    \/ LapseReservation(r)
    \/ \E u \in Users : ReleaseReservation(r, u)
    \/ \E t \in Tickets : EverydayAllocate(r, t)
    \/ \E c \in Calls : TransitionResource(c, r)

\* Writing another row leaves r alone.
LEMMA OtherRow ==
    ASSUME TypeOK, NEW r \in Resources, NEW s \in Resources, NEW row,
           resource' = [resource EXCEPT ![s] = row], resource'[r] # resource[r]
    PROVE  s = r
  BY DEF TypeOK

LEMMA RunningKept ==
    ASSUME FlagsInv, [Next]_vars, NEW r \in Resources,
           resource[r].due = "running", resource'[r] # resource[r]
    PROVE  EndsRunning(r)
<1>0. TypeOK /\ resource[r] \in Row /\ resource[r].status = "RESERVED" /\ ~resource[r].available
  BY DEF FlagsInv, TypeOK, FlagsAgree
<1>1. CASE UNCHANGED vars
  BY <1>1 DEF vars
<1>2. CASE Everyday
  <2>1. ASSUME NEW s \in Resources, NEW o \in Orgs, Register(s, o) PROVE FALSE
    <3>1. s = r
      BY <1>0, <2>1, OtherRow DEF Register
    <3> QED
      BY <1>0, <2>1, <3>1 DEF Register
  <2>2. ASSUME NEW s \in Resources, NEW u \in Users, Reserve(s, u) PROVE FALSE
    <3>1. s = r
      BY <1>0, <2>2, OtherRow DEF Reserve
    <3> QED
      BY <1>0, <2>2, <3>1 DEF Reserve, Claimable
  <2>3. ASSUME NEW s \in Resources, NEW u \in Users, ReleaseReservation(s, u) PROVE EndsRunning(r)
    <3>1. s = r
      BY <1>0, <2>3, OtherRow DEF ReleaseReservation
    <3> QED
      BY <2>3, <3>1 DEF EndsRunning
  <2>4. ASSUME NEW s \in Resources, NEW t \in Tickets, EverydayAllocate(s, t) PROVE EndsRunning(r)
    <3>1. s = r
      BY <1>0, <2>4, OtherRow DEF EverydayAllocate, AllocationItems
    <3> QED
      BY <2>4, <3>1 DEF EndsRunning
  <2>5. ASSUME NEW s \in Resources, NEW t \in Tickets, EverydayReturn(s, t) PROVE FALSE
    <3>1. s = r
      BY <1>0, <2>5, OtherRow DEF EverydayReturn, ReturnItems
    <3> QED
      BY <1>0, <2>5, <3>1 DEF EverydayReturn
  <2> QED
    BY <1>2, <2>1, <2>2, <2>3, <2>4, <2>5 DEF Everyday
<1>3. CASE Emergency
  <2> SUFFICES ASSUME NEW q \in Requests,
                      \/ CloseUnallocated(q)
                      \/ CompleteRequest(q)
                      \/ LookupHolders(q)
                      \/ \E s \in Resources :
                            EmergencyClaim(q, s) \/ ReleaseResource(q, s) \/ AutoRelease(q, s)
               PROVE  FALSE
    BY <1>3 DEF Emergency
  <2>1. ASSUME NEW s \in Resources, NEW free \in BOOLEAN,
               CanRelease(q, s, free), CommitRelease(q, s, free)
        PROVE  FALSE
    <3>1. free /\ s = r
      BY <1>0, <2>1, OtherRow DEF CommitRelease
    <3> QED
      BY <1>0, <2>1, <3>1 DEF CanRelease, StillHeld
  <2>2. CASE CloseUnallocated(q) \/ CompleteRequest(q) \/ LookupHolders(q)
    BY <2>2 DEF CloseUnallocated, CompleteRequest, LookupHolders
  <2>3. ASSUME NEW s \in Resources, EmergencyClaim(q, s) PROVE FALSE
    <3>1. s = r
      BY <1>0, <2>3, OtherRow DEF EmergencyClaim
    <3> QED
      BY <1>0, <2>3, <3>1 DEF EmergencyClaim, Claimable
  <2>4. ASSUME NEW s \in Resources, ReleaseResource(q, s) PROVE FALSE
    BY <2>1, <2>4 DEF ReleaseResource
  <2>5. ASSUME NEW s \in Resources, AutoRelease(q, s) PROVE FALSE
    <3>1. CASE CanRelease(q, s, decision[q] = "free")
      BY <2>1, <2>5, <3>1 DEF AutoRelease
    <3>2. CASE ~CanRelease(q, s, decision[q] = "free")
      BY <2>5, <3>2 DEF AutoRelease
    <3> QED
      BY <3>1, <3>2
  <2> QED
    BY <2>2, <2>3, <2>4, <2>5
<1>4. CASE Exchange
  <2> SUFFICES ASSUME NEW x \in Exchanges,
                      \/ StartTransferCommit(x)
                      \/ CancelExchange(x)
                      \/ ExpireExchange(x)
                      \/ \E s \in Resources :
                            AcceptOffer(x, s) \/ StartTransferRead(x, s) \/ ConfirmHandover(x, s)
               PROVE  FALSE
    BY <1>4 DEF Exchange
  <2>1. ASSUME NEW terminal, EndExchange(x, terminal) PROVE FALSE
    <3>1. /\ Held(x) /\ alloc[x].status = "OPEN"
          /\ StillHeld(resource[alloc[x].resource], alloc[x].org)
          /\ resource' = [resource EXCEPT ![alloc[x].resource] = SetStatus(@, "AVAILABLE")]
      BY <2>1 DEF EndExchange
    <3>2. alloc[x].resource \in Resources
      BY <1>0, <3>1 DEF TypeOK, Holds, Allocation, NoAllocation
    <3>3. alloc[x].resource = r
      BY <1>0, <3>1, <3>2, OtherRow
    <3> QED
      BY <1>0, <3>1, <3>3 DEF StillHeld
  <2>2. CASE StartTransferCommit(x)
    BY <2>2 DEF StartTransferCommit
  <2>3. CASE CancelExchange(x) \/ ExpireExchange(x)
    BY <2>1, <2>3 DEF CancelExchange, ExpireExchange
  <2>4. ASSUME NEW s \in Resources, AcceptOffer(x, s) PROVE FALSE
    <3>1. s = r
      BY <1>0, <2>4, OtherRow DEF AcceptOffer
    <3> QED
      BY <1>0, <2>4, <3>1 DEF AcceptOffer, Claimable
  <2>5. ASSUME NEW s \in Resources, StartTransferRead(x, s) PROVE FALSE
    BY <2>5 DEF StartTransferRead
  <2>6. ASSUME NEW s \in Resources, ConfirmHandover(x, s) PROVE FALSE
    <3>1. s = r
      BY <1>0, <2>6, OtherRow DEF ConfirmHandover
    <3> QED
      BY <1>0, <2>6, <3>1 DEF ConfirmHandover, StillHeld
  <2> QED
    BY <2>2, <2>3, <2>4, <2>5, <2>6
<1>5. CASE Lifecycle
  <2>1. ASSUME NEW c \in Calls, NEW s \in Resources, TransitionResource(c, s) PROVE EndsRunning(r)
    <3>1. s = r
      BY <1>0, <2>1, OtherRow DEF TransitionResource
    <3> QED
      BY <2>1, <3>1 DEF EndsRunning
  <2> QED
    BY <1>5, <2>1 DEF Lifecycle, CheckHolds, Crash, CloseHold, ReadRow
<1>6. CASE Expiry
  <2> SUFFICES ASSUME NEW s \in Resources,
                      QueryDueReservation(s) \/ ExpireReservation(s) \/ LapseReservation(s)
               PROVE  EndsRunning(r)
    BY <1>6 DEF Expiry
  <2>1. CASE QueryDueReservation(s)
    BY <2>1 DEF QueryDueReservation
  <2>2. CASE ExpireReservation(s)
    <3>1. SameReservation(resource[s], dueItem[s]) /\ s = r
      BY <1>0, <2>2, OtherRow DEF ExpireReservation
    <3> QED
      BY <3>1 DEF SameReservation
  <2>3. CASE LapseReservation(s)
    <3>1. s = r
      BY <1>0, <2>3 DEF LapseReservation, TypeOK
    <3> QED
      BY <2>3, <3>1 DEF EndsRunning
  <2> QED
    BY <2>1, <2>2, <2>3
<1>7. ASSUME NEW h \in Requests \cup Exchanges, PassDeadline(h) PROVE FALSE
  BY <1>7 DEF PassDeadline
<1>8. CASE StoreOrCloseMalformed
  BY <1>8 DEF StoreOrCloseMalformed
<1> QED
  BY <1>1, <1>2, <1>3, <1>4, <1>5, <1>6, <1>7, <1>8 DEF Next

\* No claim, exchange, return or worker takes a running reservation away, on
\* whatever earlier read it acts and whatever endpoints operators call.
THEOREM RunningCorrect == Spec => RunningReservationKept
<1>1. Init => FlagsInv
  BY InitType, FlagsInit DEF FlagsInv
<1>2. FlagsInv /\ [Next]_vars =>
          [\A r \in Resources :
              resource[r].due = "running" /\ resource'[r] # resource[r] =>
                 \/ LapseReservation(r)
                 \/ \E u \in Users : ReleaseReservation(r, u)
                 \/ \E t \in Tickets : EverydayAllocate(r, t)
                 \/ \E c \in Calls : TransitionResource(c, r)]_vars
  BY RunningKept DEF EndsRunning
<1> QED
  BY <1>1, <1>2, FlagsNext, PTL DEF Spec, RunningReservationKept
=============================================================================
