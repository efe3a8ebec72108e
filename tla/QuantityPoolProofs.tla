-------------------------- MODULE QuantityPoolProofs --------------------------
(***************************************************************************)
(* Proofs about QuantityPool, for any number of pools, requests, tickets,  *)
(* exchanges and calls, and for any quantities.                            *)
(***************************************************************************)
EXTENDS QuantityPool, FiniteSetTheorems, TLAPS

\* A row of the Resources table with nothing lost and nothing below zero.
Sound(p) == p \in Pool /\ Balanced(p)

LEMMA AllocationShape == ASSUME TypeOK, NEW h \in Holds, alloc[h] # NoAllocation
                         PROVE  alloc[h] \in Allocation
BY DEF TypeOK

LEMMA OpenShape == ASSUME TypeOK, NEW h \in Holds, alloc[h].status # "NONE"
                   PROVE  alloc[h] \in Allocation
BY AllocationShape DEF NoAllocation

LEMMA RequestShape == ASSUME TypeOK, NEW q \in Requests, request[q].status # "ABSENT"
                      PROVE  request[q] \in Request
BY DEF TypeOK, NoRequest

LEMMA ClaimShape == ASSUME TypeOK, NEW c \in Calls, call[c].step = "claiming"
                    PROVE  call[c] \in ClaimCall
<1>1. call[c] \in ClaimCall \cup EndCall \cup {Idle}
  BY DEF TypeOK
<1>2. call[c] # Idle
  BY DEF Idle
<1>3. call[c] \notin EndCall
  BY DEF EndCall
<1> QED
  BY <1>1, <1>2, <1>3

LEMMA EndShape == ASSUME TypeOK, NEW c \in Calls, call[c].step = "ending"
                  PROVE  call[c] \in EndCall
<1>1. call[c] \in ClaimCall \cup EndCall \cup {Idle}
  BY DEF TypeOK
<1>2. call[c] # Idle
  BY DEF Idle
<1>3. call[c] \notin ClaimCall
  BY DEF ClaimCall
<1> QED
  BY <1>1, <1>2, <1>3

-----------------------------------------------------------------------------
(* The moves of units between counters.                                    *)

\* Each move keeps a sound row sound, under the condition that the handlers
\* write it with.
LEMMA ToReservedSound ==
    ASSUME NEW p, Sound(p), NEW n \in Nat, n <= p.available
    PROVE  Sound(ToReserved(p, n))
<1> DEFINE m == ToReserved(p, n)
<1>1. p \in Pool /\ Balanced(p)
  BY DEF Sound
<1>2. p.available - n \in Nat /\ p.reserved + n \in Nat
  BY <1>1 DEF Pool
<1>3. m \in Pool
  BY <1>1, <1>2 DEF ToReserved, Pool
<1>4. m.available = p.available - n /\ m.reserved = p.reserved + n
  BY <1>1 DEF ToReserved, Pool
<1>5. m.total = p.total /\ m.allocated = p.allocated
  BY <1>1 DEF ToReserved, Pool
<1> HIDE DEF m
<1>6. Balanced(m)
  BY <1>1, <1>4, <1>5 DEF Balanced, Pool
<1> QED
  BY <1>3, <1>6 DEF Sound, m

LEMMA UnreserveSound ==
    ASSUME NEW p, Sound(p), NEW n \in Nat, n <= p.reserved
    PROVE  Sound(Unreserve(p, n))
<1> DEFINE m == Unreserve(p, n)
<1>1. p \in Pool /\ Balanced(p)
  BY DEF Sound
<1>2. p.reserved - n \in Nat /\ p.available + n \in Nat
  BY <1>1 DEF Pool
<1>3. m \in Pool
  BY <1>1, <1>2 DEF Unreserve, Pool
<1>4. m.reserved = p.reserved - n /\ m.available = p.available + n
  BY <1>1 DEF Unreserve, Pool
<1>5. m.total = p.total /\ m.allocated = p.allocated
  BY <1>1 DEF Unreserve, Pool
<1> HIDE DEF m
<1>6. Balanced(m)
  BY <1>1, <1>4, <1>5 DEF Balanced, Pool
<1> QED
  BY <1>3, <1>6 DEF Sound, m

LEMMA ToAllocatedSound ==
    ASSUME NEW p, Sound(p), NEW n \in Nat, n <= p.available
    PROVE  Sound(ToAllocated(p, n))
<1> DEFINE m == ToAllocated(p, n)
<1>1. p \in Pool /\ Balanced(p)
  BY DEF Sound
<1>2. p.available - n \in Nat /\ p.allocated + n \in Nat
  BY <1>1 DEF Pool
<1>3. m \in Pool
  BY <1>1, <1>2 DEF ToAllocated, Pool
<1>4. m.available = p.available - n /\ m.allocated = p.allocated + n
  BY <1>1 DEF ToAllocated, Pool
<1>5. m.total = p.total /\ m.reserved = p.reserved
  BY <1>1 DEF ToAllocated, Pool
<1> HIDE DEF m
<1>6. Balanced(m)
  BY <1>1, <1>4, <1>5 DEF Balanced, Pool
<1> QED
  BY <1>3, <1>6 DEF Sound, m

LEMMA ReservedToAllocatedSound ==
    ASSUME NEW p, Sound(p), NEW n \in Nat, n <= p.reserved
    PROVE  Sound(ReservedToAllocated(p, n))
<1> DEFINE m == ReservedToAllocated(p, n)
<1>1. p \in Pool /\ Balanced(p)
  BY DEF Sound
<1>2. p.reserved - n \in Nat /\ p.allocated + n \in Nat
  BY <1>1 DEF Pool
<1>3. m \in Pool
  BY <1>1, <1>2 DEF ReservedToAllocated, Pool
<1>4. m.reserved = p.reserved - n /\ m.allocated = p.allocated + n
  BY <1>1 DEF ReservedToAllocated, Pool
<1>5. m.total = p.total /\ m.available = p.available
  BY <1>1 DEF ReservedToAllocated, Pool
<1> HIDE DEF m
<1>6. Balanced(m)
  BY <1>1, <1>4, <1>5 DEF Balanced, Pool
<1> QED
  BY <1>3, <1>6 DEF Sound, m

LEMMA GiveBackSound ==
    ASSUME NEW p, Sound(p), NEW n \in Nat, n <= p.allocated
    PROVE  Sound(GiveBack(p, n))
<1> DEFINE m == GiveBack(p, n)
<1>1. p \in Pool /\ Balanced(p)
  BY DEF Sound
<1>2. p.available + n \in Nat /\ p.allocated - n \in Nat
  BY <1>1 DEF Pool
<1>3. m \in Pool
  BY <1>1, <1>2 DEF GiveBack, Pool
<1>4. m.available = p.available + n /\ m.allocated = p.allocated - n
  BY <1>1 DEF GiveBack, Pool
<1>5. m.total = p.total /\ m.reserved = p.reserved
  BY <1>1 DEF GiveBack, Pool
<1> HIDE DEF m
<1>6. Balanced(m)
  BY <1>1, <1>4, <1>5 DEF Balanced, Pool
<1> QED
  BY <1>3, <1>6 DEF Sound, m

LEMMA HandOverSound ==
    ASSUME NEW p, Sound(p), NEW n \in Nat, n <= p.allocated, n <= p.total
    PROVE  Sound(HandOver(p, n))
<1> DEFINE m == HandOver(p, n)
<1>1. p \in Pool /\ Balanced(p)
  BY DEF Sound
<1>2. p.allocated - n \in Nat /\ p.total - n \in Nat
  BY <1>1 DEF Pool
<1>3. m \in Pool
  BY <1>1, <1>2 DEF HandOver, Pool
<1>4. m.allocated = p.allocated - n /\ m.total = p.total - n
  BY <1>1 DEF HandOver, Pool
<1>5. m.available = p.available /\ m.reserved = p.reserved
  BY <1>1 DEF HandOver, Pool
<1> HIDE DEF m
<1>6. Balanced(m)
  BY <1>1, <1>4, <1>5 DEF Balanced, Pool
<1> QED
  BY <1>3, <1>6 DEF Sound, m

LEMMA ReceiveSound ==
    ASSUME NEW p, Sound(p), NEW n \in Nat
    PROVE  Sound(Receive(p, n))
<1> DEFINE m == Receive(p, n)
<1>1. p \in Pool /\ Balanced(p)
  BY DEF Sound
<1>2. p.total + n \in Nat /\ p.available + n \in Nat
  BY <1>1 DEF Pool
<1>3. m \in Pool
  BY <1>1, <1>2 DEF Receive, Pool
<1>4. m.total = p.total + n /\ m.available = p.available + n
  BY <1>1 DEF Receive, Pool
<1>5. m.reserved = p.reserved /\ m.allocated = p.allocated
  BY <1>1 DEF Receive, Pool
<1> HIDE DEF m
<1>6. Balanced(m)
  BY <1>1, <1>4, <1>5 DEF Balanced, Pool
<1> QED
  BY <1>3, <1>6 DEF Sound, m

LEMMA NewPoolSound == ASSUME NEW o \in Orgs, NEW n \in Nat PROVE Sound(NewPool(o, n))
BY DEF Sound, Pool, Balanced, NewPool

LEMMA SoundRow == ASSUME TypeOK, PoolBalanced, NEW r \in Pools PROVE Sound(pool[r])
BY DEF TypeOK, PoolBalanced, Sound

\* Writing one sound row keeps the table.
LEMMA OneRow ==
    ASSUME TypeOK, PoolBalanced, NEW r \in Pools, NEW p, Sound(p),
           pool' = [pool EXCEPT ![r] = p]
    PROVE  pool' \in [Pools -> Pool] /\ PoolBalanced'
BY DEF TypeOK, PoolBalanced, Sound, Balanced

LEMMA SameRows == ASSUME TypeOK, PoolBalanced, UNCHANGED pool
                  PROVE  pool' \in [Pools -> Pool] /\ PoolBalanced'
BY DEF TypeOK, PoolBalanced, Balanced

-----------------------------------------------------------------------------
(* Type correctness and the balance of every pool.                         *)

Inv == TypeOK /\ PoolBalanced

LEMMA SizesAreNat == \A n \in Quantities : n \in Nat
BY BoundsType

\* Everyday operations.
LEMMA EverydayStep == ASSUME Inv, NEW r \in Pools, Everyday(r) PROVE Inv'
<1>0. TypeOK /\ PoolBalanced /\ Sound(pool[r])
  BY SoundRow DEF Inv
<1>1. ASSUME NEW o \in Orgs, NEW n \in 1..MaxUnits, Register(r, o, n) PROVE Inv'
  <2>1. Sound(NewPool(o, n))
    BY NewPoolSound, BoundsType
  <2>2. pool' \in [Pools -> Pool] /\ PoolBalanced'
    BY <1>0, <1>1, <2>1, OneRow DEF Register
  <2> QED
    BY <1>0, <1>1, <2>2 DEF Register, Inv, TypeOK
<1>2. ASSUME NEW n \in Quantities, ReserveQuantity(r, n) PROVE Inv'
  <2>1. Sound(ToReserved(pool[r], n))
    BY <1>0, <1>2, ToReservedSound, SizesAreNat DEF ReserveQuantity
  <2>2. pool' \in [Pools -> Pool] /\ PoolBalanced'
    BY <1>0, <1>2, <2>1, OneRow DEF ReserveQuantity
  <2> QED
    BY <1>0, <1>2, <2>2 DEF ReserveQuantity, Inv, TypeOK
<1>3. ASSUME NEW n \in Quantities, ReleaseQuantityReservation(r, n) PROVE Inv'
  <2>1. Sound(Unreserve(pool[r], n))
    BY <1>0, <1>3, UnreserveSound, SizesAreNat DEF ReleaseQuantityReservation
  <2>2. pool' \in [Pools -> Pool] /\ PoolBalanced'
    BY <1>0, <1>3, <2>1, OneRow DEF ReleaseQuantityReservation
  <2> QED
    BY <1>0, <1>3, <2>2 DEF ReleaseQuantityReservation, Inv, TypeOK
<1>4. ASSUME NEW t \in Tickets, NEW n \in Quantities, EverydayAllocateQuantity(r, t, n)
      PROVE  Inv'
  <2>1. ASSUME pool[r].reserved >= n,
               pool' = [pool EXCEPT ![r] = ReservedToAllocated(@, n)]
        PROVE  pool' \in [Pools -> Pool] /\ PoolBalanced'
    <3>1. Sound(ReservedToAllocated(pool[r], n))
      BY <1>0, <2>1, ReservedToAllocatedSound, SizesAreNat
    <3> QED
      BY <1>0, <2>1, <3>1, OneRow
  <2>2. ASSUME pool[r].available >= n,
               pool' = [pool EXCEPT ![r] = ToAllocated(@, n)]
        PROVE  pool' \in [Pools -> Pool] /\ PoolBalanced'
    <3>1. Sound(ToAllocated(pool[r], n))
      BY <1>0, <2>2, ToAllocatedSound, SizesAreNat
    <3> QED
      BY <1>0, <2>2, <3>1, OneRow
  <2>3. pool' \in [Pools -> Pool] /\ PoolBalanced'
    BY <1>4, <2>1, <2>2 DEF EverydayAllocateQuantity
  <2>4. [status |-> "OPEN", resource |-> r, org |-> pool[r].org, quantity |-> n]
            \in Allocation
    BY <1>0, <1>4, SizesAreNat DEF EverydayAllocateQuantity, Sound, Pool, Allocation
  <2>5. alloc' \in [Holds -> Allocation \cup {NoAllocation}]
    BY <1>0, <1>4, <2>4 DEF EverydayAllocateQuantity, TypeOK
  <2> QED
    BY <1>0, <1>4, <2>3, <2>5 DEF EverydayAllocateQuantity, Inv, TypeOK
<1> QED
  BY <1>1, <1>2, <1>3, <1>4 DEF Everyday

\* Closing an allocation that exists keeps its type.
LEMMA CloseAllocation ==
    ASSUME TypeOK, NEW h \in Holds, alloc[h].status # "NONE",
           NEW s \in {"RELEASED", "RETURNED"}, alloc' = [alloc EXCEPT ![h].status = s]
    PROVE  alloc' \in [Holds -> Allocation \cup {NoAllocation}]
<1>1. alloc[h] \in Allocation
  BY OpenShape
<1>2. [alloc[h] EXCEPT !.status = s] \in Allocation
  BY <1>1 DEF Allocation
<1> QED
  BY <1>2 DEF TypeOK

\* What a hold names, and that its units may go back to the pool it names.
LEMMA GiveBackStep ==
    ASSUME Inv, NEW h \in Holds, alloc[h].status = "OPEN",
           pool[alloc[h].resource].allocated >= alloc[h].quantity,
           pool' = [pool EXCEPT ![alloc[h].resource] = GiveBack(@, alloc[h].quantity)]
    PROVE  pool' \in [Pools -> Pool] /\ PoolBalanced'
<1> DEFINE r == alloc[h].resource
           n == alloc[h].quantity
<1>1. r \in Pools /\ n \in Nat
  BY OpenShape DEF Allocation, Inv
<1>2. Sound(pool[r])
  BY <1>1, SoundRow DEF Inv
<1>3. Sound(GiveBack(pool[r], n))
  BY <1>1, <1>2, GiveBackSound
<1> QED
  BY <1>1, <1>3, OneRow DEF Inv

LEMMA ReturnStep == ASSUME Inv, NEW t \in Tickets, EverydayReturn(t) PROVE Inv'
<1>1. t \in Holds
  BY DEF Holds
<1>2. pool' \in [Pools -> Pool] /\ PoolBalanced'
  BY <1>1, GiveBackStep DEF EverydayReturn
<1>3. alloc' \in [Holds -> Allocation \cup {NoAllocation}]
  BY <1>1, CloseAllocation DEF EverydayReturn, Inv
<1> QED
  BY <1>2, <1>3 DEF EverydayReturn, Inv, TypeOK

\* Emergency requests.
LEMMA EmergencyStep == ASSUME Inv, NEW q \in Requests, Emergency(q) PROVE Inv'
<1>0. TypeOK /\ PoolBalanced /\ q \in Holds
  BY DEF Inv, Holds
<1>1. ASSUME NEW r \in Pools, NEW n \in Quantities, CreateRequest(q, r, n) PROVE Inv'
  <2>1. [status |-> "PENDING", resource |-> r, requested |-> n, fulfilled |-> 0] \in Request
    BY SizesAreNat DEF Request
  <2>2. request' \in [Requests -> Request \cup {NoRequest}]
    BY <1>0, <1>1, <2>1 DEF CreateRequest, TypeOK
  <2>3. pool' \in [Pools -> Pool] /\ PoolBalanced'
    BY <1>0, <1>1, SameRows DEF CreateRequest
  <2> QED
    BY <1>0, <1>1, <2>2, <2>3 DEF CreateRequest, Inv, TypeOK
<1>2. CASE CloseUnallocated(q)
  <2>1. request[q] \in Request
    BY <1>0, <1>2, RequestShape DEF CloseUnallocated
  <2>2. request' \in [Requests -> Request \cup {NoRequest}]
    BY <1>0, <1>2, <2>1 DEF CloseUnallocated, TypeOK, Request
  <2>3. pool' \in [Pools -> Pool] /\ PoolBalanced'
    BY <1>0, <1>2, SameRows DEF CloseUnallocated
  <2> QED
    BY <1>0, <1>2, <2>2, <2>3 DEF CloseUnallocated, Inv, TypeOK
<1>3. ASSUME NEW c \in Calls, ReadForClaim(c, q) PROVE Inv'
  <2> DEFINE available == pool[request[q].resource].available
             claim     == IF Remaining(q) <= available THEN Remaining(q) ELSE available
             existing  == alloc[q] # NoAllocation
             m == [step |-> "claiming", request |-> q,
                   fulfilled |-> request[q].fulfilled,
                   previous |-> IF existing THEN alloc[q].quantity ELSE 0,
                   claim |-> claim, existing |-> existing,
                   status |-> IF claim = Remaining(q) THEN "ALLOCATED"
                                                      ELSE "PARTIALLY_ALLOCATED"]
  <2>1. request[q] \in Request
    BY <1>0, <1>3, RequestShape DEF ReadForClaim, Allocatable
  <2>2. available \in Nat /\ request[q].fulfilled \in Nat /\ request[q].requested \in Nat
    BY <1>0, <2>1 DEF TypeOK, Request, Pool
  <2>3. claim \in Nat
    BY <1>3, <2>2 DEF ReadForClaim, Remaining
  <2>4. (IF existing THEN alloc[q].quantity ELSE 0) \in Nat /\ existing \in BOOLEAN
    BY <1>0, AllocationShape DEF Allocation
  <2>5. m.status \in {"ALLOCATED", "PARTIALLY_ALLOCATED"}
    OBVIOUS
  <2>6. call' = [call EXCEPT ![c] = m]
    BY <1>3 DEF ReadForClaim
  <2>7. m \in ClaimCall
    BY <2>2, <2>3, <2>4, <2>5 DEF ClaimCall
  <2> HIDE DEF m
  <2>8. call' \in [Calls -> ClaimCall \cup EndCall \cup {Idle}]
    BY <1>0, <2>6, <2>7 DEF TypeOK
  <2>9. pool' \in [Pools -> Pool] /\ PoolBalanced'
    BY <1>0, <1>3, SameRows DEF ReadForClaim
  <2> QED
    BY <1>0, <1>3, <2>8, <2>9 DEF ReadForClaim, Inv, TypeOK
<1>4. ASSUME NEW c \in Calls, CommitClaim(c, q) PROVE Inv'
  <2> DEFINE m == call[c]
             r == request[q].resource
             n == m.fulfilled + m.claim
  <2>1. m \in ClaimCall
    BY <1>0, <1>4, ClaimShape DEF CommitClaim
  <2>2. call' \in [Calls -> ClaimCall \cup EndCall \cup {Idle}]
    BY <1>0, <1>4 DEF CommitClaim, TypeOK
  <2>3. CASE PoolCondition(r, m) /\ AllocationCondition(m) /\ RequestCondition(m)
    <3>1. request[q] \in Request
      BY <1>0, <1>4, <2>3, RequestShape DEF RequestCondition, Allocatable, CommitClaim
    <3>2. r \in Pools /\ n \in Nat /\ m.claim \in Nat
      BY <2>1, <3>1 DEF Request, ClaimCall
    <3>3. Sound(pool[r])
      BY <1>0, <3>2, SoundRow
    <3>4. Sound(ToAllocated(pool[r], m.claim))
      BY <2>3, <3>2, <3>3, ToAllocatedSound DEF PoolCondition
    <3>5. pool' = [pool EXCEPT ![r] = ToAllocated(pool[r], m.claim)]
      BY <1>4, <2>3 DEF CommitClaim
    <3>6. pool' \in [Pools -> Pool] /\ PoolBalanced'
      BY <1>0, <3>2, <3>4, <3>5, OneRow
    <3>7. OrgOf[q] \in Orgs
      BY OrgOfType
    <3>8. [status |-> "ALLOCATED", resource |-> r, org |-> OrgOf[q], quantity |-> n]
              \in Allocation
      BY <3>2, <3>7 DEF Allocation
    <3>9. alloc' \in [Holds -> Allocation \cup {NoAllocation}]
      BY <1>0, <1>4, <2>3, <3>8 DEF CommitClaim, TypeOK
    <3>10. [request[q] EXCEPT !.status = m.status, !.fulfilled = n] \in Request
      BY <2>1, <3>1, <3>2 DEF Request, ClaimCall
    <3>11. request' \in [Requests -> Request \cup {NoRequest}]
      BY <1>0, <1>4, <2>3, <3>10 DEF CommitClaim, TypeOK
    <3> QED
      BY <1>0, <1>4, <2>2, <3>6, <3>9, <3>11 DEF CommitClaim, Inv, TypeOK
  <2>4. CASE ~(PoolCondition(r, m) /\ AllocationCondition(m) /\ RequestCondition(m))
    <3>1. UNCHANGED <<pool, alloc, request>>
      BY <1>4, <2>4 DEF CommitClaim
    <3>2. pool' \in [Pools -> Pool] /\ PoolBalanced'
      BY <1>0, <3>1, SameRows
    <3> QED
      BY <1>0, <1>4, <2>2, <3>1, <3>2 DEF CommitClaim, Inv, TypeOK
  <2> QED
    BY <2>3, <2>4
<1>5. CASE CompleteRequest(q)
  <2>1. request[q] \in Request
    BY <1>0, <1>5, RequestShape DEF CompleteRequest
  <2>2. request' \in [Requests -> Request \cup {NoRequest}]
    BY <1>0, <1>5, <2>1 DEF CompleteRequest, TypeOK, Request
  <2>3. pool' \in [Pools -> Pool] /\ PoolBalanced'
    BY <1>0, <1>5, SameRows DEF CompleteRequest
  <2> QED
    BY <1>0, <1>5, <2>2, <2>3 DEF CompleteRequest, Inv, TypeOK
<1>6. CASE LookupHolders(q)
  <2>1. pool' \in [Pools -> Pool] /\ PoolBalanced'
    BY <1>0, <1>6, SameRows DEF LookupHolders
  <2> QED
    BY <1>0, <1>6, <2>1 DEF LookupHolders, Inv, TypeOK
<1>7. CASE AutoRelease(q)
  <2>1. pool' \in [Pools -> Pool] /\ PoolBalanced'
    BY <1>0, <1>7, SameRows DEF AutoRelease
  <2>2. CASE Releasable(q) /\ decision[q] = "keep"
    <3>1. request[q] \in Request
      BY <1>0, <2>2, RequestShape DEF Releasable
    <3>2. request' \in [Requests -> Request \cup {NoRequest}]
      BY <1>0, <1>7, <2>2, <3>1 DEF AutoRelease, TypeOK, Request
    <3>3. alloc' \in [Holds -> Allocation \cup {NoAllocation}]
      BY <1>0, <1>7, <2>2, CloseAllocation DEF AutoRelease, Releasable
    <3> QED
      BY <1>0, <1>7, <2>1, <3>2, <3>3 DEF AutoRelease, Inv, TypeOK
  <2>3. CASE ~(Releasable(q) /\ decision[q] = "keep")
    BY <1>0, <1>7, <2>1, <2>3 DEF AutoRelease, Inv, TypeOK
  <2> QED
    BY <2>2, <2>3
<1> QED
  BY <1>1, <1>2, <1>3, <1>4, <1>5, <1>6, <1>7 DEF Emergency

\* A handover: the provider's row, and then the requester's.
LEMMA HandoverStep ==
    ASSUME Inv, NEW x \in Exchanges, NEW d \in Pools, ConfirmQuantityHandover(x, d)
    PROVE  Inv'
<1> DEFINE r == alloc[x].resource
           n == alloc[x].quantity
           left == HandOver(pool[r], n)
           given == [pool EXCEPT ![r] = left]
<1>0. TypeOK /\ PoolBalanced /\ x \in Holds /\ OrgOf[x] \in Orgs
  BY OrgOfType DEF Inv, Holds
<1>1. r \in Pools /\ n \in Nat
  BY <1>0, OpenShape DEF ConfirmQuantityHandover, Allocation
<1>2. Sound(left)
  BY <1>0, <1>1, SoundRow, HandOverSound DEF ConfirmQuantityHandover, SourceEligible, HeldQuantity
<1>3. \A p \in Pools : Sound(given[p])
  BY <1>0, <1>1, <1>2, SoundRow DEF TypeOK
<1>4. Sound(NewPool(OrgOf[x], n)) /\ Sound(Receive(given[d], n)) /\ Sound(Receive(pool[d], n))
  BY <1>0, <1>1, <1>3, SoundRow, NewPoolSound, ReceiveSound
<1>5. PICK new : Sound(new) /\ pool' = [given EXCEPT ![d] = new]
  <2>1. CASE pool' = [pool EXCEPT ![r] = HandOver(@, n), ![d] = NewPool(OrgOf[x], n)]
    BY <1>4, <2>1
  <2>2. CASE pool' = [pool EXCEPT ![r] = HandOver(@, n), ![d] = Receive(@, n)]
    BY <1>4, <2>2
  <2> QED
    BY <2>1, <2>2 DEF ConfirmQuantityHandover, TransferItems, HeldQuantity, DestinationPool
<1>6. given \in [Pools -> Pool]
  BY <1>0, <1>2 DEF TypeOK, Sound
<1> HIDE DEF given
<1>7. pool' \in [Pools -> Pool] /\ \A p \in Pools : Sound(pool'[p])
  BY <1>3, <1>5, <1>6 DEF Sound
<1>8. PoolBalanced'
  BY <1>7 DEF PoolBalanced, Sound, Balanced
<1>9. alloc' \in [Holds -> Allocation \cup {NoAllocation}]
  BY <1>0, CloseAllocation DEF ConfirmQuantityHandover
<1> QED
  BY <1>0, <1>7, <1>8, <1>9 DEF ConfirmQuantityHandover, Inv, TypeOK

\* The other steps of an exchange.
LEMMA ExchangeStep ==
    ASSUME Inv, NEW x \in Exchanges, Exchange(x) \/ Tick(x)
    PROVE  Inv'
<1>0. TypeOK /\ PoolBalanced /\ x \in Holds
  BY DEF Inv, Holds
<1>1. ASSUME NEW r \in Pools, NEW n \in Quantities, AcceptOffer(x, r, n) PROVE Inv'
  <2>1. Sound(ToAllocated(pool[r], n))
    BY <1>0, <1>1, SoundRow, ToAllocatedSound, SizesAreNat DEF AcceptOffer, EligibleToOffer
  <2>2. pool' \in [Pools -> Pool] /\ PoolBalanced'
    BY <1>0, <1>1, <2>1, OneRow DEF AcceptOffer
  <2>3. [status |-> "OPEN", resource |-> r, org |-> pool[r].org, quantity |-> n]
            \in Allocation
    BY <1>0, <1>1, SizesAreNat, SoundRow DEF AcceptOffer, Sound, Pool, Allocation
  <2>4. alloc' \in [Holds -> Allocation \cup {NoAllocation}]
    BY <1>0, <1>1, <2>3 DEF AcceptOffer, TypeOK
  <2> QED
    BY <1>0, <1>1, <2>2, <2>4 DEF AcceptOffer, Inv, TypeOK
<1>2. CASE StartTransfer(x)
  <2>1. pool' \in [Pools -> Pool] /\ PoolBalanced'
    BY <1>0, <1>2, SameRows DEF StartTransfer
  <2> QED
    BY <1>0, <1>2, <2>1 DEF StartTransfer, Inv, TypeOK
<1>3. ASSUME NEW d \in Pools, ConfirmQuantityHandover(x, d) PROVE Inv'
  BY <1>3, HandoverStep
<1>4. ASSUME NEW t \in {"CANCELLED", "EXPIRED"}, EndOpen(x, t) PROVE Inv'
  <2>1. pool' \in [Pools -> Pool] /\ PoolBalanced'
    BY <1>0, <1>4, SameRows DEF EndOpen
  <2> QED
    BY <1>0, <1>4, <2>1 DEF EndOpen, Inv, TypeOK
<1>5. ASSUME NEW c \in Calls, NEW t \in {"CANCELLED", "EXPIRED"}, ReadForEnd(c, x, t)
      PROVE  Inv'
  <2> DEFINE m == [step |-> "ending", exchange |-> x, expected |-> meta[x],
                   terminal |-> t, allocated |-> pool[alloc[x].resource].allocated]
  <2>1. alloc[x].resource \in Pools
    BY <1>0, <1>5, OpenShape DEF ReadForEnd, Allocation
  <2>2. m \in EndCall
    BY <1>0, <1>5, <2>1 DEF ReadForEnd, Held, EndCall, TypeOK, Pool
  <2>3. call' = [call EXCEPT ![c] = m]
    BY <1>5 DEF ReadForEnd
  <2> HIDE DEF m
  <2>4. call' \in [Calls -> ClaimCall \cup EndCall \cup {Idle}]
    BY <1>0, <2>2, <2>3 DEF TypeOK
  <2>5. pool' \in [Pools -> Pool] /\ PoolBalanced'
    BY <1>0, <1>5, SameRows DEF ReadForEnd
  <2> QED
    BY <1>0, <1>5, <2>4, <2>5 DEF ReadForEnd, Inv, TypeOK
<1>6. ASSUME NEW c \in Calls, CommitEnd(c, x) PROVE Inv'
  <2>1. call[c] \in EndCall
    BY <1>0, <1>6, EndShape DEF CommitEnd
  <2>2. call' \in [Calls -> ClaimCall \cup EndCall \cup {Idle}]
    BY <1>0, <1>6 DEF CommitEnd, TypeOK
  <2>3. CASE ExpectedStatus(call[c]) /\ alloc[x].status = "OPEN"
    <3>1. HoldReleaseItems(x, call[c].allocated)
      BY <1>6, <2>3 DEF CommitEnd
    <3>2. \/ UNCHANGED pool
          \/ /\ pool[alloc[x].resource].allocated >= alloc[x].quantity
             /\ pool' = [pool EXCEPT ![alloc[x].resource] = GiveBack(@, alloc[x].quantity)]
      BY <3>1 DEF HoldReleaseItems
    <3>3. pool' \in [Pools -> Pool] /\ PoolBalanced'
      BY <1>0, <2>3, <3>2, SameRows, GiveBackStep
    <3>4. alloc' \in [Holds -> Allocation \cup {NoAllocation}]
      BY <1>0, <1>6, <2>3, CloseAllocation DEF CommitEnd
    <3>5. meta' = [meta EXCEPT ![x] = call[c].terminal]
      BY <1>6, <2>3 DEF CommitEnd
    <3>6. call[c].terminal \in {"CANCELLED", "EXPIRED"}
      BY <2>1 DEF EndCall
    <3> QED
      BY <1>0, <1>6, <2>2, <3>3, <3>4, <3>5, <3>6 DEF CommitEnd, Inv, TypeOK
  <2>4. CASE ~(ExpectedStatus(call[c]) /\ alloc[x].status = "OPEN")
    <3>1. UNCHANGED <<pool, alloc, meta>>
      BY <1>6, <2>4 DEF CommitEnd
    <3>2. pool' \in [Pools -> Pool] /\ PoolBalanced'
      BY <1>0, <3>1, SameRows
    <3> QED
      BY <1>0, <1>6, <2>2, <3>1, <3>2 DEF CommitEnd, Inv, TypeOK
  <2> QED
    BY <2>3, <2>4
<1>7. CASE Tick(x)
  <2>1. pool' \in [Pools -> Pool] /\ PoolBalanced'
    BY <1>0, <1>7, SameRows DEF Tick
  <2> QED
    BY <1>0, <1>7, <2>1 DEF Tick, Inv, TypeOK
<1> QED
  BY <1>1, <1>2, <1>3, <1>4, <1>5, <1>6, <1>7 DEF Exchange

LEMMA InvStep == Inv /\ [Next]_vars => Inv'
<1> SUFFICES ASSUME Inv, [Next]_vars PROVE Inv'
  OBVIOUS
<1>1. CASE UNCHANGED vars
  <2>1. pool' \in [Pools -> Pool] /\ PoolBalanced'
    BY <1>1, SameRows DEF Inv, vars
  <2> QED
    BY <1>1, <2>1 DEF vars, Inv, TypeOK
<1>2. ASSUME NEW c \in Calls, Crash(c) PROVE Inv'
  <2>1. pool' \in [Pools -> Pool] /\ PoolBalanced'
    BY <1>2, SameRows DEF Inv, Crash
  <2> QED
    BY <1>2, <2>1 DEF Crash, Inv, TypeOK
<1> QED
  BY <1>1, <1>2, EverydayStep, ReturnStep, EmergencyStep, ExchangeStep DEF Next

LEMMA InvInit == Init => Inv
<1> SUFFICES ASSUME Init PROVE Inv
  OBVIOUS
<1>1. NoPool \in Pool /\ Balanced(NoPool)
  BY DEF NoPool, Pool, Balanced
<1> QED
  BY <1>1 DEF Init, Inv, TypeOK, PoolBalanced, Balanced

\* In every reachable state the tables have their shape and no counter is
\* below zero.
THEOREM TypeCorrect == Spec => []TypeOK
<1>1. Inv => TypeOK
  BY DEF Inv
<1> QED
  BY <1>1, InvInit, InvStep, PTL DEF Spec

\* In every reachable state the counters of each pool add up to its total.
THEOREM BalancedCorrect == Spec => []PoolBalanced
<1>1. Inv => PoolBalanced
  BY DEF Inv
<1> QED
  BY <1>1, InvInit, InvStep, PTL DEF Spec

-----------------------------------------------------------------------------
(* Requests and their allocations.                                         *)

\* What a claim in flight knows of its request.  Once made, a request keeps
\* quantity_requested.
CallAgrees(c) ==
    call[c].step = "claiming" =>
        LET q == call[c].request IN
        /\ request[q].status # "ABSENT"
        /\ call[c].claim > 0
        /\ call[c].status = "ALLOCATED" <=>
               call[c].fulfilled + call[c].claim = request[q].requested

ClaimsInv == ClaimsAgree /\ \A c \in Calls : CallAgrees(c)

\* A request whose row and allocation do not change.
LEMMA SameClaim == ASSUME NEW q \in Requests, ClaimAgrees(q),
                          request'[q] = request[q], alloc'[q] = alloc[q]
                   PROVE  ClaimAgrees(q)'
BY DEF ClaimAgrees

\* A call that does not change, while requests keep what they asked for.
LEMMA SameCall ==
    ASSUME TypeOK, NEW c \in Calls, CallAgrees(c), call'[c] = call[c],
           \A q \in Requests : request[q].status # "ABSENT" =>
               /\ request'[q].status # "ABSENT"
               /\ request'[q].requested = request[q].requested
    PROVE  CallAgrees(c)'
<1>1. CASE call[c].step = "claiming"
  <2>1. call[c].request \in Requests
    BY <1>1, ClaimShape DEF ClaimCall
  <2> QED
    BY <1>1, <2>1 DEF CallAgrees
<1>2. CASE call[c].step # "claiming"
  BY <1>2 DEF CallAgrees
<1> QED
  BY <1>1, <1>2

LEMMA OtherStep ==
    ASSUME TypeOK, ClaimsInv, UNCHANGED <<request, call>>,
           \A q \in Requests : alloc'[q] = alloc[q]
    PROVE  ClaimsInv'
<1>1. \A q \in Requests : ClaimAgrees(q)'
  BY SameClaim DEF ClaimsInv, ClaimsAgree
<1>2. \A c \in Calls : CallAgrees(c)'
  BY SameCall DEF ClaimsInv
<1> QED
  BY <1>1, <1>2 DEF ClaimsInv, ClaimsAgree

\* A call that ends, or reads for an exchange.
LEMMA QuietCall ==
    ASSUME TypeOK, ClaimsInv, UNCHANGED request, NEW c \in Calls, NEW m,
           call' = [call EXCEPT ![c] = m], m.step # "claiming",
           \A q \in Requests : alloc'[q] = alloc[q]
    PROVE  ClaimsInv'
<1>1. \A q \in Requests : ClaimAgrees(q)'
  BY SameClaim DEF ClaimsInv, ClaimsAgree
<1>2. CallAgrees(c)'
  BY DEF CallAgrees, TypeOK
<1>3. \A k \in Calls \ {c} : call'[k] = call[k]
  BY DEF TypeOK
<1>4. \A k \in Calls \ {c} : CallAgrees(k)'
  BY <1>3, SameCall DEF ClaimsInv
<1> QED
  BY <1>1, <1>2, <1>4 DEF ClaimsInv, ClaimsAgree

\* One request's row and allocation change together; calls do not.
LEMMA OneClaim ==
    ASSUME TypeOK, ClaimsInv, NEW q \in Requests, UNCHANGED call, ClaimAgrees(q)',
           NEW row, request' = [request EXCEPT ![q] = row], row.status # "ABSENT",
           request[q].status # "ABSENT" => row.requested = request[q].requested,
           \A p \in Requests \ {q} : alloc'[p] = alloc[p]
    PROVE  ClaimsInv'
<1>1. \A p \in Requests \ {q} : request'[p] = request[p]
  BY DEF TypeOK
<1>2. request'[q] = row
  BY DEF TypeOK
<1>3. \A p \in Requests : ClaimAgrees(p)'
  BY <1>1, SameClaim DEF ClaimsInv, ClaimsAgree
<1>4. \A c \in Calls : CallAgrees(c)'
  BY <1>1, <1>2, SameCall DEF ClaimsInv
<1> QED
  BY <1>3, <1>4 DEF ClaimsInv, ClaimsAgree

\* The steps of one request.
LEMMA EmergencyClaims ==
    ASSUME TypeOK, ClaimsInv, NEW q \in Requests, Emergency(q)
    PROVE  ClaimsInv'
<1>0. ClaimAgrees(q) /\ q \in Holds
  BY DEF ClaimsInv, ClaimsAgree, Holds
<1>1. ASSUME NEW r \in Pools, NEW n \in Quantities, CreateRequest(q, r, n)
      PROVE  ClaimsInv'
  <2> DEFINE row == [status |-> "PENDING", resource |-> r, requested |-> n, fulfilled |-> 0]
  <2>1. request' = [request EXCEPT ![q] = row] /\ UNCHANGED <<alloc, call>>
    BY <1>1 DEF CreateRequest
  <2>2. request[q].status = "ABSENT"
    BY <1>1 DEF CreateRequest, NoRequest
  <2>3. ClaimAgrees(q)'
    BY <1>0, <2>1, <2>2 DEF ClaimAgrees, TypeOK
  <2>4. row.status # "ABSENT"
    OBVIOUS
  <2> HIDE DEF row
  <2> QED
    BY <2>1, <2>2, <2>3, <2>4, OneClaim
<1>2. ASSUME NEW s \in {"CANCELLED", "REJECTED"}, request[q].status = "PENDING",
             request' = [request EXCEPT ![q].status = s], UNCHANGED <<alloc, call>>
      PROVE  ClaimsInv'
  <2> DEFINE row == [request[q] EXCEPT !.status = s]
  <2>1. request[q] \in Request
    BY <1>2, RequestShape
  <2>2. row.status = s /\ row.requested = request[q].requested /\ row.fulfilled = request[q].fulfilled
    BY <2>1 DEF Request
  <2>3. request' = [request EXCEPT ![q] = row]
    BY <1>2
  <2> HIDE DEF row
  <2>4. request'[q] = row
    BY <2>3 DEF TypeOK
  <2>5. ClaimAgrees(q)'
    BY <1>0, <1>2, <2>2, <2>4 DEF ClaimAgrees
  <2> QED
    BY <1>2, <2>2, <2>3, <2>5, OneClaim
<1>3. ASSUME NEW c \in Calls, ReadForClaim(c, q) PROVE ClaimsInv'
  <2>1. request[q].status # "ABSENT" /\ UNCHANGED <<alloc, request>>
    BY <1>3 DEF ReadForClaim, Allocatable
  <2>2. request[q] \in Request
    BY <2>1, RequestShape
  <2> DEFINE available == pool[request[q].resource].available
             claim == IF Remaining(q) <= available THEN Remaining(q) ELSE available
             existing == alloc[q] # NoAllocation
  <2>0. claim \in Int /\ claim >= 1
    <3>1. available \in Int /\ Remaining(q) \in Int
      BY <2>2 DEF TypeOK, Pool, Request, Remaining
    <3> QED
      BY <1>3, <3>1 DEF ReadForClaim
  <2>3. call' = [call EXCEPT ![c] =
                    [step |-> "claiming", request |-> q,
                     fulfilled |-> request[q].fulfilled,
                     previous |-> IF existing THEN alloc[q].quantity ELSE 0,
                     claim |-> claim, existing |-> existing,
                     status |-> IF claim = Remaining(q) THEN "ALLOCATED"
                                                        ELSE "PARTIALLY_ALLOCATED"]]
    BY <1>3 DEF ReadForClaim
  <2> HIDE DEF claim, existing
  <2>4. CallAgrees(c)'
    <3>1. /\ call'[c].claim = claim /\ call'[c].request = q
          /\ call'[c].fulfilled = request[q].fulfilled
          /\ call'[c].status = "ALLOCATED" <=> claim = Remaining(q)
      BY <2>3 DEF TypeOK
    <3>2. claim = Remaining(q) <=> request[q].fulfilled + claim = request[q].requested
      BY <2>2, <2>0 DEF Remaining, Request
    <3> QED
      BY <2>1, <2>0, <3>1, <3>2 DEF CallAgrees
  <2>5. \A k \in Calls \ {c} : call'[k] = call[k]
    BY <2>3 DEF TypeOK
  <2>6. \A k \in Calls \ {c} : CallAgrees(k)'
    BY <2>1, <2>5, SameCall DEF ClaimsInv
  <2>7. \A p \in Requests : ClaimAgrees(p)'
    BY <2>1, SameClaim DEF ClaimsInv, ClaimsAgree
  <2> QED
    BY <2>4, <2>6, <2>7 DEF ClaimsInv, ClaimsAgree
<1>4. ASSUME NEW c \in Calls, CommitClaim(c, q) PROVE ClaimsInv'
  <2> DEFINE m == call[c]
             r == request[q].resource
             n == m.fulfilled + m.claim
  <2>1. m \in ClaimCall /\ m.request = q /\ m.step = "claiming"
    BY <1>4, ClaimShape DEF CommitClaim
  <2>2. call' = [call EXCEPT ![c] = Idle] /\ Idle.step # "claiming"
    BY <1>4 DEF CommitClaim, Idle
  <2>3. CASE ~(PoolCondition(r, m) /\ AllocationCondition(m) /\ RequestCondition(m))
    <3>1. UNCHANGED <<alloc, request>>
      BY <1>4, <2>3 DEF CommitClaim
    <3> QED
      BY <2>2, <3>1, QuietCall
  <2>4. CASE PoolCondition(r, m) /\ AllocationCondition(m) /\ RequestCondition(m)
    <3> DEFINE row == [request[q] EXCEPT !.status = m.status, !.fulfilled = n]
               held == [status |-> "ALLOCATED", resource |-> r, org |-> OrgOf[q], quantity |-> n]
    <3>1. request[q] \in Request
      BY <2>1, <2>4, RequestShape DEF RequestCondition, Allocatable
    <3>2. CallAgrees(c)
      BY DEF ClaimsInv
    <3>3. /\ m.claim > 0
          /\ m.status = "ALLOCATED" <=> n = request[q].requested
      BY <2>1, <3>2 DEF CallAgrees
    <3>4. /\ n <= request[q].requested
          /\ 0 < n
          /\ n \in Nat
          /\ m.status \in {"ALLOCATED", "PARTIALLY_ALLOCATED"}
      BY <2>1, <2>4, <3>1, <3>3 DEF RequestCondition, Request, ClaimCall
    <3>5. /\ row.status = m.status /\ row.fulfilled = n
          /\ row.requested = request[q].requested /\ row.resource = r
      BY <3>1 DEF Request
    <3>6. request' = [request EXCEPT ![q] = row] /\ alloc' = [alloc EXCEPT ![q] = held]
      BY <1>4, <2>4 DEF CommitClaim
    <3>7. held.status = "ALLOCATED" /\ held.quantity = n /\ held.resource = r
      OBVIOUS
    <3>8. request[q].requested \in Nat
      BY <3>1 DEF Request
    <3> HIDE DEF row, held
    <3>9. request'[q] = row /\ alloc'[q] = held
      BY <1>0, <3>6 DEF TypeOK
    <3>10. ClaimAgrees(q)'
      <4> HIDE DEF n, m, r
      <4> QED
        BY <3>3, <3>4, <3>5, <3>7, <3>8, <3>9 DEF ClaimAgrees
    <3>11. \A p \in Requests \ {q} : request'[p] = request[p] /\ alloc'[p] = alloc[p]
      BY <3>6 DEF TypeOK, Holds
    <3>12. \A p \in Requests : ClaimAgrees(p)'
      BY <3>10, <3>11, SameClaim DEF ClaimsInv, ClaimsAgree
    <3>13. \A k \in Calls \ {c} : call'[k] = call[k]
      BY <2>2 DEF TypeOK
    <3>14. \A k \in Calls \ {c} : CallAgrees(k)'
      BY <3>4, <3>5, <3>9, <3>11, <3>13, SameCall DEF ClaimsInv
    <3>15. CallAgrees(c)'
      BY <2>2 DEF CallAgrees, TypeOK
    <3> QED
      BY <3>12, <3>14, <3>15 DEF ClaimsInv, ClaimsAgree
  <2> QED
    BY <2>3, <2>4
<1>5. ASSUME NEW s \in {"COMPLETED", "RELEASED"}, request[q].status = "ALLOCATED",
             request' = [request EXCEPT ![q].status = s], UNCHANGED call,
             alloc' = IF s = "RELEASED" THEN [alloc EXCEPT ![q].status = "RELEASED"] ELSE alloc
      PROVE  ClaimsInv'
  <2> DEFINE row == [request[q] EXCEPT !.status = s]
  <2>1. request[q] \in Request
    BY <1>5, RequestShape
  <2>2. /\ row.status = s /\ row.requested = request[q].requested
        /\ row.fulfilled = request[q].fulfilled /\ row.resource = request[q].resource
    BY <2>1 DEF Request
  <2>3. request' = [request EXCEPT ![q] = row]
    BY <1>5
  <2> HIDE DEF row
  <2>4. request'[q] = row
    BY <2>3 DEF TypeOK
  <2>5. /\ alloc[q].status = "ALLOCATED" /\ alloc[q].quantity = request[q].fulfilled
        /\ alloc[q].resource = request[q].resource
        /\ request[q].fulfilled = request[q].requested
    BY <1>0, <1>5 DEF ClaimAgrees
  <2>6. alloc[q] \in Allocation
    BY <1>0, <2>5, OpenShape
  <2>7. /\ alloc'[q].status = (IF s = "RELEASED" THEN "RELEASED" ELSE "ALLOCATED")
        /\ alloc'[q].quantity = alloc[q].quantity /\ alloc'[q].resource = alloc[q].resource
    BY <1>0, <1>5, <2>5, <2>6 DEF TypeOK, Allocation
  <2>8. ClaimAgrees(q)'
    BY <1>5, <2>2, <2>4, <2>5, <2>7 DEF ClaimAgrees
  <2>9. \A p \in Requests \ {q} : alloc'[p] = alloc[p]
    BY <1>5 DEF TypeOK, Holds
  <2> QED
    BY <1>5, <2>2, <2>3, <2>8, <2>9, OneClaim
<1>6. CASE LookupHolders(q)
  BY <1>6, OtherStep DEF LookupHolders
<1>7. CASE AutoRelease(q)
  BY <1>5, <1>7, OtherStep DEF AutoRelease, Releasable
<1> QED
  BY <1>1, <1>2, <1>3, <1>4, <1>5, <1>6, <1>7
     DEF Emergency, CloseUnallocated, CompleteRequest

\* The steps of everything else leave requests and their allocations alone.
LEMMA ClaimsStep == TypeOK /\ ClaimsInv /\ [Next]_vars => ClaimsInv'
<1> SUFFICES ASSUME TypeOK, ClaimsInv, [Next]_vars PROVE ClaimsInv'
  OBVIOUS
<1>1. CASE UNCHANGED vars
  BY <1>1, OtherStep DEF vars
<1>2. ASSUME NEW r \in Pools, Everyday(r) PROVE ClaimsInv'
  <2>1. \A q \in Requests : alloc'[q] = alloc[q]
    BY <1>2, HoldsDisjoint DEF Everyday, Register, ReserveQuantity,
       ReleaseQuantityReservation, EverydayAllocateQuantity, TypeOK, Holds
  <2>2. UNCHANGED <<request, call>>
    BY <1>2 DEF Everyday, Register, ReserveQuantity,
       ReleaseQuantityReservation, EverydayAllocateQuantity
  <2> QED
    BY <2>1, <2>2, OtherStep
<1>3. ASSUME NEW t \in Tickets, EverydayReturn(t) PROVE ClaimsInv'
  <2>1. \A q \in Requests : alloc'[q] = alloc[q]
    BY <1>3, HoldsDisjoint DEF EverydayReturn, TypeOK, Holds
  <2> QED
    BY <1>3, <2>1, OtherStep DEF EverydayReturn
<1>4. ASSUME NEW c \in Calls, Crash(c) PROVE ClaimsInv'
  <2>1. Idle.step # "claiming"
    BY DEF Idle
  <2> QED
    BY <1>4, <2>1, QuietCall DEF Crash
<1>5. ASSUME NEW x \in Exchanges, Exchange(x) \/ Tick(x) PROVE ClaimsInv'
  <2>1. /\ UNCHANGED request
        /\ \E a : alloc' = alloc \/ alloc' = [alloc EXCEPT ![x] = a]
    BY <1>5 DEF Exchange, Tick, AcceptOffer, StartTransfer, ConfirmQuantityHandover,
       EndOpen, ReadForEnd, CommitEnd
  <2>2. \A q \in Requests : alloc'[q] = alloc[q]
    BY <2>1, HoldsDisjoint DEF TypeOK, Holds
  <2>3. \/ UNCHANGED call
        \/ \E c \in Calls : \E m : m.step # "claiming" /\ call' = [call EXCEPT ![c] = m]
    BY <1>5 DEF Exchange, Tick, AcceptOffer, StartTransfer, ConfirmQuantityHandover,
       EndOpen, ReadForEnd, CommitEnd, Idle
  <2> QED
    BY <2>1, <2>2, <2>3, OtherStep, QuietCall
<1> QED
  BY <1>1, <1>2, <1>3, <1>4, <1>5, EmergencyClaims DEF Next

LEMMA ClaimsInit == Init => ClaimsInv
BY DEF Init, ClaimsInv, ClaimsAgree, ClaimAgrees, CallAgrees, NoRequest, Idle, Holds

\* A request and its allocation agree in every reachable state, however many
\* claims of it were in flight at once.
THEOREM ClaimsCorrect == Spec => []ClaimsAgree
<1>1. ClaimsInv => ClaimsAgree
  BY DEF ClaimsInv
<1> QED
  BY <1>1, ClaimsInit, ClaimsStep, TypeCorrect, PTL DEF Spec

-----------------------------------------------------------------------------
(* The units that are out, and quantity_allocated.                         *)

LEMMA UnitsOutNat == ASSUME TypeOK, NEW h \in Holds, NEW r \in Pools
                     PROVE  UnitsOut(h, r) \in Nat
BY AllocationShape DEF UnitsOut, Allocation

LEMMA UnitsOutOne == ASSUME NEW h, NEW n \in Nat
                     PROVE  IsFiniteSet({h} \X (1..n)) /\ Cardinality({h} \X (1..n)) = n
<1>1. IsFiniteSet({h}) /\ Cardinality({h}) = 1
  BY FS_Singleton
<1>2. IsFiniteSet(1..n) /\ Cardinality(1..n) = n
  BY FS_Interval
<1>3. /\ IsFiniteSet({h} \X (1..n))
      /\ Cardinality({h} \X (1..n)) = Cardinality({h}) * Cardinality(1..n)
  BY <1>1, <1>2, FS_Product
<1> QED
  BY <1>1, <1>2, <1>3

\* The units of all holds, f[h] for each h.
UnitsIn(f) == UNION {{h} \X (1..f[h]) : h \in Holds}

\* One hold's number changes: so does the number of all units, by as much.
LEMMA OneHoldCounts ==
    ASSUME NEW f, NEW g, NEW h \in Holds, f[h] \in Nat, g[h] \in Nat,
           \A k \in Holds \ {h} : g[k] = f[k],
           IsFiniteSet(UnitsIn(f))
    PROVE  /\ IsFiniteSet(UnitsIn(g))
           /\ Cardinality(UnitsIn(f)) \in Nat
           /\ Cardinality(UnitsIn(g)) = Cardinality(UnitsIn(f)) - f[h] + g[h]
           /\ f[h] <= Cardinality(UnitsIn(f))
<1> DEFINE a == {h} \X (1..f[h])
           b == {h} \X (1..g[h])
           rest == UNION {{k} \X (1..f[k]) : k \in Holds \ {h}}
<1>1. IsFiniteSet(a) /\ Cardinality(a) = f[h]
  BY UnitsOutOne
<1>2. IsFiniteSet(b) /\ Cardinality(b) = g[h]
  BY UnitsOutOne
<1>3. UnitsIn(f) = rest \cup a
  BY DEF UnitsIn
<1>4. UnitsIn(g) = rest \cup b
  <2>1. rest = UNION {{k} \X (1..g[k]) : k \in Holds \ {h}}
    OBVIOUS
  <2> QED
    BY <2>1 DEF UnitsIn
<1>5. rest \cap a = {} /\ rest \cap b = {}
  OBVIOUS
<1> HIDE DEF a, b, rest
<1>6. IsFiniteSet(rest)
  BY <1>3, FS_Subset
<1>7. Cardinality(rest) \in Nat
  BY <1>6, FS_CardinalityType
<1>8. /\ IsFiniteSet(rest \cup b)
      /\ Cardinality(rest \cup b) = Cardinality(rest) + Cardinality(b) - Cardinality({})
  BY <1>2, <1>5, <1>6, FS_Union
<1>9. Cardinality(rest \cup a) = Cardinality(rest) + Cardinality(a) - Cardinality({})
  BY <1>1, <1>5, <1>6, FS_Union
<1>10. Cardinality({}) = 0
  BY FS_EmptySet
<1> QED
  BY <1>1, <1>2, <1>3, <1>4, <1>7, <1>8, <1>9, <1>10

\* quantity_allocated counts the units that are out, and these are finitely
\* many; an ending in flight has seen enough of them allocated for its own hold.
EndKnows(c) ==
    call[c].step = "ending" =>
        /\ alloc[call[c].exchange] # NoAllocation
        /\ alloc[call[c].exchange].quantity <= call[c].allocated

Accounted == \A r \in Pools : /\ IsFiniteSet(UnitsOutOf(r))
                              /\ pool[r].allocated = Cardinality(UnitsOutOf(r))

\* Nobody holds his own pool by an exchange.
Foreign(x) == alloc[x] # NoAllocation => alloc[x].org # OrgOf[x]

AccountInv ==
    /\ Accounted
    /\ \A c \in Calls : EndKnows(c)
    /\ \A x \in Exchanges : Foreign(x)

\* The units of pool r by hold.
OutOf(r) == [h \in Holds |-> UnitsOut(h, r)]

LEMMA UnitsAreOut == \A r : UnitsOutOf(r) = UnitsIn(OutOf(r))
BY DEF UnitsOutOf, UnitsIn, OutOf

\* No hold has more units out than its pool has allocated.
LEMMA OutIsAllocated ==
    ASSUME TypeOK, Accounted, NEW h \in Holds, NEW r \in Pools
    PROVE  UnitsOut(h, r) <= pool[r].allocated
<1>1. OutOf(r)[h] \in Nat /\ OutOf(r)[h] = UnitsOut(h, r)
  BY UnitsOutNat DEF OutOf
<1>2. IsFiniteSet(UnitsIn(OutOf(r))) /\ pool[r].allocated = Cardinality(UnitsIn(OutOf(r)))
  BY UnitsAreOut DEF Accounted
<1>3. OutOf(r)[h] <= Cardinality(UnitsIn(OutOf(r)))
  <2> DEFINE f == OutOf(r)
  <2>1. f[h] \in Nat /\ IsFiniteSet(UnitsIn(f))
    BY <1>1, <1>2
  <2> HIDE DEF f
  <2>2. f[h] <= Cardinality(UnitsIn(f))
    BY <2>1, OneHoldCounts
  <2> QED
    BY <2>2 DEF f
<1> QED
  BY <1>1, <1>2, <1>3

\* The units of every hold but h stay where they are.
OnlyOf(h) == \A k \in Holds \ {h}, p \in Pools : UnitsOut(k, p)' = UnitsOut(k, p)

SameOut == \A k \in Holds, p \in Pools : UnitsOut(k, p)' = UnitsOut(k, p)

LEMMA StillNat == ASSUME TypeOK', NEW h \in Holds, NEW r \in Pools
                  PROVE  UnitsOut(h, r)' \in Nat
<1>1. alloc'[h] \in Allocation \cup {NoAllocation}
  BY DEF TypeOK
<1> QED
  BY <1>1 DEF UnitsOut, Allocation

\* A step in which one hold's units change, each pool's counter with them.
LEMMA HoldCounted ==
    ASSUME TypeOK, TypeOK', Accounted, NEW h \in Holds, OnlyOf(h),
           \A r \in Pools : pool'[r].allocated =
               pool[r].allocated - UnitsOut(h, r) + UnitsOut(h, r)'
    PROVE  Accounted'
<1> SUFFICES ASSUME NEW r \in Pools
             PROVE  IsFiniteSet(UnitsOutOf(r)') /\ pool'[r].allocated = Cardinality(UnitsOutOf(r)')
  BY DEF Accounted
<1> DEFINE f == OutOf(r)
           g == OutOf(r)'
<1>1. f[h] = UnitsOut(h, r) /\ f[h] \in Nat
  BY UnitsOutNat DEF OutOf
<1>2. g[h] = UnitsOut(h, r)' /\ g[h] \in Nat
  BY StillNat DEF OutOf
<1>3. \A k \in Holds \ {h} : g[k] = f[k]
  BY DEF OutOf, OnlyOf
<1>4. UnitsOutOf(r) = UnitsIn(f) /\ UnitsOutOf(r)' = UnitsIn(g)
  BY DEF UnitsOutOf, UnitsIn, OutOf
<1> HIDE DEF f, g
<1>5. IsFiniteSet(UnitsIn(f)) /\ pool[r].allocated = Cardinality(UnitsIn(f))
  BY <1>4 DEF Accounted
<1>6. IsFiniteSet(UnitsIn(g)) /\ Cardinality(UnitsIn(g)) = Cardinality(UnitsIn(f)) - f[h] + g[h]
  BY <1>1, <1>2, <1>3, <1>5, OneHoldCounts
<1> QED
  BY <1>1, <1>2, <1>4, <1>5, <1>6

\* A step in which no hold's units change, and no counter of them.
LEMMA NoneCounted ==
    ASSUME Accounted, SameOut,
           \A r \in Pools : pool'[r].allocated = pool[r].allocated
    PROVE  Accounted'
<1>1. ASSUME NEW r \in Pools PROVE UnitsOutOf(r)' = UnitsOutOf(r)
  <2> DEFINE f == OutOf(r)
             g == OutOf(r)'
  <2>1. \A k \in Holds : g[k] = f[k]
    BY DEF OutOf, SameOut
  <2>2. UnitsOutOf(r) = UnitsIn(f) /\ UnitsOutOf(r)' = UnitsIn(g)
    BY DEF UnitsOutOf, UnitsIn, OutOf
  <2> HIDE DEF f, g
  <2>3. UnitsIn(g) = UnitsIn(f)
    BY <2>1 DEF UnitsIn
  <2> QED
    BY <2>2, <2>3
<1> QED
  BY <1>1 DEF Accounted

-----------------------------------------------------------------------------
(* What a step does to units: it moves them, and each counter with them.   *)

\* A counter of pool p grows by so many units, or shrinks.
Counters(p, f, s, a) ==
    /\ pool'[p].available = pool[p].available + f
    /\ pool'[p].reserved = pool[p].reserved + s
    /\ pool'[p].allocated = pool[p].allocated + a

OnlyPool(r) == \A p \in Pools \ {r} : Counters(p, 0, 0, 0)

Still == SameOut /\ \A p \in Pools : Counters(p, 0, 0, 0)

Shifts(r, n) ==
    /\ SameOut /\ OnlyPool(r)
    /\ \/ n <= pool[r].available /\ Counters(r, -n, n, 0)
       \/ n <= pool[r].reserved /\ Counters(r, n, -n, 0)

Brings(r, n) ==
    /\ SameOut /\ OnlyPool(r)
    /\ pool[r].available = 0 /\ pool[r].reserved = 0 /\ pool[r].allocated = 0
    /\ Counters(r, n, 0, 0)

\* Hold h gets n units of pool r.
Takes(h, r, n) ==
    /\ OnlyOf(h) /\ OnlyPool(r)
    /\ UnitsOut(h, r)' = UnitsOut(h, r) + n
    /\ \A p \in Pools \ {r} : UnitsOut(h, p)' = UnitsOut(h, p)
    /\ \/ n <= pool[r].available /\ Counters(r, -n, 0, n)
       \/ n <= pool[r].reserved /\ Counters(r, 0, -n, n)

\* All that hold h has of pool r goes to what pool d has available.
HandsIn(h, r, d) ==
    /\ OnlyOf(h)
    /\ UnitsOut(h, r)' = 0
    /\ \A p \in Pools \ {r} : UnitsOut(h, p)' = UnitsOut(h, p)
    /\ pool'[d].available = pool[d].available + UnitsOut(h, r)
    /\ \A p \in Pools \ {d} : pool'[p].available = pool[p].available
    /\ \A p \in Pools : pool'[p].reserved = pool[p].reserved
    /\ pool'[r].allocated = pool[r].allocated - UnitsOut(h, r)
    /\ \A p \in Pools \ {r} : pool'[p].allocated = pool[p].allocated

UnitsMove ==
    \/ Still
    \/ \E r \in Pools, n \in Nat \ {0} : Shifts(r, n)
    \/ \E r \in Pools, n \in Stocks : Brings(r, n)
    \/ \E h \in Holds, r \in Pools, n \in Nat \ {0} : Takes(h, r, n)
    \/ \E h \in Holds, r, d \in Pools : HandsIn(h, r, d)

LEMMA AllocatedNat == ASSUME TypeOK
                      PROVE  \A p \in Pools : /\ pool[p].allocated \in Nat
                                              /\ pool[p].available \in Nat
                                              /\ pool[p].reserved \in Nat
BY DEF TypeOK, Pool

\* Every move keeps the count.
LEMMA MovesCounted == ASSUME TypeOK, TypeOK', Accounted, UnitsMove PROVE Accounted'
<1>0. \A p \in Pools : pool[p].allocated \in Nat
  BY AllocatedNat
<1>1. CASE Still
  <2>1. \A p \in Pools : pool'[p].allocated = pool[p].allocated
    BY <1>0, <1>1 DEF Still, Counters
  <2> QED
    BY <1>1, <2>1, NoneCounted DEF Still
<1>2. ASSUME NEW r \in Pools, NEW n \in Nat, Shifts(r, n) PROVE Accounted'
  <2>1. \A p \in Pools : pool'[p].allocated = pool[p].allocated
    BY <1>0, <1>2 DEF Shifts, OnlyPool, Counters
  <2> QED
    BY <1>2, <2>1, NoneCounted DEF Shifts
<1>3. ASSUME NEW r \in Pools, NEW n \in Stocks, Brings(r, n) PROVE Accounted'
  <2>1. \A p \in Pools : pool'[p].allocated = pool[p].allocated
    BY <1>0, <1>3 DEF Brings, OnlyPool, Counters
  <2> QED
    BY <1>3, <2>1, NoneCounted DEF Brings
<1>4. ASSUME NEW h \in Holds, NEW r \in Pools, NEW n \in Nat, Takes(h, r, n) PROVE Accounted'
  <2>1. pool'[r].allocated = pool[r].allocated + n
    BY <1>4 DEF Takes, Counters
  <2>2. \A p \in Pools \ {r} : pool'[p].allocated = pool[p].allocated
    BY <1>0, <1>4 DEF Takes, OnlyPool, Counters
  <2>3. \A p \in Pools : UnitsOut(h, p) \in Nat
    BY UnitsOutNat
  <2>4. \A p \in Pools : pool'[p].allocated =
                             pool[p].allocated - UnitsOut(h, p) + UnitsOut(h, p)'
    BY <1>0, <1>4, <2>1, <2>2, <2>3 DEF Takes
  <2> QED
    BY <1>4, <2>4, HoldCounted DEF Takes
<1>5. ASSUME NEW h \in Holds, NEW r \in Pools, NEW d \in Pools, HandsIn(h, r, d) PROVE Accounted'
  <2>1. \A p \in Pools : UnitsOut(h, p) \in Nat
    BY UnitsOutNat
  <2>2. \A p \in Pools : pool'[p].allocated =
                             pool[p].allocated - UnitsOut(h, p) + UnitsOut(h, p)'
    BY <1>0, <1>5, <2>1 DEF HandsIn
  <2> QED
    BY <1>5, <2>2, HoldCounted DEF HandsIn
<1> QED
  BY <1>1, <1>2, <1>3, <1>4, <1>5 DEF UnitsMove

\* A table of units that differs in one place.
LEMMA OnePlace ==
    ASSUME NEW H, NEW P, NEW f \in [H -> [P -> Nat]], NEW g \in [H -> [P -> Nat]],
           NEW h \in H, NEW r \in P, NEW v, g[h][r] = v,
           \A p \in P \ {r} : g[h][p] = f[h][p],
           \A k \in H \ {h}, p \in P : g[k][p] = f[k][p]
    PROVE  g = [f EXCEPT ![h] = [f[h] EXCEPT ![r] = v]]
<1>1. g[h] = [f[h] EXCEPT ![r] = v]
  OBVIOUS
<1>2. ASSUME NEW k \in H \ {h} PROVE g[k] = f[k]
  <2>1. g[k] \in [P -> Nat] /\ f[k] \in [P -> Nat]
    OBVIOUS
  <2>2. \A p \in P : g[k][p] = f[k][p]
    OBVIOUS
  <2> QED
    BY <2>1, <2>2
<1> QED
  BY <1>1, <1>2

-----------------------------------------------------------------------------
(* Every move is a step of the bank.                                       *)

Tables ==
    /\ FreeUnits \in [Pools -> Nat] /\ ReservedUnits \in [Pools -> Nat]
    /\ HeldUnits \in [Holds -> [Pools -> Nat]]

LEMMA TablesTyped == ASSUME TypeOK PROVE Tables
<1>1. \A h \in Holds, r \in Pools : UnitsOut(h, r) \in Nat
  BY UnitsOutNat
<1> QED
  BY <1>1, AllocatedNat DEF Tables, FreeUnits, ReservedUnits, HeldUnits

LEMMA TablesStillTyped == ASSUME TypeOK' PROVE Tables'
<1>1. \A h \in Holds, r \in Pools : UnitsOut(h, r)' \in Nat
  BY StillNat
<1>2. \A r \in Pools : pool'[r].available \in Nat /\ pool'[r].reserved \in Nat
  BY DEF TypeOK, Pool
<1> QED
  BY <1>1, <1>2 DEF Tables, FreeUnits, ReservedUnits, HeldUnits

\* What the tables have in one place.
LEMMA Entries ==
    /\ \A r \in Pools : /\ FreeUnits[r] = pool[r].available
                        /\ ReservedUnits[r] = pool[r].reserved
                        /\ FreeUnits'[r] = pool'[r].available
                        /\ ReservedUnits'[r] = pool'[r].reserved
    /\ \A h \in Holds, r \in Pools : /\ HeldUnits[h][r] = UnitsOut(h, r)
                                     /\ HeldUnits'[h][r] = UnitsOut(h, r)'
BY DEF FreeUnits, ReservedUnits, HeldUnits

LEMMA HeldStays == ASSUME SameOut PROVE UNCHANGED HeldUnits
BY DEF SameOut, HeldUnits

LEMMA MovesBank ==
    ASSUME TypeOK, TypeOK', Accounted, UnitsMove
    PROVE  Bank!Next \/ UNCHANGED Bank!bankVars
<1>0. Tables /\ Tables'
  BY TablesTyped, TablesStillTyped
<1>a. \A p \in Pools : /\ pool[p].allocated \in Nat /\ pool[p].available \in Nat
                       /\ pool[p].reserved \in Nat
  BY AllocatedNat
<1>1. CASE Still
  <2>1. UNCHANGED HeldUnits
    BY <1>1, HeldStays DEF Still
  <2>2. \A p \in Pools : /\ pool'[p].available = pool[p].available
                         /\ pool'[p].reserved = pool[p].reserved
    BY <1>1, <1>a DEF Still, Counters
  <2>3. UNCHANGED FreeUnits /\ UNCHANGED ReservedUnits
    BY <2>2 DEF FreeUnits, ReservedUnits
  <2> QED
    BY <2>1, <2>3 DEF Bank!bankVars
<1>2. ASSUME NEW r \in Pools, NEW n \in Nat \ {0}, Shifts(r, n) PROVE Bank!Next
  <2>1. UNCHANGED HeldUnits
    BY <1>2, HeldStays DEF Shifts
  <2>2. \A p \in Pools \ {r} : /\ pool'[p].available = pool[p].available
                               /\ pool'[p].reserved = pool[p].reserved
    BY <1>2, <1>a DEF Shifts, OnlyPool, Counters
  <2>3. CASE n <= pool[r].available /\ Counters(r, -n, n, 0)
    <3>1. /\ pool'[r].available = pool[r].available - n
          /\ pool'[r].reserved = pool[r].reserved + n
      BY <2>3, <1>a DEF Counters
    <3>2. n \in 1..FreeUnits[r]
      BY <2>3, <1>a, Entries
    <3>3. FreeUnits' = [FreeUnits EXCEPT ![r] = FreeUnits[r] - n]
      BY <1>0, <2>2, <3>1, Entries DEF Tables
    <3>4. ReservedUnits' = [ReservedUnits EXCEPT ![r] = ReservedUnits[r] + n]
      BY <1>0, <2>2, <3>1, Entries DEF Tables
    <3>5. Bank!SetAside(r)
      BY <2>1, <3>2, <3>3, <3>4 DEF Bank!SetAside
    <3> QED
      BY <3>5 DEF Bank!Next
  <2>4. CASE n <= pool[r].reserved /\ Counters(r, n, -n, 0)
    <3>1. /\ pool'[r].available = pool[r].available + n
          /\ pool'[r].reserved = pool[r].reserved - n
      BY <2>4, <1>a DEF Counters
    <3>2. n \in 1..ReservedUnits[r]
      BY <2>4, <1>a, Entries
    <3>3. FreeUnits' = [FreeUnits EXCEPT ![r] = FreeUnits[r] + n]
      BY <1>0, <2>2, <3>1, Entries DEF Tables
    <3>4. ReservedUnits' = [ReservedUnits EXCEPT ![r] = ReservedUnits[r] - n]
      BY <1>0, <2>2, <3>1, Entries DEF Tables
    <3>5. Bank!PutBack(r)
      BY <2>1, <3>2, <3>3, <3>4 DEF Bank!PutBack
    <3> QED
      BY <3>5 DEF Bank!Next
  <2> QED
    BY <1>2, <2>3, <2>4 DEF Shifts
<1>3. ASSUME NEW r \in Pools, NEW n \in Stocks, Brings(r, n) PROVE Bank!Next
  <2>1. UNCHANGED HeldUnits
    BY <1>3, HeldStays DEF Brings
  <2>2. /\ FreeUnits[r] = 0 /\ ReservedUnits[r] = 0
        /\ pool[r].available = 0 /\ pool[r].allocated = 0
    BY <1>3, Entries DEF Brings
  <2>3. \A h \in Holds : HeldUnits[h][r] = 0
    <3>1. ASSUME NEW h \in Holds PROVE UnitsOut(h, r) = 0
      BY <2>2, OutIsAllocated, UnitsOutNat
    <3> QED
      BY <3>1, Entries
  <2>4. \A p \in Pools \ {r} : /\ pool'[p].available = pool[p].available
                               /\ pool'[p].reserved = pool[p].reserved
    BY <1>3, <1>a DEF Brings, OnlyPool, Counters
  <2>5. n \in Nat
    BY BoundsType DEF Stocks
  <2>6. pool'[r].available = n /\ pool'[r].reserved = pool[r].reserved
    BY <1>3, <1>a, <2>2, <2>5 DEF Brings, Counters
  <2>7. FreeUnits' = [FreeUnits EXCEPT ![r] = n]
    BY <1>0, <2>4, <2>6, Entries DEF Tables
  <2>8. UNCHANGED ReservedUnits
    BY <1>0, <2>4, <2>6, Entries DEF Tables
  <2>9. Bank!Stock(r, n)
    BY <2>1, <2>2, <2>3, <2>7, <2>8 DEF Bank!Stock
  <2> QED
    BY <2>9 DEF Bank!Next
<1>4. ASSUME NEW h \in Holds, NEW r \in Pools, NEW n \in Nat \ {0}, Takes(h, r, n)
      PROVE  Bank!Next
  <2>1. HeldUnits' = [HeldUnits EXCEPT ![h] = [HeldUnits[h] EXCEPT ![r] = HeldUnits[h][r] + n]]
    <3>1. /\ HeldUnits \in [Holds -> [Pools -> Nat]]
          /\ HeldUnits' \in [Holds -> [Pools -> Nat]]
      BY <1>0 DEF Tables
    <3>2. /\ HeldUnits'[h][r] = HeldUnits[h][r] + n
          /\ \A p \in Pools \ {r} : HeldUnits'[h][p] = HeldUnits[h][p]
          /\ \A k \in Holds \ {h}, p \in Pools : HeldUnits'[k][p] = HeldUnits[k][p]
      BY <1>4, Entries DEF Takes, OnlyOf
    <3> QED
      BY <3>1, <3>2, OnePlace
  <2>2. \A p \in Pools \ {r} : /\ pool'[p].available = pool[p].available
                               /\ pool'[p].reserved = pool[p].reserved
    BY <1>4, <1>a DEF Takes, OnlyPool, Counters
  <2>3. CASE n <= pool[r].available /\ Counters(r, -n, 0, n)
    <3>1. /\ pool'[r].available = pool[r].available - n
          /\ pool'[r].reserved = pool[r].reserved
      BY <2>3, <1>a DEF Counters
    <3>2. n \in 1..FreeUnits[r]
      BY <2>3, <1>a, Entries
    <3>3. FreeUnits' = [FreeUnits EXCEPT ![r] = FreeUnits[r] - n]
      BY <1>0, <2>2, <3>1, Entries DEF Tables
    <3>4. UNCHANGED ReservedUnits
      BY <1>0, <2>2, <3>1, Entries DEF Tables
    <3>5. Bank!TakeFree(h, r)
      BY <2>1, <3>2, <3>3, <3>4 DEF Bank!TakeFree
    <3> QED
      BY <3>5 DEF Bank!Next
  <2>4. CASE n <= pool[r].reserved /\ Counters(r, 0, -n, n)
    <3>1. /\ pool'[r].available = pool[r].available
          /\ pool'[r].reserved = pool[r].reserved - n
      BY <2>4, <1>a DEF Counters
    <3>2. n \in 1..ReservedUnits[r]
      BY <2>4, <1>a, Entries
    <3>3. ReservedUnits' = [ReservedUnits EXCEPT ![r] = ReservedUnits[r] - n]
      BY <1>0, <2>2, <3>1, Entries DEF Tables
    <3>4. UNCHANGED FreeUnits
      BY <1>0, <2>2, <3>1, Entries DEF Tables
    <3>5. Bank!TakeReserved(h, r)
      BY <2>1, <3>2, <3>3, <3>4 DEF Bank!TakeReserved
    <3> QED
      BY <3>5 DEF Bank!Next
  <2> QED
    BY <1>4, <2>3, <2>4 DEF Takes
<1>5. ASSUME NEW h \in Holds, NEW r \in Pools, NEW d \in Pools, HandsIn(h, r, d)
      PROVE  Bank!Next \/ UNCHANGED Bank!bankVars
  <2> DEFINE n == UnitsOut(h, r)
  <2>1. n \in Nat /\ n = HeldUnits[h][r]
    BY UnitsOutNat, Entries
  <2>2. HeldUnits' = [HeldUnits EXCEPT ![h] = [HeldUnits[h] EXCEPT ![r] = 0]]
    <3>1. /\ HeldUnits \in [Holds -> [Pools -> Nat]]
          /\ HeldUnits' \in [Holds -> [Pools -> Nat]]
      BY <1>0 DEF Tables
    <3>2. /\ HeldUnits'[h][r] = 0
          /\ \A p \in Pools \ {r} : HeldUnits'[h][p] = HeldUnits[h][p]
          /\ \A k \in Holds \ {h}, p \in Pools : HeldUnits'[k][p] = HeldUnits[k][p]
      BY <1>5, Entries DEF HandsIn, OnlyOf
    <3> QED
      BY <3>1, <3>2, OnePlace
  <2>3. FreeUnits' = [FreeUnits EXCEPT ![d] = FreeUnits[d] + HeldUnits[h][r]]
    BY <1>0, <1>5, <2>1, Entries DEF Tables, HandsIn
  <2>4. UNCHANGED ReservedUnits
    BY <1>0, <1>5, Entries DEF Tables, HandsIn
  <2>5. CASE HeldUnits[h][r] > 0
    <3>1. Bank!HandIn(h, r, d)
      BY <2>2, <2>3, <2>4, <2>5 DEF Bank!HandIn
    <3> QED
      BY <3>1 DEF Bank!Next
  <2>6. CASE HeldUnits[h][r] = 0
    <3>1. UNCHANGED FreeUnits
      BY <1>0, <2>3, <2>6 DEF Tables
    <3>2. UNCHANGED HeldUnits
      BY <1>0, <2>2, <2>6 DEF Tables
    <3> QED
      BY <2>4, <3>1, <3>2 DEF Bank!bankVars
  <2> QED
    BY <2>1, <2>5, <2>6
<1> QED
  BY <1>1, <1>2, <1>3, <1>4, <1>5 DEF UnitsMove

-----------------------------------------------------------------------------
(* Every step only moves units.                                            *)

LEMMA SpreadFields ==
    ASSUME NEW p \in Pool, NEW n \in Nat
    PROVE  /\ LET m == ToReserved(p, n) IN
                  /\ m.available = p.available - n /\ m.reserved = p.reserved + n
                  /\ m.allocated = p.allocated
           /\ LET m == Unreserve(p, n) IN
                  /\ m.available = p.available + n /\ m.reserved = p.reserved - n
                  /\ m.allocated = p.allocated
           /\ LET m == ToAllocated(p, n) IN
                  /\ m.available = p.available - n /\ m.reserved = p.reserved
                  /\ m.allocated = p.allocated + n
           /\ LET m == ReservedToAllocated(p, n) IN
                  /\ m.available = p.available /\ m.reserved = p.reserved - n
                  /\ m.allocated = p.allocated + n
BY DEF Pool, ToReserved, Unreserve, ToAllocated, ReservedToAllocated

LEMMA ReturnFields ==
    ASSUME NEW p \in Pool, NEW n \in Nat
    PROVE  /\ LET m == GiveBack(p, n) IN
                  /\ m.available = p.available + n /\ m.reserved = p.reserved
                  /\ m.allocated = p.allocated - n
           /\ LET m == HandOver(p, n) IN
                  /\ m.available = p.available /\ m.reserved = p.reserved
                  /\ m.allocated = p.allocated - n
           /\ LET m == Receive(p, n) IN
                  /\ m.available = p.available + n /\ m.reserved = p.reserved
                  /\ m.allocated = p.allocated
BY DEF Pool, GiveBack, HandOver, Receive

LEMMA RowWritten ==
    ASSUME TypeOK, NEW r \in Pools, NEW p, pool' = [pool EXCEPT ![r] = p]
    PROVE  pool'[r] = p /\ OnlyPool(r) /\ \A d \in Pools \ {r} : pool'[d] = pool[d]
BY AllocatedNat DEF TypeOK, OnlyPool, Counters

LEMMA HoldWritten ==
    ASSUME TypeOK, NEW h \in Holds, NEW a, alloc' = [alloc EXCEPT ![h] = a]
    PROVE  OnlyOf(h) /\ alloc'[h] = a
BY DEF TypeOK, OnlyOf, UnitsOut

LEMMA NoHoldWritten == UNCHANGED alloc => SameOut
BY DEF SameOut, UnitsOut

\* Neither counters nor holds are written.
LEMMA NothingMoves == ASSUME TypeOK, UNCHANGED <<pool, alloc>> PROVE UnitsMove
<1>1. Still
  BY NoHoldWritten, AllocatedNat DEF Still, Counters
<1> QED
  BY <1>1 DEF UnitsMove

\* A new hold of n units.
LEMMA HoldBegins ==
    ASSUME TypeOK, NEW h \in Holds, alloc[h] = NoAllocation, NEW r \in Pools, NEW o,
           NEW n \in Quantities, NEW p, pool' = [pool EXCEPT ![r] = p],
           alloc' = [alloc EXCEPT ![h] = [status |-> "OPEN", resource |-> r,
                                          org |-> o, quantity |-> n]],
           \/ p = ToAllocated(pool[r], n) /\ n <= pool[r].available
           \/ p = ReservedToAllocated(pool[r], n) /\ n <= pool[r].reserved
    PROVE  UnitsMove
<1>1. n \in Nat \ {0} /\ pool[r] \in Pool
  BY BoundsType DEF TypeOK
<1>2. OnlyOf(h) /\ alloc'[h] = [status |-> "OPEN", resource |-> r, org |-> o, quantity |-> n]
  BY HoldWritten
<1>3. \A d \in Pools : UnitsOut(h, d) = 0
  BY DEF UnitsOut
<1>4. /\ UnitsOut(h, r)' = n
      /\ \A d \in Pools \ {r} : UnitsOut(h, d)' = 0
  BY <1>2 DEF UnitsOut, NoAllocation
<1>5. pool'[r] = p /\ OnlyPool(r)
  BY RowWritten
<1>6. \/ n <= pool[r].available /\ Counters(r, -n, 0, n)
      \/ n <= pool[r].reserved /\ Counters(r, 0, -n, n)
  <2>1. pool[r].available \in Nat /\ pool[r].reserved \in Nat /\ pool[r].allocated \in Nat
    BY AllocatedNat
  <2>2. CASE p = ToAllocated(pool[r], n) /\ n <= pool[r].available
    <3>1. p.available = pool[r].available - n /\ p.reserved = pool[r].reserved
          /\ p.allocated = pool[r].allocated + n
      BY <1>1, <2>2, SpreadFields
    <3> QED
      BY <1>1, <1>5, <2>1, <2>2, <3>1 DEF Counters
  <2>3. CASE p = ReservedToAllocated(pool[r], n) /\ n <= pool[r].reserved
    <3>1. p.available = pool[r].available /\ p.reserved = pool[r].reserved - n
          /\ p.allocated = pool[r].allocated + n
      BY <1>1, <2>3, SpreadFields
    <3> QED
      BY <1>1, <1>5, <2>1, <2>3, <3>1 DEF Counters
  <2> QED
    BY <2>2, <2>3
<1>7. Takes(h, r, n)
  BY <1>1, <1>2, <1>3, <1>4, <1>5, <1>6 DEF Takes
<1> QED
  BY <1>1, <1>7 DEF UnitsMove

\* A hold closes, and is no longer one that keeps its units.
LEMMA HoldCloses ==
    ASSUME TypeOK, NEW h \in Holds, alloc[h].status = "OPEN",
           NEW s \in {"RELEASED", "RETURNED"}, h \in Requests => s = "RETURNED",
           alloc' = [alloc EXCEPT ![h].status = s]
    PROVE  /\ OnlyOf(h)
           /\ UnitsOut(h, alloc[h].resource) = alloc[h].quantity
           /\ \A d \in Pools \ {alloc[h].resource} : UnitsOut(h, d) = 0
           /\ \A d \in Pools : UnitsOut(h, d)' = 0
<1> DEFINE a == [alloc[h] EXCEPT !.status = s]
<1>1. alloc[h] \in Allocation /\ alloc[h] # NoAllocation
  BY OpenShape DEF NoAllocation
<1>2. a.status = s
  BY <1>1 DEF Allocation
<1> HIDE DEF a
<1>3. OnlyOf(h) /\ alloc'[h] = a
  BY HoldWritten DEF a
<1>4. \A d \in Pools : UnitsOut(h, d)' = 0
  BY <1>2, <1>3 DEF UnitsOut
<1>5. /\ UnitsOut(h, alloc[h].resource) = alloc[h].quantity
      /\ \A d \in Pools \ {alloc[h].resource} : UnitsOut(h, d) = 0
  BY <1>1 DEF UnitsOut
<1> QED
  BY <1>3, <1>4, <1>5

\* Its units go back to its pool.
LEMMA HoldGivesBack ==
    ASSUME TypeOK, NEW h \in Holds, alloc[h].status = "OPEN",
           NEW s \in {"RELEASED", "RETURNED"}, h \in Requests => s = "RETURNED",
           alloc' = [alloc EXCEPT ![h].status = s],
           pool' = [pool EXCEPT ![alloc[h].resource] = GiveBack(@, alloc[h].quantity)]
    PROVE  UnitsMove
<1>1. PICK r \in Pools : r = alloc[h].resource
  BY OpenShape DEF Allocation
<1>2. PICK n \in Nat : n = alloc[h].quantity
  BY OpenShape DEF Allocation
<1>3. /\ OnlyOf(h) /\ UnitsOut(h, r) = n /\ UnitsOut(h, r)' = 0
      /\ \A d \in Pools \ {r} : UnitsOut(h, d)' = UnitsOut(h, d)
  BY <1>1, <1>2, HoldCloses
<1>4. pool' = [pool EXCEPT ![r] = GiveBack(pool[r], n)]
  BY <1>1, <1>2
<1>5. pool'[r] = GiveBack(pool[r], n) /\ \A d \in Pools \ {r} : pool'[d] = pool[d]
  BY <1>4, RowWritten
<1>6. /\ pool'[r].available = pool[r].available + n
      /\ pool'[r].reserved = pool[r].reserved
      /\ pool'[r].allocated = pool[r].allocated - n
  BY <1>5, ReturnFields DEF TypeOK
<1>7. HandsIn(h, r, r)
  BY <1>3, <1>5, <1>6 DEF HandsIn
<1> QED
  BY <1>7 DEF UnitsMove

LEMMA EverydayMoves == ASSUME Inv, NEW r \in Pools, Everyday(r) PROVE UnitsMove
<1>0. TypeOK /\ pool[r] \in Pool
  BY DEF Inv, TypeOK
<1>a. pool[r].available \in Nat /\ pool[r].reserved \in Nat /\ pool[r].allocated \in Nat
  BY <1>0, AllocatedNat
<1>1. ASSUME NEW o \in Orgs, NEW n \in 1..MaxUnits, Register(r, o, n) PROVE UnitsMove
  <2>1. SameOut
    BY <1>1, NoHoldWritten DEF Register
  <2>2. pool'[r] = NewPool(o, n) /\ OnlyPool(r)
    BY <1>0, <1>1, RowWritten DEF Register
  <2>3. pool[r].available = 0 /\ pool[r].reserved = 0 /\ pool[r].allocated = 0
    BY <1>1 DEF Register, NoPool
  <2>4. n \in Nat /\ n \in Stocks
    BY BoundsType DEF Stocks
  <2>5. Counters(r, n, 0, 0)
    BY <2>2, <2>3, <2>4 DEF Counters, NewPool
  <2>6. Brings(r, n)
    BY <2>1, <2>2, <2>3, <2>5 DEF Brings
  <2> QED
    BY <2>4, <2>6 DEF UnitsMove
<1>2. ASSUME NEW n \in Quantities, ReserveQuantity(r, n) PROVE UnitsMove
  <2>1. SameOut /\ n \in Nat \ {0}
    BY <1>2, NoHoldWritten, BoundsType DEF ReserveQuantity
  <2>2. pool'[r] = ToReserved(pool[r], n) /\ OnlyPool(r)
    BY <1>0, <1>2, RowWritten DEF ReserveQuantity
  <2>3. Counters(r, -n, n, 0) /\ n <= pool[r].available
    BY <1>0, <1>a, <1>2, <2>1, <2>2, SpreadFields DEF Counters, ReserveQuantity
  <2>4. Shifts(r, n)
    BY <2>1, <2>2, <2>3 DEF Shifts
  <2> QED
    BY <2>1, <2>4 DEF UnitsMove
<1>3. ASSUME NEW n \in Quantities, ReleaseQuantityReservation(r, n) PROVE UnitsMove
  <2>1. SameOut /\ n \in Nat \ {0}
    BY <1>3, NoHoldWritten, BoundsType DEF ReleaseQuantityReservation
  <2>2. pool'[r] = Unreserve(pool[r], n) /\ OnlyPool(r)
    BY <1>0, <1>3, RowWritten DEF ReleaseQuantityReservation
  <2>3. Counters(r, n, -n, 0) /\ n <= pool[r].reserved
    BY <1>0, <1>a, <1>3, <2>1, <2>2, SpreadFields DEF Counters, ReleaseQuantityReservation
  <2>4. Shifts(r, n)
    BY <2>1, <2>2, <2>3 DEF Shifts
  <2> QED
    BY <2>1, <2>4 DEF UnitsMove
<1>4. ASSUME NEW t \in Tickets, NEW n \in Quantities, EverydayAllocateQuantity(r, t, n)
      PROVE  UnitsMove
  <2>1. t \in Holds
    BY DEF Holds
  <2>2. CASE /\ pool[r].reserved >= n
             /\ pool' = [pool EXCEPT ![r] = ReservedToAllocated(@, n)]
    <3>1. n <= pool[r].reserved
      BY <1>a, <2>2, SizesAreNat
    <3> QED
      BY <1>0, <1>4, <2>1, <2>2, <3>1, HoldBegins DEF EverydayAllocateQuantity
  <2>3. CASE /\ pool[r].available >= n
             /\ pool' = [pool EXCEPT ![r] = ToAllocated(@, n)]
    <3>1. n <= pool[r].available
      BY <1>a, <2>3, SizesAreNat
    <3> QED
      BY <1>0, <1>4, <2>1, <2>3, <3>1, HoldBegins DEF EverydayAllocateQuantity
  <2> QED
    BY <1>4, <2>2, <2>3 DEF EverydayAllocateQuantity
<1> QED
  BY <1>1, <1>2, <1>3, <1>4 DEF Everyday

LEMMA ReturnMoves == ASSUME Inv, NEW t \in Tickets, EverydayReturn(t) PROVE UnitsMove
<1>1. t \in Holds /\ t \notin Requests
  BY HoldsDisjoint DEF Holds
<1> QED
  BY <1>1, HoldGivesBack DEF EverydayReturn, Inv

\* A claim adds to what the request's allocation has: the claim is of the same
\* pool as before, and what it read as fulfilled is what is there.
LEMMA ClaimMoves ==
    ASSUME Inv, ClaimsInv, NEW q \in Requests, NEW c \in Calls, CommitClaim(c, q)
    PROVE  UnitsMove
<1> DEFINE m == call[c]
<1>0. TypeOK /\ q \in Holds
  BY DEF Inv, Holds
<1>1. m \in ClaimCall /\ m.request = q
  BY <1>0, ClaimShape DEF CommitClaim
<1>2. CASE ~(PoolCondition(request[q].resource, m) /\ AllocationCondition(m)
             /\ RequestCondition(m))
  <2>1. UNCHANGED <<pool, alloc>>
    BY <1>2 DEF CommitClaim
  <2> QED
    BY <1>0, <2>1, NothingMoves
<1>3. CASE /\ PoolCondition(request[q].resource, m) /\ AllocationCondition(m)
           /\ RequestCondition(m)
  <2>1. request[q] \in Request /\ Allocatable(q) /\ request[q].fulfilled = m.fulfilled
    BY <1>0, <1>1, <1>3, RequestShape DEF RequestCondition, Allocatable
  <2>2. PICK r \in Pools : r = request[q].resource
    BY <2>1 DEF Request
  <2>3. /\ m.claim \in Nat /\ m.claim > 0 /\ m.claim <= pool[r].available
        /\ m.fulfilled \in Nat
    <3>1. m.claim \in Nat /\ m.fulfilled \in Nat
      BY <1>1 DEF ClaimCall
    <3>2. m.claim > 0
      BY <1>1 DEF ClaimsInv, CallAgrees, CommitClaim, ClaimCall
    <3>3. pool[r].available \in Nat /\ pool[r].available >= m.claim
      BY <1>0, <1>3, <2>2, AllocatedNat DEF PoolCondition
    <3> QED
      BY <3>1, <3>2, <3>3
  <2>4. PICK n \in Nat \ {0} : n = m.claim
    BY <2>3
  <2>5. PICK had \in Nat : had = m.fulfilled
    BY <2>3
  <2>6. /\ pool' = [pool EXCEPT ![r] = ToAllocated(pool[r], n)]
        /\ alloc' = [alloc EXCEPT ![q] = [status |-> "ALLOCATED", resource |-> r,
                                          org |-> OrgOf[q], quantity |-> had + n]]
    BY <1>3, <2>2, <2>4, <2>5 DEF CommitClaim
  <2>7. UnitsOut(q, r) = had /\ \A d \in Pools \ {r} : UnitsOut(q, d) = 0
    <3>1. ClaimAgrees(q)
      BY DEF ClaimsInv, ClaimsAgree
    <3>2. CASE request[q].status = "PENDING"
      <4>1. alloc[q] = NoAllocation /\ had = 0
        BY <2>1, <2>5, <3>1, <3>2 DEF ClaimAgrees
      <4> QED
        BY <4>1 DEF UnitsOut
    <3>3. CASE request[q].status = "PARTIALLY_ALLOCATED"
      <4>1. /\ alloc[q].status = "ALLOCATED" /\ alloc[q].quantity = had
            /\ alloc[q].resource = r
        BY <2>1, <2>2, <2>5, <3>1, <3>3 DEF ClaimAgrees
      <4>2. alloc[q] # NoAllocation
        BY <4>1 DEF NoAllocation
      <4> QED
        BY <4>1, <4>2 DEF UnitsOut
    <3> QED
      BY <2>1, <3>2, <3>3 DEF Allocatable
  <2>8. OnlyOf(q) /\ alloc'[q] = [status |-> "ALLOCATED", resource |-> r,
                                  org |-> OrgOf[q], quantity |-> had + n]
    BY <1>0, <2>6, HoldWritten
  <2>9. UnitsOut(q, r)' = had + n /\ \A d \in Pools \ {r} : UnitsOut(q, d)' = 0
    BY <2>8 DEF UnitsOut, NoAllocation
  <2>10. pool'[r] = ToAllocated(pool[r], n) /\ OnlyPool(r)
    BY <1>0, <2>6, RowWritten
  <2>11. Counters(r, -n, 0, n)
    <3>1. pool[r] \in Pool
      BY <1>0 DEF TypeOK
    <3>2. /\ pool'[r].available = pool[r].available - n
          /\ pool'[r].reserved = pool[r].reserved
          /\ pool'[r].allocated = pool[r].allocated + n
      BY <2>10, <3>1, SpreadFields
    <3> QED
      BY <1>0, <3>2, AllocatedNat DEF Counters
  <2>12. Takes(q, r, n)
    BY <2>3, <2>4, <2>7, <2>8, <2>9, <2>10, <2>11 DEF Takes
  <2> QED
    BY <2>12, <1>0 DEF UnitsMove
<1> QED
  BY <1>2, <1>3

LEMMA EmergencyMoves ==
    ASSUME Inv, ClaimsInv, NEW q \in Requests, Emergency(q) PROVE UnitsMove
<1>0. TypeOK /\ q \in Holds
  BY DEF Inv, Holds
<1>1. ASSUME NEW c \in Calls, CommitClaim(c, q) PROVE UnitsMove
  BY <1>1, ClaimMoves
<1>2. CASE AutoRelease(q)
  <2>1. CASE decision[q] = "keep" /\ Releasable(q)
    <3> DEFINE a == [alloc[q] EXCEPT !.status = "RELEASED"]
    <3>1. alloc[q] \in Allocation /\ alloc[q].status = "ALLOCATED" /\ alloc[q] # NoAllocation
      BY <1>0, <2>1, OpenShape DEF Releasable, NoAllocation
    <3>2. /\ a.status = "RELEASED" /\ a.quantity = alloc[q].quantity
          /\ a.resource = alloc[q].resource
      BY <3>1 DEF Allocation
    <3>3. alloc' = [alloc EXCEPT ![q] = a] /\ UNCHANGED pool
      BY <1>2, <2>1 DEF AutoRelease
    <3> HIDE DEF a
    <3>4. OnlyOf(q) /\ alloc'[q] = a
      BY <1>0, <3>3, HoldWritten
    <3>5. a # NoAllocation
      BY <3>2 DEF NoAllocation
    <3>6. \A d \in Pools : UnitsOut(q, d)' = UnitsOut(q, d)
      BY <3>1, <3>2, <3>4, <3>5 DEF UnitsOut
    <3>7. SameOut
      BY <3>4, <3>6 DEF SameOut, OnlyOf
    <3>8. Still
      BY <1>0, <3>3, <3>7, AllocatedNat DEF Still, Counters
    <3> QED
      BY <3>8 DEF UnitsMove
  <2>2. CASE ~(decision[q] = "keep" /\ Releasable(q))
    BY <1>0, <1>2, <2>2, NothingMoves DEF AutoRelease
  <2> QED
    BY <2>1, <2>2
<1>3. CASE \/ \E r \in Pools, n \in Quantities : CreateRequest(q, r, n)
           \/ CloseUnallocated(q)
           \/ \E c \in Calls : ReadForClaim(c, q)
           \/ CompleteRequest(q)
           \/ LookupHolders(q)
  <2>1. UNCHANGED <<pool, alloc>>
    BY <1>3 DEF CreateRequest, CloseUnallocated, ReadForClaim, CompleteRequest, LookupHolders
  <2> QED
    BY <1>0, <2>1, NothingMoves
<1> QED
  BY <1>1, <1>2, <1>3 DEF Emergency

\* A handover: the held units leave one pool and arrive in another, which may
\* be a new one.
LEMMA HandoverMoves ==
    ASSUME Inv, AccountInv, NEW x \in Exchanges, NEW d \in Pools,
           ConfirmQuantityHandover(x, d)
    PROVE  UnitsMove
<1>0. TypeOK /\ x \in Holds /\ x \notin Requests
  BY HoldsDisjoint DEF Inv, Holds
<1>1. /\ alloc[x].status = "OPEN" /\ alloc[x] \in Allocation
      /\ alloc[x].org # OrgOf[x]
  BY <1>0, OpenShape DEF ConfirmQuantityHandover, AccountInv, Foreign, NoAllocation
<1>2. PICK r \in Pools : r = alloc[x].resource
  BY <1>1 DEF Allocation
<1>3. PICK n \in Nat : n = alloc[x].quantity
  BY <1>1 DEF Allocation
<1>4. pool \in [Pools -> Pool] /\ pool[r] \in Pool /\ pool[d] \in Pool
  BY <1>0 DEF TypeOK
<1>5. /\ OnlyOf(x) /\ UnitsOut(x, r) = n /\ UnitsOut(x, r)' = 0
      /\ \A p \in Pools \ {r} : UnitsOut(x, p)' = UnitsOut(x, p)
  BY <1>0, <1>1, <1>2, <1>3, HoldCloses DEF ConfirmQuantityHandover
<1>6. TransferItems(x, r, d, n)
  BY <1>2, <1>3 DEF ConfirmQuantityHandover, HeldQuantity
<1>7. d # r
  <2>1. pool[r].org = alloc[x].org /\ alloc[x].org \in Orgs
    BY <1>1, <1>2 DEF ConfirmQuantityHandover, SourceEligible, Allocation
  <2> QED
    BY <1>1, <1>6, <2>1, OrgOfType DEF TransferItems, MergeEligible, NoPool
<1> DEFINE left == HandOver(pool[r], n)
<1>8. /\ left.available = pool[r].available /\ left.reserved = pool[r].reserved
      /\ left.allocated = pool[r].allocated - n
  BY <1>4, ReturnFields
<1> HIDE DEF left
<1>9. ASSUME NEW new, pool' = [pool EXCEPT ![r] = left, ![d] = new],
             new.available = pool[d].available + n, new.reserved = pool[d].reserved,
             new.allocated = pool[d].allocated
      PROVE  UnitsMove
  <2>1. /\ pool'[r] = left /\ pool'[d] = new
        /\ \A p \in Pools \ {r, d} : pool'[p] = pool[p]
    BY <1>4, <1>7, <1>9
  <2>2. HandsIn(x, r, d)
    BY <1>5, <1>7, <1>8, <1>9, <2>1 DEF HandsIn
  <2> QED
    BY <1>0, <2>2 DEF UnitsMove
<1>10. CASE /\ pool[d] = NoPool
            /\ pool' = [pool EXCEPT ![r] = left, ![d] = NewPool(OrgOf[x], n)]
  <2> DEFINE new == NewPool(OrgOf[x], n)
  <2>1. /\ new.available = pool[d].available + n /\ new.reserved = pool[d].reserved
        /\ new.allocated = pool[d].allocated
    BY <1>10 DEF NewPool, NoPool
  <2>2. pool' = [pool EXCEPT ![r] = left, ![d] = new]
    BY <1>10
  <2> HIDE DEF new
  <2> QED
    BY <1>9, <2>1, <2>2
<1>11. CASE pool' = [pool EXCEPT ![r] = left, ![d] = Receive(@, n)]
  <2> DEFINE new == Receive(pool[d], n)
  <2>1. /\ new.available = pool[d].available + n /\ new.reserved = pool[d].reserved
        /\ new.allocated = pool[d].allocated
    BY <1>4, ReturnFields
  <2>2. pool' = [pool EXCEPT ![r] = left, ![d] = new]
    BY <1>7, <1>11
  <2> HIDE DEF new
  <2> QED
    BY <1>9, <2>1, <2>2
<1> QED
  BY <1>6, <1>10, <1>11 DEF TransferItems, DestinationPool, left

\* The ending of a held exchange gives the units back: what it saw allocated
\* was enough for its hold.
LEMMA EndMoves ==
    ASSUME Inv, AccountInv, NEW x \in Exchanges, NEW c \in Calls, CommitEnd(c, x)
    PROVE  UnitsMove
<1>0. TypeOK /\ x \in Holds /\ x \notin Requests
  BY HoldsDisjoint DEF Inv, Holds
<1>1. CASE ExpectedStatus(call[c]) /\ alloc[x].status = "OPEN"
  <2>1. call[c] \in EndCall /\ call[c].exchange = x
    BY <1>0, EndShape DEF CommitEnd
  <2>2. alloc[x].quantity \in Nat /\ call[c].allocated \in Nat
    BY <1>0, <1>1, <2>1, OpenShape DEF Allocation, EndCall
  <2>3. alloc[x].quantity <= call[c].allocated
    BY <2>1 DEF AccountInv, EndKnows, CommitEnd
  <2>4. ~(call[c].allocated < alloc[x].quantity)
    BY <2>2, <2>3
  <2>5. HoldReleaseItems(x, call[c].allocated) /\ alloc' = [alloc EXCEPT ![x].status = "RELEASED"]
    BY <1>1 DEF CommitEnd
  <2>6. pool' = [pool EXCEPT ![alloc[x].resource] = GiveBack(@, alloc[x].quantity)]
    BY <2>4, <2>5 DEF HoldReleaseItems
  <2> QED
    BY <1>0, <1>1, <2>5, <2>6, HoldGivesBack
<1>2. CASE ~(ExpectedStatus(call[c]) /\ alloc[x].status = "OPEN")
  BY <1>0, <1>2, NothingMoves DEF CommitEnd
<1> QED
  BY <1>1, <1>2

LEMMA ExchangeMoves ==
    ASSUME Inv, AccountInv, NEW x \in Exchanges, Exchange(x) \/ Tick(x) PROVE UnitsMove
<1>0. TypeOK /\ x \in Holds
  BY DEF Inv, Holds
<1>1. ASSUME NEW r \in Pools, NEW n \in Quantities, AcceptOffer(x, r, n) PROVE UnitsMove
  <2>1. n <= pool[r].available
    BY <1>0, <1>1, AllocatedNat, SizesAreNat DEF AcceptOffer, EligibleToOffer
  <2> QED
    BY <1>0, <1>1, <2>1, HoldBegins DEF AcceptOffer
<1>2. ASSUME NEW d \in Pools, ConfirmQuantityHandover(x, d) PROVE UnitsMove
  BY <1>2, HandoverMoves
<1>3. ASSUME NEW c \in Calls, CommitEnd(c, x) PROVE UnitsMove
  BY <1>3, EndMoves
<1>4. CASE \/ StartTransfer(x)
           \/ \E t \in {"CANCELLED", "EXPIRED"} : EndOpen(x, t)
           \/ \E c \in Calls, t \in {"CANCELLED", "EXPIRED"} : ReadForEnd(c, x, t)
           \/ Tick(x)
  <2>1. UNCHANGED <<pool, alloc>>
    BY <1>4 DEF StartTransfer, EndOpen, ReadForEnd, Tick
  <2> QED
    BY <1>0, <2>1, NothingMoves
<1> QED
  BY <1>1, <1>2, <1>3, <1>4 DEF Exchange

LEMMA StepMoves ==
    ASSUME Inv, ClaimsInv, AccountInv, [Next]_vars PROVE UnitsMove
<1>0. TypeOK
  BY DEF Inv
<1>1. CASE UNCHANGED vars
  BY <1>0, <1>1, NothingMoves DEF vars
<1>2. ASSUME NEW c \in Calls, Crash(c) PROVE UnitsMove
  BY <1>0, <1>2, NothingMoves DEF Crash
<1> QED
  BY <1>1, <1>2, EverydayMoves, ReturnMoves, EmergencyMoves, ExchangeMoves DEF Next

-----------------------------------------------------------------------------
(* What an ending in flight knows of its hold stays true.                  *)

\* The allocation of an exchange is made once, of another's pool, and keeps
\* its quantity.
ExchangeHoldKept(x) ==
    IF alloc[x] = NoAllocation
    THEN alloc'[x] = NoAllocation \/ alloc'[x].org # OrgOf[x]
    ELSE /\ alloc'[x] # NoAllocation
         /\ alloc'[x].quantity = alloc[x].quantity
         /\ alloc'[x].org = alloc[x].org

LEMMA SameExchangeHold ==
    ASSUME NEW x, alloc'[x] = alloc[x] PROVE ExchangeHoldKept(x)
BY DEF ExchangeHoldKept

\* The steps of an exchange write no allocation but its own.
LEMMA OwnHoldKept ==
    ASSUME TypeOK, NEW x \in Exchanges, Exchange(x) \/ Tick(x)
    PROVE  \A y \in Exchanges : ExchangeHoldKept(y)
<1>0. x \in Holds /\ Exchanges \subseteq Holds
  BY DEF Holds
<1>1. CASE UNCHANGED alloc
  BY <1>1, SameExchangeHold
<1>2. ASSUME NEW r \in Pools, NEW n \in Quantities, AcceptOffer(x, r, n)
      PROVE  \A y \in Exchanges : ExchangeHoldKept(y)
  <2> DEFINE a == [status |-> "OPEN", resource |-> r, org |-> pool[r].org, quantity |-> n]
  <2>1. alloc' = [alloc EXCEPT ![x] = a] /\ alloc[x] = NoAllocation /\ a.org # OrgOf[x]
    BY <1>2 DEF AcceptOffer
  <2> HIDE DEF a
  <2>2. alloc'[x] = a /\ \A y \in Exchanges \ {x} : alloc'[y] = alloc[y]
    BY <1>0, <2>1 DEF TypeOK
  <2>3. ExchangeHoldKept(x)
    BY <2>1, <2>2 DEF ExchangeHoldKept
  <2> QED
    BY <2>2, <2>3, SameExchangeHold
<1>3. ASSUME alloc[x].status = "OPEN", alloc' = [alloc EXCEPT ![x].status = "RELEASED"]
      PROVE  \A y \in Exchanges : ExchangeHoldKept(y)
  <2> DEFINE a == [alloc[x] EXCEPT !.status = "RELEASED"]
  <2>1. alloc[x] \in Allocation /\ alloc[x] # NoAllocation
    BY <1>0, <1>3, OpenShape DEF NoAllocation
  <2>2. a.status = "RELEASED" /\ a.quantity = alloc[x].quantity /\ a.org = alloc[x].org
    BY <2>1 DEF Allocation
  <2>3. alloc' = [alloc EXCEPT ![x] = a]
    BY <1>3
  <2> HIDE DEF a
  <2>4. alloc'[x] = a /\ \A y \in Exchanges \ {x} : alloc'[y] = alloc[y]
    BY <1>0, <2>3 DEF TypeOK
  <2>5. a # NoAllocation
    BY <2>2 DEF NoAllocation
  <2>6. ExchangeHoldKept(x)
    BY <2>1, <2>2, <2>4, <2>5 DEF ExchangeHoldKept
  <2> QED
    BY <2>4, <2>6, SameExchangeHold
<1>4. CASE \E d \in Pools : ConfirmQuantityHandover(x, d)
  BY <1>3, <1>4 DEF ConfirmQuantityHandover
<1>5. CASE \E c \in Calls : CommitEnd(c, x)
  BY <1>1, <1>3, <1>5 DEF CommitEnd
<1>6. CASE \/ StartTransfer(x)
           \/ \E t \in {"CANCELLED", "EXPIRED"} : EndOpen(x, t)
           \/ \E c \in Calls, t \in {"CANCELLED", "EXPIRED"} : ReadForEnd(c, x, t)
           \/ Tick(x)
  BY <1>1, <1>6 DEF StartTransfer, EndOpen, ReadForEnd, Tick
<1> QED
  BY <1>2, <1>4, <1>5, <1>6 DEF Exchange

LEMMA HoldsKept == ASSUME TypeOK, [Next]_vars
                   PROVE  \A x \in Exchanges : ExchangeHoldKept(x)
<1>1. CASE UNCHANGED alloc
  BY <1>1, SameExchangeHold
<1>2. ASSUME NEW h \in Requests \cup Tickets, NEW a, alloc' = [alloc EXCEPT ![h] = a]
      PROVE  \A x \in Exchanges : ExchangeHoldKept(x)
  <2>1. \A x \in Exchanges : alloc'[x] = alloc[x]
    BY <1>2, HoldsDisjoint DEF TypeOK, Holds
  <2> QED
    BY <2>1, SameExchangeHold
<1>3. CASE \E r \in Pools : Everyday(r)
  BY <1>1, <1>2, <1>3 DEF Everyday, Register, ReserveQuantity,
     ReleaseQuantityReservation, EverydayAllocateQuantity
<1>4. CASE \E t \in Tickets : EverydayReturn(t)
  BY <1>2, <1>4 DEF EverydayReturn
<1>5. ASSUME NEW q \in Requests, Emergency(q)
      PROVE  \A x \in Exchanges : ExchangeHoldKept(x)
  <2>1. CASE AutoRelease(q)
    BY <1>1, <1>2, <2>1 DEF AutoRelease
  <2>2. ASSUME NEW c \in Calls, CommitClaim(c, q)
        PROVE  \A x \in Exchanges : ExchangeHoldKept(x)
    <3>1. UNCHANGED alloc \/ \E a : alloc' = [alloc EXCEPT ![q] = a]
      BY <2>2 DEF CommitClaim
    <3> QED
      BY <1>1, <1>2, <3>1
  <2>3. CASE \/ \E r \in Pools, n \in Quantities : CreateRequest(q, r, n)
             \/ CloseUnallocated(q)
             \/ \E c \in Calls : ReadForClaim(c, q)
             \/ CompleteRequest(q)
             \/ LookupHolders(q)
    BY <1>1, <2>3 DEF CreateRequest, CloseUnallocated, ReadForClaim, CompleteRequest,
       LookupHolders
  <2> QED
    BY <1>5, <2>1, <2>2, <2>3 DEF Emergency
<1>6. CASE UNCHANGED vars \/ \E c \in Calls : Crash(c)
  BY <1>1, <1>6 DEF vars, Crash
<1>7. CASE \E x \in Exchanges : Exchange(x) \/ Tick(x)
  BY <1>7, OwnHoldKept
<1> QED
  BY <1>3, <1>4, <1>5, <1>6, <1>7 DEF Next

\* The ending in flight of a call, made by this step, or there before it.
LEMMA EndingsKept ==
    ASSUME TypeOK, [Next]_vars, NEW c \in Calls
    PROVE  \/ call'[c] = call[c]
           \/ call'[c].step # "ending"
           \/ \E x \in Exchanges, t \in {"CANCELLED", "EXPIRED"} : ReadForEnd(c, x, t)
<1>0. Idle.step # "ending"
  BY DEF Idle
<1>1. CASE UNCHANGED call
  BY <1>1
<1>2. ASSUME NEW k \in Calls, call' = [call EXCEPT ![k] = Idle]
      PROVE  call'[c] = call[c] \/ call'[c].step # "ending"
  BY <1>0, <1>2 DEF TypeOK
<1>3. ASSUME NEW q \in Requests, NEW k \in Calls, ReadForClaim(k, q)
      PROVE  call'[c] = call[c] \/ call'[c].step # "ending"
  <2>1. CASE k = c
    BY <1>3, <2>1 DEF ReadForClaim, TypeOK
  <2>2. CASE k # c
    BY <1>3, <2>2 DEF ReadForClaim, TypeOK
  <2> QED
    BY <2>1, <2>2
<1>4. ASSUME NEW x \in Exchanges, NEW k \in Calls, NEW t \in {"CANCELLED", "EXPIRED"},
             ReadForEnd(k, x, t), k # c
      PROVE  call'[c] = call[c]
  BY <1>4 DEF ReadForEnd, TypeOK
<1>5. CASE \E r \in Pools : Everyday(r)
  BY <1>1, <1>5 DEF Everyday, Register, ReserveQuantity,
     ReleaseQuantityReservation, EverydayAllocateQuantity
<1>6. CASE \E t \in Tickets : EverydayReturn(t)
  BY <1>1, <1>6 DEF EverydayReturn
<1>7. ASSUME NEW q \in Requests, Emergency(q)
      PROVE  call'[c] = call[c] \/ call'[c].step # "ending"
  BY <1>1, <1>2, <1>3, <1>7 DEF Emergency, CreateRequest, CloseUnallocated,
     CommitClaim, CompleteRequest, LookupHolders, AutoRelease
<1>8. CASE \E k \in Calls : Crash(k)
  BY <1>2, <1>8 DEF Crash
<1>9. CASE UNCHANGED vars
  BY <1>1, <1>9 DEF vars
<1>10. CASE \E x \in Exchanges : Exchange(x) \/ Tick(x)
  BY <1>1, <1>2, <1>4, <1>10 DEF Exchange, Tick, AcceptOffer, StartTransfer,
     ConfirmQuantityHandover, EndOpen, CommitEnd
<1> QED
  BY <1>5, <1>6, <1>7, <1>8, <1>9, <1>10 DEF Next

\* An ending reads a counter that covers its hold, as every counter does.
LEMMA ReadKnows ==
    ASSUME Inv, AccountInv, NEW c \in Calls, NEW x \in Exchanges,
           NEW t \in {"CANCELLED", "EXPIRED"}, ReadForEnd(c, x, t)
    PROVE  EndKnows(c)'
<1>0. TypeOK /\ x \in Holds
  BY DEF Inv, Holds
<1>1. alloc[x].status = "OPEN" /\ alloc[x] \in Allocation /\ alloc[x] # NoAllocation
  BY <1>0, OpenShape DEF ReadForEnd, NoAllocation
<1>2. PICK r \in Pools : r = alloc[x].resource
  BY <1>1 DEF Allocation
<1>3. UnitsOut(x, r) = alloc[x].quantity
  BY <1>1, <1>2 DEF UnitsOut
<1>4. alloc[x].quantity <= pool[r].allocated
  BY <1>0, <1>3, OutIsAllocated DEF AccountInv
<1>5. call'[c].exchange = x /\ call'[c].allocated = pool[r].allocated /\ UNCHANGED alloc
  BY <1>0, <1>2 DEF ReadForEnd, TypeOK
<1> QED
  BY <1>1, <1>4, <1>5 DEF EndKnows

LEMMA AccountStep ==
    ASSUME Inv, Inv', ClaimsInv, AccountInv, [Next]_vars PROVE AccountInv'
<1>0. TypeOK /\ TypeOK'
  BY DEF Inv
<1>1. Accounted'
  BY <1>0, StepMoves, MovesCounted DEF AccountInv
<1>2. \A x \in Exchanges : ExchangeHoldKept(x)
  BY <1>0, HoldsKept
<1>3. ASSUME NEW c \in Calls PROVE EndKnows(c)'
  <2>1. CASE call'[c] = call[c] /\ call[c].step = "ending"
    <3>1. call[c].exchange \in Exchanges
      BY <1>0, <2>1, EndShape DEF EndCall
    <3>2. EndKnows(c)
      BY DEF AccountInv
    <3> QED
      BY <1>2, <2>1, <3>1, <3>2 DEF EndKnows, ExchangeHoldKept
  <2>2. CASE call'[c].step # "ending"
    BY <2>2 DEF EndKnows
  <2>3. CASE \E x \in Exchanges, t \in {"CANCELLED", "EXPIRED"} : ReadForEnd(c, x, t)
    BY <2>3, ReadKnows
  <2> QED
    BY <1>0, <2>1, <2>2, <2>3, EndingsKept
<1>4. ASSUME NEW x \in Exchanges PROVE Foreign(x)'
  BY <1>2 DEF AccountInv, Foreign, ExchangeHoldKept
<1> QED
  BY <1>1, <1>3, <1>4 DEF AccountInv

LEMMA AccountInit == Init => AccountInv
<1> SUFFICES ASSUME Init PROVE AccountInv
  OBVIOUS
<1>1. \A h \in Holds, r \in Pools : UnitsOut(h, r) = 0
  BY DEF Init, UnitsOut
<1>2. ASSUME NEW r \in Pools PROVE UnitsOutOf(r) = {}
  BY <1>1 DEF UnitsOutOf
<1>3. IsFiniteSet({}) /\ Cardinality({}) = 0
  BY FS_EmptySet
<1>4. \A r \in Pools : pool[r].allocated = 0
  BY DEF Init, NoPool
<1>5. Accounted
  BY <1>2, <1>3, <1>4 DEF Accounted
<1>6. \A c \in Calls : EndKnows(c)
  BY DEF Init, EndKnows, Idle
<1>7. \A x \in Exchanges : Foreign(x)
  BY DEF Init, Foreign, Holds
<1> QED
  BY <1>5, <1>6, <1>7 DEF AccountInv

\* Types, balance, requests and their allocations, and the account, together.
PoolInv == Inv /\ ClaimsInv /\ AccountInv

THEOREM AccountInductive == Spec => []PoolInv
<1>1. Init => PoolInv
  BY InvInit, ClaimsInit, AccountInit DEF PoolInv
<1>2. PoolInv /\ [Next]_vars => PoolInv'
  <2> SUFFICES ASSUME PoolInv, [Next]_vars PROVE PoolInv'
    OBVIOUS
  <2>1. Inv /\ ClaimsInv /\ AccountInv /\ TypeOK
    BY DEF PoolInv, Inv
  <2>2. Inv'
    BY <2>1, InvStep
  <2>3. ClaimsInv'
    BY <2>1, ClaimsStep
  <2>4. AccountInv'
    BY <2>1, <2>2, AccountStep
  <2> QED
    BY <2>2, <2>3, <2>4 DEF PoolInv
<1> QED
  BY <1>1, <1>2, PTL DEF Spec

\* In every reachable state quantity_allocated of each pool counts the units
\* that its holds have out: none is allocated twice or to nobody.
THEOREM AccountCorrect == Spec => []AllocatedAccounted
<1>1. PoolInv => AllocatedAccounted
  BY DEF PoolInv, AccountInv, Accounted, AllocatedAccounted
<1> QED
  BY <1>1, AccountInductive, PTL

\* The pools implement the abstract bank: every step of every handler moves
\* units between free, reserved and one holder, or none.
THEOREM BankCorrect == Spec => ImplementsBank
<1>1. Init => Bank!Init
  <2> SUFFICES ASSUME Init PROVE Bank!Init
    OBVIOUS
  <2>1. FreeUnits = [r \in Pools |-> 0] /\ ReservedUnits = [r \in Pools |-> 0]
    BY DEF Init, FreeUnits, ReservedUnits, NoPool
  <2>2. HeldUnits = [h \in Holds |-> [r \in Pools |-> 0]]
    BY DEF Init, HeldUnits, UnitsOut
  <2> QED
    BY <2>1, <2>2 DEF Bank!Init
<1>2. PoolInv /\ PoolInv' /\ [Next]_vars => [Bank!Next]_(Bank!bankVars)
  <2> SUFFICES ASSUME PoolInv, PoolInv', [Next]_vars
               PROVE  Bank!Next \/ UNCHANGED Bank!bankVars
    OBVIOUS
  <2>1. Inv /\ ClaimsInv /\ AccountInv /\ TypeOK /\ TypeOK' /\ Accounted
    BY DEF PoolInv, Inv, AccountInv
  <2>2. UnitsMove
    BY <2>1, StepMoves
  <2> QED
    BY <2>1, <2>2, MovesBank
<1> QED
  BY <1>1, <1>2, AccountInductive, PTL DEF Spec, ImplementsBank, Bank!Spec
=============================================================================
